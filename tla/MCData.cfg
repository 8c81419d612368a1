INIT DataInit
NEXT DataNext
CONSTANTS
  MLEN = 3
  MclBytes = 4
  MbufChunk = 2
  MaxChunks = 2
  Clusters = 1
  ProtoHdr = 1
  Mtu = 4
  MaxMbufOps = 5
  Kinds = {"stream", "dgram", "send"}
  HiWat = 4
  MbMax = 20
  LoWat = 1
  MaxStream = 5
  Sizes = {0, 1, 2, 5}
  Chans = {0, 1}
  Readers = {"r"}
  BpfIfs = {"e"}
  BufSizes = {1, 2}
  DfltSize = 2
  MaxPkts = 3
  MaxBpfCalls = 4
  Proglen = 3
  MemWords = 1
  Operands <- OpsDef
  ChainLens <- ChainsDef
  LongWord = 32
  SbMax = 16
  MSize = 1
  MClBytes = 2
  SoBufMin = 2
  Values <- ValueSet
  Pool = 1
  MaxOptCalls = 3
  TunIfs = {"eth0", "ppp0"}
  Machines <- MachineSet
  Environments <- EnvSet
  Configs <- ConfigSet
  Devices <- DeviceSet
  TagLists <- TagSet
  SetValues <- SetVals
  MaxTunOps = 4
  Ifs = {"eth0", "ppp0"}
  Kind <- KindDef
  W = 3
  ClassLen = 1
  MaxIa = 2
  MaxRt = 3
  Masks = {2}
  MaxCalls = 4
  Pcbs = {"p"}
  HostAddrs = {5, 7}
  Dests = {4, 6}
CHECK_DEADLOCK FALSE
INVARIANTS BuffersSound BpfSound FilterSafe OptionsKept TunablesSound RoutesAnchored
