INIT InetInit
NEXT InetNext
CONSTANTS
  EthMtu = 76
  Forwarding = TRUE
  Redirects = TRUE
  EchoPolicy = "process"
  IpPackets <- IpIn
  LocalPackets <- LocalOut
  SockOpts <- SockOptLists
  IpQMax = 2
  MaxIpEvents = 2
  Socks = {"a", "b", "c"}
  RawSocks = {"r"}
  Reuse <- ReuseDef
  Locals = {1}
  Peers = {8}
  PeerPorts = {53}
  Ports = {7}
  Anon = {20, 21}
  RandTries = 2
  ScanTries = 2
  RcvMax = 1
  Bytes = 5
  Mss = 1
  Thresh = 2
  InitCwnd = 3
  RcvBlocks = 2
  SndBlocks = 3
  OptBlocks = 2
  MaxRto = 1
  EvSocks = {"c1", "c2"}
  Listener = "l"
  EvMasks <- EvMaskSet
  Errnos = {61}
  MaxNet = 4
  WireBytes = {0, 1, 2, 46, 128, 192}
  MaxWire = 4
  Room = 4
  LabelSets <- LabelList
  MaxLabels = 2
  Answers <- AnswerSet
  MaxAnswers = 3
  MaxAliases = 2
  MaxAddrs = 2
  HostBuf = 9
  AddrLen = 2
  NoTtl = 9
  ReplyRooms = {16, 24}
  SumBytes = {1, 255}
  SumLens = {0, 1, 3}
  MaxRules = 2
  Oct = 4
  Entries <- EntryDefs
  Msgs = {"m1", "m2"}
  Writers = {"w1", "w2"}
  Levels = {0, 1, 7}
  LogLevel = 1
  Scripts = {"s"}
  MaxLogs = 3
  MaxLives = 2
  Clients = {"c"}
  Servers = {"s1", "s2"}
  Links = {"e"}
  Searches = {"d1"}
  Hosts = {"www", "a.b"}
  Dots <- DotsDef
  HostFile = {}
  HostDomain = "hd"
  Usens = 1
  FileServers <- FileNs
  FileDomains <- FileSearch
  FileNets = 1
  Slots = 1
  Retry = 1
  MaxSearch = 2
  MaxRejects = 2
  Ttl = 1
  NegTtl = 1
  MaxNow = 1
  MaxEdits = 1
CHECK_DEADLOCK FALSE
INVARIANTS IpSound PcbsSound SackSound EventsKept CodecRight LogSound NamesSound
