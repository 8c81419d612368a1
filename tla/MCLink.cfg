INIT LinkInit
NEXT LinkNext
CONSTANTS
  Reqno = 2
  IpReqno = 1
  ArpReqno = 0
  QMaxlen = 1
  ProbeSecs = 1
  AbortSecs = 1
  EventMaxFail = 0
  Drivers = {{"deaf"}}
  MaxFlaps = 1
  MaxOps = 3
  MaxOut = 1
  Clients = {"c1", "c2"}
  MaxStarts = 2
  MaxCmds = 3
  a1 = a1
  a2 = a2
  Addrs = {a1, a2}
  Hash <- HashDef
  HwAddrs = {"h1"}
  Packets = {"p1", "p2"}
  Sizes = {1}
  Watched = {}
  MaxTries = 2
  Holddown = 2
  Revalidate = 2
  ProbeLimit = 2
  Slowprobe = 2
  KillC = 3
  KillI = 2
  Jobs = {"j1", "j2"}
  Deadline = 1
  ProbeNum = 2
  MaxConflicts = 1
  MaxOpCalls = 1
  Builds = {"library", "program"}
  Apps = {"a", "b"}
  Requesters = {"r"}
  Timers = {"t"}
  Grace = 1
  MaxSpawns = 2
  MaxSignals = 1
CHECK_DEADLOCK FALSE
INVARIANTS DriverSound HelperSound ArpSound HelpersAccounted StackSound
