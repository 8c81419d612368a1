SPECIFICATION LiveSpec
CONSTANTS
  t1 = t1
  b1 = b1
  b2 = b2
  Net = Net
  Nobody = Nobody
  Nil = Nil
  Tasks = {t1}
  Bufs = {b1, b2}
  Watch <- OneWatch
  Stealers = {}
  Timeouts = {"forever", "poll", "timed"}
  d1 = d1
  d2 = d2
  d3 = d3
  Grams = {d1, d2, d3}
  Size <- MCSize
  Pieces <- MCPieces
  MaxPackets = 2
  MaxPerPacket = 3
  MaxData = 3
  TTL = 2
  MaxCount = 4
  Clients = {"c"}
  Servers = {"s1", "s2"}
  Links = {"e"}
  Searches = {"d1"}
  Hosts = {"www"}
  Dots <- DotsDef
  HostFile = {}
  HostDomain = "hd"
  Usens = 1
  FileServers <- FileNs
  FileDomains <- FileSearch
  FileNets = 1
  Slots = 1
  Retry = 1
  MaxSearch = 2
  MaxRejects = 2
  Ttl = 1
  NegTtl = 1
  MaxNow = 1
  MaxEdits = 1
  Builds = {"library", "program"}
  Apps = {"a"}
  Requesters = {"r"}
  Timers = {"t"}
  Grace = 1
  MaxSpawns = 2
  MaxSignals = 1
CHECK_DEADLOCK FALSE
INVARIANTS SelectSound ReassSound
PROPERTIES SelectReturns QueuesLeave LookupEnds RequestAnswered
