SPECIFICATION Spec
CONSTANTS
  t1 = t1
  t2 = t2
  b1 = b1
  lib = lib
  Tasks = {t1, t2}
  Net = net
  NoTask = notask
  Chans = {c1}
  NoChan = nochan
  Buckets = {b1}
  Hash <- MCHash
  Bases = {lib}
  Base <- MCBase
  OwnPri <- MCOwnPri
  NetPri = 5
  IntrTasks = {t1}
INVARIANTS TypeOK QueueConsistent NoDeadFrame BoostFollowsCall Delivered
PROPERTIES InterruptKept
