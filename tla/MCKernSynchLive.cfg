SPECIFICATION FairSpec
CONSTANTS
  t1 = t1
  t2 = t2
  b1 = b1
  lib = lib
  Tasks = {t1}
  Net = net
  NoTask = notask
  Chans = {c1, c2}
  NoChan = nochan
  Buckets = {b1}
  Hash <- MCHash
  Bases = {lib}
  Base <- MCBase
  OwnPri <- MCOwnPri
  NetPri = 5
  IntrTasks = {t1}
PROPERTIES SleepReturns WakesOnlyItsChannel
