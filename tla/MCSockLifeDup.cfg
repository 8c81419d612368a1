SPECIFICATION Spec
CONSTANTS
  b1 = b1
  b2 = b2
  t1 = t1
  t2 = t2
  NoBase = NoBase
  NoSock = NoSock
  Bases = {b1}
  Tasks = {t1, t2}
  Home <- SharedHome
  Opener <- SharedOpener
  Socks = {s1, s2}
  NFds = 2
  Backlog = 0
  Ids = {0, 1}
  FirstUnique = 1
  MaxReleased = 1
  Uses = {"connect", "linger", "dup", "copy"}
SYMMETRY SockSymmetry
CHECK_DEADLOCK FALSE
INVARIANTS DescriptorsSound
PROPERTIES ReturnKeepsDescriptors
