SPECIFICATION Spec
CONSTANTS
  b1 = b1
  b2 = b2
  t1 = t1
  t2 = t2
  NoBase = NoBase
  NoSock = NoSock
  Bases = {b1, b2}
  Tasks = {t1, t2}
  Home <- OwnHome
  Opener <- OwnOpener
  Socks = {s1, s2, s3}
  NFds = 2
  Backlog = 1
  Ids = {0}
  FirstUnique = 1
  MaxReleased = 1
  Uses = {"listen", "release", "setown", "netdown"}
SYMMETRY SockSymmetry
CHECK_DEADLOCK FALSE
INVARIANTS OwnersSound
