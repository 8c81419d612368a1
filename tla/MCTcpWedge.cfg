SPECIFICATION Spec
CONSTANTS
  Passive = {"server"}
  Writes <- TwoOneWay
  Iss <- NearWrap
  SeqSpace = 16
  MaxSeg = 1
  Hiwat = 1
  Cwnds = {2}
  RexmtThresh = 1
  MaxRxtShift = 1
  MaxNet = 1
  Uses = {"lose", "rexmt", "shutdown"}
CHECK_DEADLOCK FALSE
INVARIANT QueuedTimed
