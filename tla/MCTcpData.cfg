SPECIFICATION Spec
CONSTANTS
  Passive = {"server"}
  Writes <- TwoOneWay
  Iss <- NearWrap
  SeqSpace = 16
  MaxSeg = 2
  Hiwat = 2
  Cwnds = {2}
  RexmtThresh = 1
  MaxRxtShift = 1
  MaxNet = 2
  Uses = {"lose", "rexmt", "close", "abort"}
CHECK_DEADLOCK FALSE
INVARIANTS SequenceSound
PROPERTIES StreamImplemented
