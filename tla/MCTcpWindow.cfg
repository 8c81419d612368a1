SPECIFICATION Spec
CONSTANTS
  Passive = {"server"}
  Writes <- ThreeOneWay
  Iss <- NearWrap
  SeqSpace = 16
  MaxSeg = 1
  Hiwat = 2
  Cwnds = {2}
  RexmtThresh = 1
  MaxRxtShift = 1
  MaxNet = 2
  Uses = {"repeat", "rexmt", "shutdown", "keepalive"}
CHECK_DEADLOCK FALSE
INVARIANTS SenderSound
PROPERTIES WindowKept
