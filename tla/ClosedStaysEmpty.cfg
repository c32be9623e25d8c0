CONSTANTS
  p1 = p1
  p2 = p2
  p3 = p3
  a = a
  b = b
  NoTid = NoTid
  Peers = {p1, p2}
  Role <- Strangers
  Kinds = {a}
  Choosy = {}
  SendTypes = {"standard"}
  OpSets <- Everything
  Limits = {1}
  Crowding = {"block"}
  MaxAccepted = 4
SPECIFICATION Spec
INVARIANT ClosedStaysEmpty
