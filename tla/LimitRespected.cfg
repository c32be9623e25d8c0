CONSTANTS
  p1 = p1
  p2 = p2
  p3 = p3
  a = a
  b = b
  NoTid = NoTid
  Peers = {p1, p2}
  Role <- Strangers
  Kinds = {a, b}
  Choosy = {}
  SendTypes = {"standard"}
  OpSets <- OneOrOther
  Limits = {2}
  Crowding = {"block"}
  MaxAccepted = 5
SPECIFICATION Spec
INVARIANT LimitRespected
