CONSTANTS
  p1 = p1
  p2 = p2
  p3 = p3
  a = a
  b = b
  NoTid = NoTid
  Peers = {p1, p2}
  Role <- OwnerAndLinked
  Kinds = {a, b}
  Choosy = {b}
  SendTypes = {"standard", "priority"}
  OpSets <- EitherOrBoth
  Limits = {2}
  Crowding = {"block"}
  MaxAccepted = 5
SPECIFICATION Spec
INVARIANTS SleepsOnlyWithoutMatch UserMessagesBounded SendersSleepOnlyWhenFull
PROPERTIES ImplementsMailbox PriorityNotOvertaken
