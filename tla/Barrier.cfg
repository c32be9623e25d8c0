CONSTANTS
  Threads = {t1, t2, t3, t4, t5}
  Limit = 3
  Modulus = 3
SPECIFICATION FairSpec
INVARIANTS ReleasedAreAwake
PROPERTIES ImplementsBarrierGroups ReleasedLeave
