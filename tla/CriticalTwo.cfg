CONSTANTS
  a = a
  b = b
  Threads = {t1, t2, t3}
  Sections = {a, b}
  Gcs = gcs
  Null = Null
  NoThread = NoThread
  Inside <- AInAAndBInA
  MaxNesting = 3
SYMMETRY ThreadSymmetry
SPECIFICATION Spec
INVARIANTS CreatedOnce Exclusion AllDestroyed
