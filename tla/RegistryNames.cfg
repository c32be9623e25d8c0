CONSTANTS
  Tids = {t1, t2, t3}
  Names = {n1, n2}
  TidInit = TidInit
  MaxListed = 3
SPECIFICATION RegistrySpec
INVARIANTS NamesListed LeaversUnnamed
CHECK_DEADLOCK FALSE
