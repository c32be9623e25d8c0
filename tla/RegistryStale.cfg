CONSTANTS
  Tids = {t1, t2}
  Names = {n1, n2}
  TidInit = TidInit
  MaxListed = 3
SPECIFICATION RegistrySpec
PROPERTY OthersKeepNames
CHECK_DEADLOCK FALSE
