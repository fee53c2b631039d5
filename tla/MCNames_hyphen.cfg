CONSTANTS
  Alnum <- MCAlnum
  Upper <- MCUpper
  Lower <- MCLower
  MaxName = 4
  MaxHost = 7
SPECIFICATION Spec
CHECK_DEADLOCK FALSE
INVARIANT EveryPublicHostParses
