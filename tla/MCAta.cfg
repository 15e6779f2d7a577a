SPECIFICATION AtaFairSpec
CONSTANTS
  Byte = 2
  Nibble = 2
  Words = 2
  Sectors = {0, 1, 2, 4, 7, 8, 13}
  MayFail = TRUE
INVARIANT NothingLeft
PROPERTIES ImplementsDisk ReadReturns
CHECK_DEADLOCK FALSE
