SPECIFICATION FairSpec
CONSTANTS
  Firmware = {97, 116}
  KeyBytes = {30, 158}
  MaxKeys = 3
  MaxCalls = 2
INVARIANTS KeyboardStaysEnabled ConfigPreserved
PROPERTIES ReturnsUnlessRobbed KeyboardNeverDeaf
CHECK_DEADLOCK FALSE
