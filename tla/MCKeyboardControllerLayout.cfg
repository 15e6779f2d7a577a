SPECIFICATION FairSpec
CONSTANTS
  Firmware = {97}
  KeyBytes = {30, 158}
  MaxKeys = 2
  MaxCalls = 1
PROPERTY LayoutReturns
CHECK_DEADLOCK FALSE
