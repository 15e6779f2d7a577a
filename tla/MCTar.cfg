SPECIFICATION FairSpec
CONSTANTS
  Block = 4
  Digits = 3
  Limit = 16
  Archives <- MCArchives
  Names <- MCNames
INVARIANT WalkOnHeaders
PROPERTIES FirstOfItsName SearchEnds
