SPECIFICATION FairSpec
CONSTANTS
  Byte = 4
  Hz = 26
  Second = 4
  PerMs = 6
  Chunk = 2
  Requests = {0, 1, 2, 3, 5}
INVARIANTS NotCutShort WaitsAddUp
PROPERTY SleepEnds
