SPECIFICATION FairSpec
CONSTANTS
  Lines = {0, 1, 14}
  Exceptions = {12}
  MaxRaises = 2
  FirmwareMasks <- MCFirmwareMasks
  Responses <- MCResponses
INVARIANTS NothingBlocked EoiEndsItsOwn TicksExact CrashMeansException
PROPERTIES LinesServed CrashReboots BootsToShell
CHECK_DEADLOCK FALSE
