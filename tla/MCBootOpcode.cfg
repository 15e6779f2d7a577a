SPECIFICATION Spec
CONSTANTS
  Lines = {0}
  Exceptions = {6}
  MaxRaises = 2
  FirmwareMasks <- MCFirmwareMasks
  Responses <- MCResponses
INVARIANT CrashNamesException
CHECK_DEADLOCK FALSE
