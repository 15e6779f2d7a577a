SPECIFICATION Spec
CONSTANTS
  Width = 32
  Height = 32
  Pitches = {32, 34}
  Bottom = 32
  Typed = {"a", " "}
  HexDigits = 1
  Addresses = {0, 9, 13}
  Font <- MCFont
  Layout <- MCLayout
INVARIANT CrashShown
PROPERTY ImplementsScreen
CHECK_DEADLOCK FALSE
