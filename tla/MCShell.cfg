SPECIFICATION FairSpec
CONSTANTS
  Width = 32
  Height = 48
  MaxLen = 5
  MaxKeys = 7
  Typed <- MCTyped
  Name <- MCName
  LayoutArgs <- MCLayoutArgs
  Texts <- MCTexts
  Glyphs <- MCGlyphs
  Garbage <- MCGarbage
INVARIANTS TypeOK FrontierBlank OffscreenAtZero PromptIntact EchoExact BufferShown
PROPERTIES ImplementsCommandLine PromptReturns
CHECK_DEADLOCK FALSE
