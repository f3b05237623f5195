SPECIFICATION Spec
CONSTANTS
  Size = 4
  NUL = NUL
  Keys <- EditKeys
  InputLen = 2
  Width = 3
  Height = 1
  Texts <- MCTexts
  None = None
  MaxLine = 2
  MaxHistory = 1
CHECK_DEADLOCK FALSE
INVARIANTS  ScreenShowsLine
PROPERTY ImplementsLineInput
