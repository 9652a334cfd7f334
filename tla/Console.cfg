CONSTANTS
  Width = 4
  Height = 2
  TabStop = 2
  Base = 4
  VideoSize = 12
  Printable <- MCPrintable
  Blank <- MCBlank
  Texts <- MCTexts
SPECIFICATION ConsoleSpec
INVARIANT ConsoleTypeOK
PROPERTIES
  CursorShown
  ImplementsTerminal
