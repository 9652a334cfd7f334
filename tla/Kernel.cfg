CONSTANTS
  Width = 2
  Height = 2
  TabStop = 2
  Base = 1
  VideoSize = 5
  Printable <- MCPrintable
  Blank <- MCBlank
  Texts <- MCTexts
  Levels <- MCLevels
  Budget <- MCBudget
  BootText <- MCBootText
  TimerText <- MCTimerText
  FaultText <- MCFaultText
SPECIFICATION KernelSpec
INVARIANTS
  KernelTypeOK
  StoresInVideoMemory
  EchoOnScreen
  OnlyTimersNest
  ServesItsOwn
  NestingCostsTimers
PROPERTIES
  ComesToRest
  KeysRead
