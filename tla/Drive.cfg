CONSTANTS
  MaxCylinder = 2
  MaxSector = 3
  STPS = 2
  PON_DELAY = 2
  Payload <- MCPayload
  FormatCounts <- MCFormatCounts
  Targets <- MCTargets
SPECIFICATION PromptSpec
PROPERTIES
  ReadsItsSector
  WritesLand
  EveryRequestReturns
  ImplementsStore
