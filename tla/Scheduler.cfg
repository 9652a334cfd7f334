CONSTANTS
  c1 = c1
  c2 = c2
  c3 = c3
  NoCtx = NoCtx
  Contexts <- ThreeContexts
  Mortal <- ThreeContexts
  Tokens <- NoneToTwo
  MinVal <- MinusTwo
  MaxFrames = 3
SPECIFICATION ApartSpec
INVARIANTS
  SchedTypeOK
  TokensBounded
  WaitersLinked
  RingSound
  ExitsWhenNoneCanRun
PROPERTIES
  YieldNeverFaults
  EveryRunnableRuns
CHECK_DEADLOCK FALSE
