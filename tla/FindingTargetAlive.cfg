CONSTANTS
  c1 = c1
  c2 = c2
  c3 = c3
  NoCtx = NoCtx
  Contexts <- TwoContexts
  Mortal <- OneMortal
  Tokens <- OnlyOne
  MinVal <- MinusThree
  MaxFrames = 3
SPECIFICATION SchedSpec
INVARIANT TargetAlive
CHECK_DEADLOCK FALSE
