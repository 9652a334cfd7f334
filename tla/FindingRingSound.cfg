CONSTANTS
  c1 = c1
  c2 = c2
  c3 = c3
  NoCtx = NoCtx
  Contexts <- ThreeContexts
  Mortal <- ThreeContexts
  Tokens <- OnlyOne
  MinVal <- MinusThree
  MaxFrames = 3
SPECIFICATION CalmSpec
INVARIANT RingSound
CHECK_DEADLOCK FALSE
