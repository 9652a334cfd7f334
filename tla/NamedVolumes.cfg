CONSTANTS
  MaxVolumes = 2
  MaxSector = 4
  DiskSize = 8
  n1 = n1
  n2 = n2
  n3 = n3
  Nodes <- TwoNodes
  NullPtr = NullPtr
  WildPtr = WildPtr
  BlocCounts <- SizeTwo
  BlocAnswers <- BlocsToOne
SYMMETRY TwoNodeSymmetry
VIEW LoadView
SPECIFICATION NamedSpec
INVARIANTS
  ShellTypeOK
  WalksTerminate
PROPERTY TableLostToSpillsOnly
