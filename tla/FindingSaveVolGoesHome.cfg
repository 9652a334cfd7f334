CONSTANTS
  MaxVolumes = 2
  MaxSector = 4
  DiskSize = 8
  n1 = n1
  n2 = n2
  n3 = n3
  Nodes <- ThreeNodes
  NullPtr = NullPtr
  WildPtr = WildPtr
  BlocCounts <- SizesOneToThree
  BlocAnswers <- BlocsToTwo
SYMMETRY ThreeNodeSymmetry
SPECIFICATION NamedSpec
PROPERTY SaveVolGoesHome
CHECK_DEADLOCK FALSE
