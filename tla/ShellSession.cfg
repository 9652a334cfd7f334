CONSTANTS
  MaxVolumes = 3
  MaxSector = 6
  DiskSize = 12
  n1 = n1
  n2 = n2
  n3 = n3
  n4 = n4
  Nodes <- MCNodes
  NullPtr = NullPtr
  WildPtr = WildPtr
  Used <- MCUsed
  BlocCounts <- MCBlocCounts
  BlocAnswers <- MCBlocAnswers
SYMMETRY NodeSymmetry
VIEW SessionView
SPECIFICATION SessionSpec
INVARIANT
  NodesHaveOneList
PROPERTIES
  SessionNeverFaults
  KeepsPromise
CHECK_DEADLOCK FALSE
