CONSTANTS
  MaxVolumes = 3
  MaxSector = 3
  BlocCounts <- MCBlocCounts
SPECIFICATION Spec
CONSTRAINT SmallDisk
INVARIANTS
  TypeOK
  VolumesOrdered
  BlocsHaveOwnSector
PROPERTY VolumesStayPut
