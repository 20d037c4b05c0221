SPECIFICATION Spec
CONSTANTS
  AreaThreads = 3
  Net <- MCNet
  Partitions <- MCPartitions
INVARIANTS
  TablesInUse
  LookupsRace
  NoNetLost
  DemandsMerged
PROPERTIES
  Terminates
