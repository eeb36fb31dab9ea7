SPECIFICATION FairSpec
CONSTANTS
  CPUs = {cpu}
  Buses = 3
  Slots = 2
  Funcs = 2
  MaxDepth = 4
  Types <- MCTypes
  Machines <- MCMachines
INVARIANTS
  ScanComplete
  ReportedOnce
  PictureWhole
PROPERTY
  ScanEnds
CHECK_DEADLOCK FALSE
