\* Three processors; any allocation may fail, so that a processor may halt or
\* crash in boot and leave nothing to do.
SPECIFICATION FairSpec
CONSTANTS
  bsp = bsp
  ap1 = ap1
  ap2 = ap2
  CPUOrder <- ThreeCPUs
  LapicID <- ThreeIDs
  BSP = bsp
  NumSlots = 2
  MemoryMayRunOut = TRUE
INVARIANTS TypeOK ThisCPUFound SingleRunner PublishedComplete
PROPERTIES OnlyOwnerReleases PublishedRuns ExitCompletes
CHECK_DEADLOCK FALSE
