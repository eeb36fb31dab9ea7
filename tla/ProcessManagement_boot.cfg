\* Two processors, memory suffices: do all of them get to schedule?
SPECIFICATION FairSpec
CONSTANTS
  bsp = bsp
  ap1 = ap1
  ap2 = ap2
  CPUOrder <- TwoCPUs
  LapicID <- TwoIDs
  BSP = bsp
  NumSlots = 2
  MemoryMayRunOut = FALSE
PROPERTIES EveryProcessorSchedules
