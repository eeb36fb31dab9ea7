\* One processor that gives ranges back only where they touch no free page.
SPECIFICATION FairSpec
CONSTANTS
  CPU = {bsp}
  BSP = bsp
  NumPages = 7
  MaxRequest = 2
  MemoryMap <- SplitMemory
  Junk = {1}
  FreePolicy = "isolated"
INVARIANTS TypeOK NoDoubleAllocation ListWellFormed
PROPERTIES ImplementsPageAllocator WalkEnds
