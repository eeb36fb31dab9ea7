\* Two processors that only allocate: does a page keep one owner?
SPECIFICATION Spec
CONSTANTS
  CPU = {bsp, ap}
  BSP = bsp
  NumPages = 2
  MaxRequest = 1
  MemoryMap <- FlatMemory
  Junk = {}
  FreePolicy = "none"
INVARIANTS NoDoubleAllocation
CHECK_DEADLOCK FALSE
