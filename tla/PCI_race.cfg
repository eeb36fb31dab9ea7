SPECIFICATION Spec
CONSTANTS
  CPUs = {cpu1, cpu2}
  Buses = 1
  Slots = 2
  Funcs = 1
  MaxDepth = 2
  Types <- MCAnyType
  Machines <- MCDisplay
INVARIANT
  QemuIsDisplay
CHECK_DEADLOCK FALSE
