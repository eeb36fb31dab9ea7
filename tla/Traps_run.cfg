SPECIFICATION FairSpec
CONSTANTS
  InterruptStack = 300
  UserTop = 110
  Exceptions = {6, 13, 14}
  CallWords = 2
CHECK_DEADLOCK FALSE
INVARIANTS
  
  OnKernelStack
PROPERTIES
  ResumedExactly
  TimerKeepsComing
