\* Enough memory, the upper part of it at 2 GiB and above: does boot succeed?
SPECIFICATION FairSpec
CONSTANTS
  Levels = 3
  Fanout = 4
  NumFrames = 14
  UsableMemory <- OneMemory
  DirectMapBase = 32
  KernelStart = 47
  KernelPages = 1
  ImageFrame = 12
  Entrypoint = 1
  FieldLimit = 14
  IntLimit = 8
  LeftBehind <- Zeroes
PROPERTIES DirectMapEstablished
CHECK_DEADLOCK FALSE
