\* All memory below 2 GiB, but not always enough of it; the work is done once
\* the process has its table, or the kernel has faulted.
SPECIFICATION Spec
CONSTANTS
  Levels = 3
  Fanout = 4
  NumFrames = 14
  UsableMemory <- Memories
  DirectMapBase = 32
  KernelStart = 47
  KernelPages = 1
  ImageFrame = 12
  Entrypoint = 1
  FieldLimit = 13
  IntLimit = 13
  LeftBehind <- Leftovers
INVARIANTS KernelMapped KernelHalfShared UserHalfPrivate
PROPERTIES MapExact
CHECK_DEADLOCK FALSE
