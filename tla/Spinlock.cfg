\* Two processors, any interrupt: safety and liveness.  A handler that waits for
\* the lock its own processor's task holds stops every processor that logs, so
\* the system really may stop here.
SPECIFICATION FairSpec
CONSTANTS
  CPU = {c1, c2}
  UnhandledInterrupts = TRUE
INVARIANTS TypeOK MutualExclusion MaskAccounting
PROPERTIES CallerFlagRestored LockReleased
CHECK_DEADLOCK FALSE
