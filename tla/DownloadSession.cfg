CONSTANTS
  File = {f1, f2}
  MaxAttempt = 2
  MaxSize = 2
  MaxDone = 3
  MaxFiles = 2
  Requested = 2
SPECIFICATION Spec
CHECK_DEADLOCK FALSE
INVARIANTS NoPartialFiles CountIsOnDisk
PROPERTIES NoFileLost LifecycleSpec
