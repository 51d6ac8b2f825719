CONSTANTS
  File = {f1}
  MaxAttempt = 2
  MaxSize = 2
  MaxDone = 3
  MaxFiles = 2
  Requested = 2
SPECIFICATION Spec
CHECK_DEADLOCK FALSE
\* Each is violated: keep one at a time.
INVARIANT KeptFilesHaveTheirSize
INVARIANT FinishedMeansEverything
PROPERTY NeverOverwritten
