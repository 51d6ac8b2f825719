CONSTANTS
  Server = {"red", "blue"}
  Primary = "red"
  Session = {"1", "2"}
  Person = {"ann", "2"}
  Us = "me"
  Matching <- MCMatching
  Wildcards = {"*"}
  Input <- MCInput
  Stored <- MCStored
  LogDir = {"logs"}
  MaxSteps = 3
SPECIFICATION Spec
CHECK_DEADLOCK FALSE
\* Each is violated: keep one at a time.
INVARIANT OwnLinesNeverTwice
INVARIANT OneFilePerServer
