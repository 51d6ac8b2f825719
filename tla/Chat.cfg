CONSTANTS
  Server = {"red", "blue"}
  Primary = "red"
  Session = {"1", "2"}
  Person = {"ann", "2"}
  Us = "me"
  Matching <- MCMatching
  Wildcards = {"*"}
  Input <- MCInput
  Stored <- MCStored
  LogDir = {"logs"}
  MaxSteps = 3
SPECIFICATION Spec
CHECK_DEADLOCK FALSE
INVARIANTS OwnLinesOnce IgnoredStaysOut WhispersReachTheNamed LogIsFaithful ListShowsEveryone ListIsCurrent
