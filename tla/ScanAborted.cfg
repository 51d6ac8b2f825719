CONSTANTS
  Folder = {d1}
  Sub = {s1}
  Name = {n1}
  MaxRepeats = 0
SPECIFICATION Spec
INVARIANT FinishedMeansComplete
