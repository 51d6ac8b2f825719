CONSTANTS
  Folder = {d1, d2}
  Sub = {s1}
  Name = {n1, n2}
  MaxRepeats = 2
SPECIFICATION FairSpec
INVARIANTS EachNameOnce FoundInFolder ScanIsComplete
PROPERTY CallsReturn
