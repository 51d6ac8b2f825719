CONSTANTS
  Download = {d1, d2}
  Sharer = {s1}
  MaxCap = 2
  CapChanges = TRUE
  MaxQueued = 2
SPECIFICATION Spec
PROPERTY OverStaysOver
