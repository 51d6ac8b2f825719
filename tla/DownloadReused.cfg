CONSTANTS
  Download = {d1, d2, d3}
  Sharer = {s1, s2}
  MaxCap = 1
  CapChanges = FALSE
  MaxQueued = 3
SPECIFICATION Spec
\* Each is violated: keep one at a time.
INVARIANT ContactsItsSharer
PROPERTY AbortsEverything
