CONSTANTS
  Download = {d1, d2, d3}
  Sharer = {s1, s2}
  MaxCap = 2
  CapChanges = TRUE
  MaxQueued = 3
SPECIFICATION FairSpec
INVARIANTS WaitersWillBeStarted
PROPERTIES SlotsAreUsed AbortAllStops WaitingEnds
