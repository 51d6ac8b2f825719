CONSTANTS
  Peer = {p1, p2, p3}
  File = {f1, f2}
  MaxSize = 1
  MaxRequest = 2
  MaxLists = 1
  MaxUploads = 2
  Caps = {}
  DiskChurn = FALSE
SPECIFICATION Spec
INVARIANTS SendingWithinCap DrainPerSender WaitOnlyWhenNearlyFull ServedCompletely
PROPERTY NoOvertaking
SYMMETRY Symmetry
