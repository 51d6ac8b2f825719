CONSTANTS
  Peer = {p1, p2}
  File = {f1}
  MaxSize = 1
  MaxRequest = 1
  MaxLists = 1
  MaxUploads = 1
  Caps = {}
  DiskChurn = FALSE
SPECIFICATION Spec
INVARIANT LonePeerServed
