CONSTANTS
  Peer = {p1, p2, p3}
  File = {f1}
  MaxSize = 1
  MaxRequest = 1
  MaxLists = 1
  MaxUploads = 2
  Caps = {}
  DiskChurn = FALSE
SPECIFICATION QSpec
PROPERTY FifoQueue
