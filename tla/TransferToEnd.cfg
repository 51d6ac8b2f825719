CONSTANTS
  Peer = {me, p1}
  Me = me
  File = {f1}
  MaxSize = 2
  MaxRequest = 2
  MaxLists = 1
  MaxUploads = 2
  Caps = {}
  DiskChurn = FALSE
  UserAborts = TRUE
SPECIFICATION TransferFairSpec
INVARIANTS ExactCopies AllServedAreKept
PROPERTY RequestServed
