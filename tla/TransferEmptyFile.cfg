CONSTANTS
  Peer = {me}
  Me = me
  File = {f1}
  MaxSize = 0
  MaxRequest = 1
  MaxLists = 1
  MaxUploads = 2
  Caps = {}
  DiskChurn = FALSE
  UserAborts = FALSE
SPECIFICATION TransferSpec
PROPERTY HangUpAfterAllFinishes
