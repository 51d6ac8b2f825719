CONSTANTS
  Peer = {p1, p2, p3}
  File = {f1}
  MaxSize = 1
  MaxRequest = 1
  MaxLists = 2
  MaxUploads = 2
  Caps = {0}
  DiskChurn = TRUE
SPECIFICATION Spec
SYMMETRY Symmetry
INVARIANT TypeOK
PROPERTY AdmissionRespectsCap
