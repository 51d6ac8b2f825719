CONSTANTS
  Folder = {d1}
  Sub = {s1}
  Name = {n1}
  MaxRepeats = 0
  NoFolder = none
  Conn = {c1}
SPECIFICATION SharingSpec
\* Each is violated: keep one at a time.
INVARIANT OffMeansUnpublished
INVARIANT CountIsRight
