CONSTANTS
  Folder = {d1, d2}
  Sub = {s1}
  Name = {n1, n2}
  MaxRepeats = 0
  NoFolder = none
  Conn = {c1, c2}
SPECIFICATION SharingSpec
SYMMETRY Symmetry
INVARIANTS EverythingPublished EverythingServed
