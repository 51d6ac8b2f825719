CONSTANTS
  Folder = {d1}
  Sub = {s1}
  Name = {n1}
  MaxRepeats = 0
  NoFolder = none
  Conn = {c1, c2}
SPECIFICATION SharingSpec
INVARIANT PortMeansListening
