CONSTANTS
  Folder = {d1, d2}
  Sub = {s1}
  Name = {n1}
  MaxRepeats = 0
  NoFolder = none
  Conn = {c1}
SPECIFICATION SharingSpec
INVARIANT ServedIsShared
