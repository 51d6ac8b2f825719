CONSTANTS
  Conn = {c1, c2}
  Session = {s1}
  Name = {n1, n2}
  UserName = {a}
  NoName = none
  Pattern = {{n1}, {n2}}
  MaxQueries = 2
  MaxInFlight = 2
SPECIFICATION Spec
SYMMETRY Symmetry
INVARIANTS OneQueryAtATime SweepIsComplete NothingLost ShownIsCurrent
