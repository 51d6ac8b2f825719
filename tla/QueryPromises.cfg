CONSTANTS
  Conn = {c1}
  Session = {s1}
  Name = {n1}
  UserName = {a}
  NoName = none
  Pattern = {{n1}}
  MaxQueries = 2
  MaxInFlight = 2
SPECIFICATION Spec
\* Each is violated: keep one at a time.
INVARIANT OneRowPerFile
INVARIANT GoneMeansGone
