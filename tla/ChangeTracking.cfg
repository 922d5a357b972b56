SPECIFICATION Spec
CONSTANTS
  p = p
  q = q
  x = x
  n = n
  Request = {p, q}
  Record = {x, n}
  Value = {0, 1}
  Absent = Absent
  Start <- OneThere
  Lifecycle = {n}
  MaxTx <- OneMore
  MaxWrites <- OneMore
  MaxFaults = 1
INVARIANTS TypeOK NewsIsTrue ToldOnce TrailIsComplete AllAnnounced
CHECK_DEADLOCK FALSE
