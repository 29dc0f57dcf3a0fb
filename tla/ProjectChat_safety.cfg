SPECIFICATION Spec
CONSTANTS
  r1 = r1
  r2 = r2
  r3 = r3
  p1 = p1
  p2 = p2
  Requests = {r1, r2, r3}
  Pages = {p1, p2}
  RecentTurns = 1
  MaxLoads = 2
  MaxFailures = 2
  MaxTogether = 3
  NoOne = NoOne
SYMMETRY Symmetry
CHECK_DEADLOCK FALSE
INVARIANTS
  TypeOK
  PageIsTrue
  ContextIsNotOlderThanSeen
