SPECIFICATION Spec
CONSTANTS
  u1 = u1
  u2 = u2
  r1 = r1
  r2 = r2
  r3 = r3
  c1 = c1
  c2 = c2
  Users = {u1}
  Requests = {r1, r2, r3}
  NoOne = NoOne
  NoPreference = NoPreference
  PolicyRevised = TRUE
  Cleaners = {c1, c2}
  MaxGrants = 1
  MaxFailures = 1
SYMMETRY Symmetry
CHECK_DEADLOCK FALSE
INVARIANTS
  TypeOK
  EventsMatchRows
  ChoicesAreKept
