SPECIFICATION VendorsSpec
CONSTANTS
  p1 = p1
  p2 = p2
  u1 = u1
  u2 = u2
  j1 = j1
  j2 = j2
  j3 = j3
  Calls = {p1, p2}
  Users = {u1, u2}
  Projects = {j1, j2, j3}
  Existing = {j1, j2}
  OwnerOf <- Owners
  Listings = {1, 2, 3}
  Searched = {2, 3}
  Claimed = {3}
  ClaimedBy <- Claimants
  Null = Null
CHECK_DEADLOCK FALSE
SYMMETRY Symmetry
INVARIANTS
  VendorsTypeOK
  OrderedLocksDoNotDeadlock
PROPERTIES
  AttachedIsTrue
  UpdateIsExact
  FirstComeFirstServed
