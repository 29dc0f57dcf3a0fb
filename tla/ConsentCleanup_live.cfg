SPECIFICATION LiveSpec
CONSTANTS
  u1 = u1
  u2 = u2
  r1 = r1
  r2 = r2
  r3 = r3
  c1 = c1
  c2 = c2
  Users = {u1, u2}
  Requests = {r1}
  NoOne = NoOne
  NoPreference = NoPreference
  PolicyRevised = FALSE
  Cleaners = {c1}
  MaxGrants = 1
  MaxFailures = 1
CHECK_DEADLOCK FALSE
PROPERTIES
  PendingIsResolved
  ImplementsRegistration
