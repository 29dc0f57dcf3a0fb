SPECIFICATION FairSpec
CONSTANTS
  w1 = w1
  w2 = w2
  u1 = u1
  j1 = j1
  Jobs = {j1}
  Workers = {w1, w2}
  Users = {u1}
  NoAttempt = NoAttempt
  MaxAttempts = 2
  Lease = 1
  MaxTime = 4
  MaxUpdates = 2
CHECK_DEADLOCK FALSE
INVARIANTS
  TypeOK
  JobsAreExclusive
  ReadsWithinSnapshot
PROPERTIES
  AuditIsFinal
  ImplementsJobOutcome
  AttemptsEnd
