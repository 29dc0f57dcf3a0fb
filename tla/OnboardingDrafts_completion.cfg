SPECIFICATION MCSpec
CONSTANTS
  d1 = d1
  d2 = d2
  u1 = u1
  u2 = u2
  s1 = s1
  s2 = s2
  r1 = r1
  r2 = r2
  r3 = r3
  Drafts = {d1, d2}
  Users = {u1}
  Sessions = {s1}
  Requests = {r1, r2, r3}
  NoOne = NoOne
CHECK_DEADLOCK FALSE
INVARIANTS
  TypeOK
  AnswersNameProjects
PROPERTIES
  SettledStays
  CompletionIsAnswered
  ImplementsDraftOutcome
