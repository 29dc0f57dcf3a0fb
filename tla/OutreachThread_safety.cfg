SPECIFICATION Spec
CONSTANTS
  r1 = r1
  r2 = r2
  r3 = r3
  s1 = s1
  s2 = s2
  v1 = v1
  t1 = t1
  t2 = t2
  Requests = {r1, r2, r3}
  Deliveries = {s1, s2}
  Replies = {v1}
  Threads = {t1, t2}
  MaxCalls = 3
  Alike <- LikeTexts
  NoOne = NoOne
CHECK_DEADLOCK FALSE
SYMMETRY Symmetry
INVARIANTS
  TypeOK
  MessagesAreTrue
PROPERTIES
  OnlyStaleSavesDamage
  OnlyStaleCancelHides
