SPECIFICATION Spec
CONSTANTS
  a1 = a1
  a2 = a2
  o1 = o1
  Requests = {a1, a2, o1}
  Anonymous = {o1}
  Rules = 2
  Limit <- MCLimit
  Window <- MCWindow
  MaxTime = 1
  MaxElsewhere = 1
  Known <- MCKnown
  Plans <- MCPlans
  Results <- MCResults
  Keep = 2
  MaxCreated = 1
  MaxEdits = 1
  Other = Other
  None = None
CHECK_DEADLOCK FALSE
SYMMETRY Symmetry
INVARIANTS
  TypeOK
  PaidWithinLimits
  DuplicatesOverlap
  PlacesAreRepresented
