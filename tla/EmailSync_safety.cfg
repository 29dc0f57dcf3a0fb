SPECIFICATION Spec
CONSTANTS
  w1 = w1
  w2 = w2
  Workers = {w1, w2}
  Provider = "gmail"
  NoEvent = NoEvent
  NoConnection = NoConnection
  MaxArrivals = 2
  MaxFailures = 0
  MaxWatchFailures = 1
  MaxConnects = 1
  MaxRefusals = 0
  BackfillLimit = 1
CHECK_DEADLOCK FALSE
SYMMETRY Symmetry
INVARIANTS
  TypeOK
  MailIsNotLost
