SPECIFICATION FairSpec
CONSTANTS
  w1 = w1
  w2 = w2
  Workers = {w1}
  Provider = "microsoft"
  NoEvent = NoEvent
  NoConnection = NoConnection
  MaxArrivals = 1
  MaxFailures = 1
  MaxWatchFailures = 1
  MaxConnects = 2
  MaxRefusals = 1
  BackfillLimit = 1
CHECK_DEADLOCK FALSE
PROPERTIES
  VendorMailRecorded
  OnlyStaleProcessesMisjudge
