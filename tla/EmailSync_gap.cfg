SPECIFICATION FairSpec
CONSTANTS
  w1 = w1
  w2 = w2
  Workers = {w1}
  Provider = "gmail"
  NoEvent = NoEvent
  NoConnection = NoConnection
  MaxArrivals = 1
  MaxFailures = 0
  MaxWatchFailures = 0
  MaxConnects = 1
  MaxRefusals = 0
  BackfillLimit = 1
CHECK_DEADLOCK FALSE
PROPERTIES
  VendorMailRecorded
