SPECIFICATION Spec
CONSTANTS
  Dates <- DatesDef
  D = 4
  YearHash = 3
  BucketMax = 1
  MinWidth = 0
  MaxMsgs = 3
  Scars = TRUE
  Collisions = FALSE
INVARIANT NothingLost
CHECK_DEADLOCK FALSE
