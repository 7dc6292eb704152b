SPECIFICATION Containers
CONSTANTS
  ta = ta
  tb = tb
  tc = tc
  Tokens = {ta, tb}
  Zero = Zero
  Junk = Junk
  TokenSize = 2
  PushStep = 2
  GrowStep = 3
  MaxTokens = 6
  Granule = 2
  NULL = NULL
  Rows = {0, 1}
  Hash <- RowOf
  Texts = {ta, tb, tc}
  EmptyText = none
  Values = {ta, tb}
  Wild = Wild
  MapStep = 8
  Reclones = FALSE
  Dates <- DatesDef
  D = 4
  YearHash = 3
  BucketMax = 1
  MinWidth = 0
  MaxMsgs = 5
  Scars = FALSE
  Collisions = FALSE
INVARIANTS StackInBounds ImagesKeepNames TreesAgree IteratesInOrder
PROPERTIES ImplementsStack ImplementsNames ImplementsPriorityQueue
CHECK_DEADLOCK FALSE
