SPECIFICATION Spec
CONSTANTS
  Sources <- MCSources
  Libs = {"math"}
  Images = {"old", "new"}
  Prebuilt <- MCPrebuilt
  Named = {"main", "defs"}
  Preamble = "shell"
  Exports <- MCExports
  Core <- MCCore
  Discards = TRUE
  MaxPrograms = 4
  MaxParts = 2
  MaxDepth = 3
  MaxSessions = 2
  MaxSteps = 60
PROPERTY EmptyWhenDiscarded
CHECK_DEADLOCK FALSE
