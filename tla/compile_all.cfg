SPECIFICATION Spec
CONSTANTS
  Sources <- MCSources
  Libs = {"math"}
  Images = {"old", "new"}
  Prebuilt <- MCPrebuilt
  Named = {"main", "defs"}
  Preamble = "shell"
  Exports <- MCExports
  Core <- MCCore
  Discards = FALSE
  MaxPrograms = 4
  MaxParts = 3
  MaxDepth = 3
  MaxSessions = 2
  MaxSteps = 60
INVARIANTS CodeMeansSource ImagesKeepMeaning RunOnce
CHECK_DEADLOCK FALSE
