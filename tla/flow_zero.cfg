SPECIFICATION Spec
CONSTANTS
  Segments = {s1, s2}
  Length = 4
  Targets <- AllTargets
  Closures = {c1, c2}
  NULL = NULL
  MaxDepth = 4
  Disciplined = TRUE
SYMMETRY Symmetry
CHECK_DEADLOCK FALSE
INVARIANT
  JumpTaken
