SPECIFICATION Spec
CONSTANTS
  Threads = {t1, t2, t3}
  Mutexes = {m1}
  Blockers = {b1}
  Prios = {1, 2}
  NULL = NULL
  MaxDepth = 2
  KillStates <- Runnable
SYMMETRY Symmetry
INVARIANT
  WellLinked
PROPERTY
  ImplementsQueues
