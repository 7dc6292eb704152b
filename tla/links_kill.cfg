SPECIFICATION Spec
CONSTANTS
  Threads = {t1, t2, t3}
  Mutexes = {m1}
  Blockers = {}
  Prios = {1}
  NULL = NULL
  MaxDepth = 1
  KillStates <- Anybody
PROPERTY
  DeadStayDead
