SPECIFICATION Spec
CONSTANTS
  Threads = {t1, t2, t3}
  Mutexes = {m1}
  Blockers = {}
  Prios = {1}
  NULL = NULL
  Timeslices = {1}
  MaxDepth = 1
  Opcodes <- AllKinds
  KillStates <- Runnable
PROPERTY
  YieldResumesNext
