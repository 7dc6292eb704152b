SPECIFICATION FairSpec
CONSTANTS
  Threads = {t1, t2, t3}
  Mutexes = {m1}
  Blockers = {}
  Prios = {1}
  NULL = NULL
  Timeslices = {2}
  MaxDepth = 1
  Opcodes <- LiveOpcodes
  KillStates <- Runnable
PROPERTIES
  ReadyRuns
  JoinCompletes
