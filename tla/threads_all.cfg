SPECIFICATION Spec
CONSTANTS
  Threads = {t1, t2, t3}
  Mutexes = {m1}
  Blockers = {b1}
  Prios = {1, 2}
  NULL = NULL
  Timeslices = {0, 2}
  MaxDepth = 2
  Opcodes <- AllKinds
  KillStates <- Runnable
SYMMETRY Symmetry
PROPERTIES
  OnlyOwnerReleases
  CritNotPreempted
  ReadyPriority
  UnlockInterrupts
  ImplementsQueues
INVARIANTS
  ListsAgree
  CountAgrees
  NoLostWakeup
  JoinMutexHeld
