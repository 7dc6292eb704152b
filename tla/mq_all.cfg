SPECIFICATION QueueSpec
CONSTANTS
  Threads = {t1, t2, t3}
  Readers = {r1, r2, r3}
  NULL = NULL
  FIFO_SZ = 4
  MaxSent = 9
  StrangersRead = FALSE
SYMMETRY Symmetry
CHECK_DEADLOCK FALSE
INVARIANTS
  NoSleepingReader
  RetriesTheRead
PROPERTY
  ImplementsLog
