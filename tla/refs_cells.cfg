SPECIFICATION Spec
CONSTANTS
  Objects = {o1, o2}
  Threads = {t1}
  Main = t1
  None = None
  StackSize <- Stacks
  LocalSize <- NoneOf
  Registers <- NoneOf
  CallDepth <- OneOfMain
  MemSize = 0
  Cells = 2
  VirtualClosures = FALSE
INVARIANTS NoDangling ClosuresLive
PROPERTY Reclaimed
