SPECIFICATION Spec
CONSTANTS
  Objects = {o1, o2, o3}
  Threads = {t1, t2}
  Main = t1
  None = None
  StackSize <- Stacks
  LocalSize <- OneOfMain
  Registers <- NoneOf
  CallDepth <- OneOfMain
  MemSize = 1
  Cells = 1
  VirtualClosures = TRUE
INVARIANT CountsAgree
SYMMETRY Symmetric
CONSTRAINT Sparse
