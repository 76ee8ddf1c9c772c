SPECIFICATION Spec
CONSTANTS
  t1 = t1
  t2 = t2
  t3 = t3
  Threads = {t1, t2, t3}
  Main = t1
  Ptrs = {1}
  NoThread = NoThread
  NULL = NULL
  Cap = 2
  BufMax = 8
  LocalThreads = {t1}
  PassArgs = FALSE
  MaxAllocs = 2
  MaxBlocks = 2
  MaxStamp = 4
SYMMETRY Created
INVARIANTS
  NoUseAfterFree
  NoFunkyReads
