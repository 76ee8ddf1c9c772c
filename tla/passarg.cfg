SPECIFICATION Spec
CONSTANTS
  t1 = t1
  t2 = t2
  t3 = t3
  Threads = {t1, t2}
  Main = t1
  Ptrs = {1, 2}
  NoThread = NoThread
  NULL = NULL
  Cap = 2
  BufMax = 8
  LocalThreads = {}
  PassArgs = TRUE
  MaxAllocs = 2
  MaxBlocks = 0
  MaxStamp = 4
INVARIANT NoUseAfterFree
