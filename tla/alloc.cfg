SPECIFICATION FairSpec
CONSTANTS
  Threads = {t1, t2}
  NULL = NULL
  NPages = 4
  Sizes = {1, 2}
  PoolNodes = 2
INVARIANTS
  RingSorted
  MappedIsTracked
  NodesInOnePlace
PROPERTY
  LockIsReleased
