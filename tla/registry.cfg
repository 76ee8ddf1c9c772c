SPECIFICATION Spec
CONSTANTS
  Threads = {m, a, b, c, d}
  Main = m
  Pages = {p, q, r, s}
  NULL = NULL
  MAX_THREAD_COUNT = 3
  CreateMayFail = TRUE
SYMMETRY Symmetry
INVARIANTS
  ListIsExact
  ListedAreMapped
  JoinFindsStaged
  StackOutlivesThread
  CountIsExact
