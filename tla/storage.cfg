SPECIFICATION Spec
CONSTANTS
  Reclaimers = {r1, r2, r3}
  Blocks = {b1, b2, b3, b4}
  Addrs = {p1, p2, p3, p4, p5}
  BufMax = 4
  NULL = NULL
SYMMETRY Alike
INVARIANTS
  BlocksInOnePlace
  FatalOnlyWhenFull
PROPERTY
  IsAddrSet
