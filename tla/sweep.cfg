SPECIFICATION ListSpec
CONSTANTS
  Addresses = {4, 8, 12, 16, 20}
  BufMax = 6
  SORT_THRESHOLD = 1
  MaxRounds = 3
INVARIANTS
  SortSorts
  SweepAsModelled
  StoredIsReadBack
