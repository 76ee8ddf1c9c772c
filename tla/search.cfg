SPECIFICATION FairSpec
CONSTANTS
  Searchers = {s1, s2}
  Addresses = {4, 8, 12, 16, 20}
  Lists <- MCLists
  Ranges <- MCRanges
  PerPage = 2
  BINARY_THRESHOLD = 2
INVARIANTS
  NothingMissed
  OnlyFound
  InMapping
PROPERTIES
  SearchEnds
