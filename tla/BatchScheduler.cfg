SPECIFICATION BatchSpec
CONSTANTS
  NetCounts <- MCNetCounts
  Boxes <- MCBoxes
  ThreadCounts <- MCThreadCounts
  INT_MAX = 2147483647
INVARIANTS
  ConflictFree
  OrderEq
  AllScheduled
PROPERTY
  Terminates
