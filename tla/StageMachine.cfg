SPECIFICATION MCSpec
CONSTANTS
  Requests = {r1, r2}
  MaxBriefs = 2
  MaxMishaps = 1
  Lookahead = 1
  MaxLag = 5
SYMMETRY Symmetry
INVARIANTS
  StagesInOrder
  EntryHasExecutor
  
CHECK_DEADLOCK FALSE
