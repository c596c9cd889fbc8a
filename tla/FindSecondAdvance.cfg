SPECIFICATION Spec
CONSTANTS
  Requests = {r1, r2}
  MaxBriefs = 2
  MaxMishaps = 0
  Lookahead = 0
  MaxLag = 0
PROPERTY
  StageMovesForward
CHECK_DEADLOCK FALSE
