CONSTANTS
  ImagePicks = 1
  VideoPicks = 1
  Substages = 2
  Missing <- AllThere
  OperatorDriven = TRUE
  Submissions = {1}
  Runs = {1}
  MaxToolCalls = 1
  MaxFaults = 1
  Rows = {1, 2}
  PageSize = 1
  MaxUpsets = 1
CHECK_DEADLOCK FALSE
SPECIFICATION MCSpec
INVARIANTS
  CancelBoundsSpend AdvanceNeedsARender
PROPERTIES EveryFinalAttempted BatchCloses
  StreamsSettle HeardIsShown RefreshedRowStays
