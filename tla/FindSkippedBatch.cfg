CONSTANTS
  ImagePicks = 1
  VideoPicks = 0
  Substages = 1
  Missing <- AllThere
  OperatorDriven = FALSE
  Submissions = {1}
  Runs = {1}
  MaxToolCalls = 0
  MaxFaults = 0
CHECK_DEADLOCK FALSE
SPECIFICATION Spec
INVARIANTS CompletedMeansRendered
