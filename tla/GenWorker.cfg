CONSTANTS
  ImagePicks = 2
  VideoPicks = 1
  Substages = 1
  Missing <- SomeGone
  OperatorDriven = FALSE
  Submissions = {1, 2}
  Runs = {1, 2}
  MaxToolCalls = 0
  MaxFaults = 2
  ad1 = ad1
  ad2 = ad2
  v1 = v1
  v2 = v2
  feed = feed
  story = story
  q1 = q1
  q2 = q2
  i1 = i1
  Creatives = {ad1, ad2}
  Variants = {v1, v2}
  CreativeOf <- OneEach
  Placements = {feed, story}
  MinCopy = 1
  Items = {i1}
  Reports = {q1, q2}
  MaxText <- Texts
  MaxDecisions = 1
CHECK_DEADLOCK FALSE
SPECIFICATION MCSpec
INVARIANTS
  ClearedFitsCopy SpecPassIsWhole LaunchWasCleared
PROPERTIES FailureSparesPeers
