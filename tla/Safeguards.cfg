CONSTANTS
  c1 = c1
  c2 = c2
  k1 = k1
  Calls = {c1, c2}
  Keys = {k1}
  KeyOf <- OneKey
  MaxConcurrent = 1
  MaxTries <- OneRetry
  MaxFaults = 1
  MaxModeChanges = 1
  images = images
  finals = finals
  clips = clips
  speech = speech
  redo = redo
  Jobs = {images, finals, clips, speech, redo}
  KindOf <- Kinds
  BriefOf <- Briefs
  UnitsOf <- UnitCounts
  Cap = 2
  MaxRuns <- RunCounts
  MaxMishaps = 1
  Renders = {r1, r2}
  r1 = r1
  r2 = r2
  Armed = {r2}
  PerPass = 1
  MaxPosts = 1
  MaxKieFaults = 2
  x1 = x1
  x2 = x2
  d1 = d1
  d2 = d2
  Rules = {x1, x2}
  Confidences = {69, 70}
  Defects = {d1, d2}
  Scores = {40, 69, 7000}
  Sizes = {1023, 1024, 15728641}
  Lengths = {0, 2, 3, 60, 61}
  Spots = {"reels", "marketplace"}
  MaxFindings = 3
CHECK_DEADLOCK FALSE
SPECIFICATION MCSpec
INVARIANTS
  OverrunBounded PaidIsRecorded
  CompletedHasClip PassIsEarned
PROPERTIES
  ImplementsConsent AutoEndsWithWindow
  VerdictStands EveryRenderResolved
