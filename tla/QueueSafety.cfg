CONSTANTS
  dispatch = dispatch
  stage = stage
  outbox = outbox
  p1 = p1
  daemon1 = daemon1
  daemon2 = daemon2
  drain = drain
  outboxer = outboxer
  w1 = w1
  w2 = w2
  Ids = {1, 2, 3}
  Roots = {dispatch, stage}
  KindOf <- KindOfRoots
  Pipelines = {p1}
  PipelineOf <- PipelineOfRoots
  Consumers = {daemon1, drain}
  Drains <- DrainsOf
  Watchdogs = {w1}
  Redispatchable = {p1}
  MaxAttempts = 3
  MaxPerPass = 1
  MaxFaults = 2
  WatchdogMayFail = TRUE
  TracksChosen <- FormatOf
  Nothing = Nothing
  MaxEdits = 2
  MaxSaves = 2
  MaxSaveFaults = 1
  image = image
  video = video
  k1 = k1
  k2 = k2
  k3 = k3
  Tracks = {image, video}
  Concepts = {k1, k2, k3}
  TrackOf <- ConceptTrack
  MaxClicks = 3
  MaxRequests = 2
  MaxPickFaults = 1
  Foci = {"queue", "configuration", "ideation"}
CHECK_DEADLOCK FALSE
SPECIFICATION MCSpec
INVARIANTS
  DbChecksHold
  RestedIsStored BriefHasWhatRested
  QuietTrackIsStored ReviewHasPicks
