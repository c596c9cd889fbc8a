CONSTANTS
  dispatch = dispatch
  stage = stage
  outbox = outbox
  p1 = p1
  daemon1 = daemon1
  daemon2 = daemon2
  drain = drain
  outboxer = outboxer
  w1 = w1
  w2 = w2
  Ids = {1, 2, 3}
  Roots = {dispatch}
  KindOf <- KindOfRoots
  Pipelines = {p1}
  PipelineOf <- PipelineOfRoots
  Consumers = {daemon1, daemon2}
  Drains <- DrainsOf
  Watchdogs = {w1, w2}
  Redispatchable = {}
  MaxAttempts = 3
  MaxPerPass = 2
  MaxFaults = 2
  WatchdogMayFail = FALSE
  TracksChosen <- FormatOf
  Nothing = Nothing
  MaxEdits = 0
  MaxSaves = 0
  MaxSaveFaults = 0
  image = image
  video = video
  k1 = k1
  k2 = k2
  k3 = k3
  Tracks = {image, video}
  Concepts = {k1, k2, k3}
  TrackOf <- ConceptTrack
  MaxClicks = 0
  MaxRequests = 0
  MaxPickFaults = 0
  Foci = {"queue"}
CHECK_DEADLOCK FALSE
SPECIFICATION QueueFairSpec
INVARIANTS SingleWriter OneOpenRowPerRoot
PROPERTIES ImplementsLedger EveryRowCloses TimedOutIsRequeued
