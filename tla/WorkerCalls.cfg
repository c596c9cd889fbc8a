CONSTANTS
  dispatch = dispatch
  stage = stage
  outbox = outbox
  p1 = p1
  daemon1 = daemon1
  daemon2 = daemon2
  drain = drain
  outboxer = outboxer
  w1 = w1
  w2 = w2
  Ids = {1, 2, 3}
  Roots = {stage, outbox}
  KindOf <- KindOfRoots
  Pipelines = {p1}
  PipelineOf <- PipelineOfRoots
  Consumers = {drain, outboxer}
  Drains <- DrainsOf
  Watchdogs = {w1}
  Redispatchable = {}
  MaxAttempts = 1
  MaxPerPass = 1
  MaxFaults = 2
  WatchdogMayFail = TRUE
  a1 = a1
  a2 = a2
  a3 = a3
  left = left
  Free = Free
  Acquires = {a1, a2, a3}
  Processes = {left}
  ProcessOf <- OneProcess
  Ttl = 4
  MaxErrors = 3
  MaxCrashes = 1
  still = still
  clip = clip
  h1 = h1
  h2 = h2
  other = other
  Images = {still}
  Videos = {clip}
  Order <- StillFirst
  Runs = {h1, h2, other}
  CallerOf <- CallerOfEach
  MaxRenders = 1
  MaxDeaths = 1
  t1 = t1
  t2 = t2
  t3 = t3
  b1 = b1
  s1 = s1
  s2 = s2
  Nobody = Nobody
  Chats = {t1, t2, t3}
  Stops = {b1}
  SessionOf <- Session
CHECK_DEADLOCK FALSE
SPECIFICATION MCSpec
INVARIANTS
  LeaseExclusive FallbackExclusive
  OpenGateIsJudged LatestAttemptDrives
PROPERTIES EveryRowCloses EveryCallServed EverySeededJudged
