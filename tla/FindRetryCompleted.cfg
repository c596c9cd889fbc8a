CONSTANTS
  dispatch = dispatch
  stage = stage
  outbox = outbox
  p1 = p1
  daemon1 = daemon1
  daemon2 = daemon2
  drain = drain
  outboxer = outboxer
  w1 = w1
  w2 = w2
  Ids = {1, 2}
  Roots = {dispatch}
  KindOf <- KindOfRoots
  Pipelines = {p1}
  PipelineOf <- PipelineOfRoots
  Consumers = {daemon1}
  Drains <- DrainsOf
  Watchdogs = {w1}
  Redispatchable = {}
  MaxAttempts = 3
  MaxPerPass = 1
  MaxFaults = 1
  WatchdogMayFail = FALSE
CHECK_DEADLOCK FALSE
SPECIFICATION Spec
INVARIANTS NoRetryOfCompletedWork
