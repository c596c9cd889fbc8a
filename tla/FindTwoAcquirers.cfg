CONSTANTS
  a1 = a1
  a2 = a2
  a3 = a3
  a4 = a4
  p1 = p1
  p2 = p2
  Free = Free
  Acquires = {a1, a2, a3, a4}
  Processes = {p1, p2}
  ProcessOf <- TwoProcesses
  Ttl = 4
  MaxErrors = 1
  MaxCrashes = 0

CHECK_DEADLOCK FALSE
SPECIFICATION LeaseSpec
INVARIANTS OneAcquirerRuns
