SPECIFICATION MCSpec
CONSTANTS
  p1 = p1
  p2 = p2
  r1 = r1
  r2 = r2
  None = None
  Process = {p1, p2}
  Registration = {r1, r2}
  ProcessOf <- SameProcess
  LeaseTicks = 2
  MaxTerms = 2
INVARIANTS ListenerIsTracked WorkerIsExclusive
PROPERTIES MCStaleListenerCloses MCJobKeepsRunning
CHECK_DEADLOCK FALSE
