SPECIFICATION MCSpec
CONSTANTS
  p1 = p1
  p2 = p2
  i1 = i1
  i2 = i2
  NoProcess = NoProcess
  Process = {p1, p2}
  Instance = {i1, i2}
  InstanceOf <- TwoInstances
  Backend = "postgres"
  MemberLease = 1
  LeaderLease = 1
  MaxClock = 2
  ThServers = {"a", "b"}
  ThPool <- MCPool
  ThWall <- MCWall
  ThSuccess = 2
  ThFailure = 2
  ThPermits = 2
  ThMaxTerm = 2
  ThMaxProbes = 3
  ThMaxFaults = 1
INVARIANTS FencedTxIsNewestTerm MCRestartIsSafe MCHealthSound
PROPERTIES MCImplementsFencing MCFailover
CHECK_DEADLOCK FALSE
