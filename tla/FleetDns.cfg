SPECIFICATION FairSpec
CONSTANTS
  Peer = {1, 2}
  Executor = {e1, e2}
  CountMax = 2
  HealthConfig <- Thresholds
  TargetMaps <- Maps
  FirstTargets <- Both
  SwitchCooldown = 1
  PlanLease = 2
  StartMargin = 2
  MaxFaults = 2
PROPERTIES SwitchesAreSound DnsConverges
