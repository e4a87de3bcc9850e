SPECIFICATION FairSpec
CONSTANTS
  HeartbeatSecs = 2
  Proves = {1, 3}
  ShardDeadline = 3
  Lag = 1
  Parts = 1
  EvCap = 1
  MaxAssign = 2
INVARIANTS HealthyKept InStepUntilDropped
PROPERTY ReplicaSettled
