SPECIFICATION Spec
CONSTANTS
  Ips = {a}
  Conn = {c1, c2}
  None = none
  MaxPerIp = 2
  MaxActive = 2
  Unit = 1
  Rate = 1
  Burst = 2
  ExitOnComplete = FALSE
  MaxTime = 2
INVARIANTS ExitOnlyIfAsked
