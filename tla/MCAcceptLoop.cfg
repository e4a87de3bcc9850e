SPECIFICATION Spec
CONSTANTS
  Ips = {a, b}
  Conn = {c1, c2, c3, c4}
  None = none
  MaxPerIp = 2
  MaxActive = 3
  Unit = 2
  Rate = 1
  Burst = 4
  ExitOnComplete = TRUE
  MaxTime = 4
SYMMETRY ConnSymmetry
INVARIANTS CountsExact CapsHold RateBound
