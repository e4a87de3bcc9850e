SPECIFICATION FairSpec
CONSTANTS
  Nodes = {n1, n2}
  Faulty = {}
  K = 1
  WaitWorkers = 2
  Records = 2
  Claims = {canon, alt}
  Canon = canon
  BadSig = badsig
  BadRoot = badroot
  None = none
  MaxId = 2
  MaxFaults = 1
INVARIANTS BusyExact IInv
PROPERTIES JobCompletes WorkerReleased
