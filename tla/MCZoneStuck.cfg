SPECIFICATION FairSpec
CONSTANTS
  Nodes = {n1}
  Faulty = {}
  K = 1
  WaitWorkers = 1
  Records = 2
  Claims = {canon, alt}
  Canon = canon
  BadSig = badsig
  BadRoot = badroot
  None = none
  MaxId = 1
  MaxFaults = 1
PROPERTIES StuckReported
