SPECIFICATION Spec
CONSTANTS
  Nodes = {n1, n2, n3}
  Faulty = {n1}
  K = 3
  WaitWorkers = 3
  Records = 2
  Claims = {canon, alt}
  Canon = canon
  BadSig = badsig
  BadRoot = badroot
  None = none
  MaxId = 3
  MaxFaults = 0
SYMMETRY HonestSymmetry
INVARIANTS ResultBacked AcceptedIsCanonical BlacklistRetired
PROPERTY ImplementsVotedJob
