SPECIFICATION Spec
CONSTANTS
  Nodes = {n1, n2}
  Faulty = {n1}
  K = 2
  WaitWorkers = 2
  Records = 2
  Claims = {canon, alt}
  Canon = canon
  BadSig = badsig
  BadRoot = badroot
  None = none
  MaxId = 3
  MaxFaults = 1
INVARIANTS SlotBound NoLostShard InboxBound NeverStuck
PROPERTIES AssignOnce
