SPECIFICATION Spec
CONSTANTS
  w1 = w1
  w2 = w2
  w3 = w3
  v1 = v1
  v2 = v2
  Workers = {w1, w2, w3}
  Faulty = {w3}
  Witnesses = {v1, v2}
  M = 2
  MaxShards = 2
  MaxJobs = 2
INVARIANT MajorityVerifies
