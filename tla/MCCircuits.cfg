SPECIFICATION Spec
CHECK_DEADLOCK FALSE
CONSTANTS
  NATIVE = 1009
  LIMB_WIDTHS <- MCWidths
  ELEMENT_BITS = 6
  FOLD = 3
  P = 61
  MUL_CARRY_BITS = 6
  MUL_OFFSETS = 6
  FieldOperands <- MCFieldOperands
  MulOperands <- MCMulOperands
  D = 2
  L = 7
  BasepointBytes = 27
  SCALAR_BITS = 8
  SHIFTS = 5
  PointBytes <- MCPointBytes
  Scalars <- MCScalars
  Digests <- MCDigests
  LIMB_BITS = 2
  R_LIMBS = 2
  CARRY_BITS = 4
  PointCases <- MCPointCases
  SHA512_WIDTH = 40
  SHA512_ROWS_PER_BLOCK = 128
  MessageLengths <- MCMessageLengths
  LadderLengths <- MCLadderLengths
  Signatures <- MCSignatures
  Tampers = 2
  ShaVariants <- MCVariants
  ROWS_PER_BLOCK = 36
  HashMessages <- MCHashMessages
  WalkedMessages <- MCWalked
  StartWindows <- MCWindows
  OddWords <- MCOddWords
  LEAF_LEVEL_DS = 99
  COMPACT_SKIP = 2
  TreeSizes <- MCTreeSizes
  RequestedArities <- MCArities
  MixedArities <- MCMixed
  LeafValues <- MCLeafValues
  NONRESIDUE = 11
  ExtElements <- MCExtElements
  ROOT_OF_UNITY = 179
  ROOT_ORDER = 16
  FriCases <- MCFriCases
  FriPolys <- MCFriPolys
  OodPoints <- MCOodPoints
  FoldChallenges <- MCFolds
  QueryIndices <- MCQueries
  TraceShapes <- MCShapes
  Workloads <- MCWorkloads
  RollupLeaves <- MCRollup
  NsecChains <- MCChains
  RoundConstants <- MCConstants
  FirstCells <- MCCells
  BLOWUP = 32
  Zones <- MCZones
  RecordRows <- MCRecordRows
  DnskeyRows = 8
  MaxEpochs = 2
  ShardSizes <- MCShardSizes
  Dnskeys <- MCDnskeys
  ML_Q = 41
  ML_N = 4
  ML_K = 2
  ML_L = 2
  GAMMA2 = 4
  Z_BOUND = 7
  R1_RANGE_BITS = 3
  R0_ABS_RANGE_BITS = 3
  W1_BITS = 4
  NORM_RANGE_BITS = 3
  NUM_RANGE_BITS = 6
  ZETA = 27
  N_INV = 31
  NttInputs <- MCNttInputs
  W1_BITS_PER_COEF = 3
  SHAKE_RATE = 4
  ROUNDS = 3
  V2_BLOWUP = 4
  V2Inputs <- MCV2Inputs
  V2Signatures <- MCV2Signatures
  V2Deviations <- MCDeviations
  V2Changes <- MCChanges
  EquationCases <- MCEquations
INVARIANTS
  FieldSound
  FieldComplete
  NativeExact
  ReduceExact
  PointExact
  VerifyExact
  HashExact
  MerkleBinding
  ExtExact
  FriExact
  MergeExact
  ChainBinding
  ParametersAgree
  RowsExact
  TransformExact
  SignatureBinding
