CONSTANTS
  k1 = k1
  k2 = k2
  Output = Output
  Drop = Drop
  Cxns = {c1, c2, c3}
  MAX_BLOCKED_CXNS = 2
  NumThreads = 1
  Ports = {1}
  Keys = {k1, k2}
  InPort <- OnePort
  Actions <- MCActions
  Programs <- MaskPrograms
  MAX_KFLOWS_PER_PORT = 2
  UINT_MOD = 3
  UNSPECIFIED = UNSPECIFIED
  PipelineError = PipelineError
  NoFlow = NoFlow
  NULL = NULL
  Zombie = Zombie
SPECIFICATION Spec
INVARIANTS
  BarrierGuarantee
  OneBlockerPerCxn
  UnscheduledMeansCurrent
  OrphansWereRefused
  SettledFlowsDisjoint
PROPERTIES
  PromiseKept
  HitlessLeavesKernelAlone
SYMMETRY CxnSymmetry
