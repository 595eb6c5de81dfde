CONSTANTS
  k1 = k1
  k2 = k2
  Output = Output
  Drop = Drop
  Cxns = {c1}
  MAX_BLOCKED_CXNS = 1
  NumThreads = 1
  Ports = {1}
  Keys = {k1}
  InPort <- OnePort
  Actions <- MCActions
  Programs <- ActionPrograms
  MAX_KFLOWS_PER_PORT = 1
  UINT_MOD = 4
  UNSPECIFIED = UNSPECIFIED
  PipelineError = PipelineError
  NoFlow = NoFlow
  NULL = NULL
  Zombie = Zombie
SPECIFICATION Spec
INVARIANTS
  NumKflowsExact
