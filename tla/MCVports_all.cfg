CONSTANTS
  Names = {"u1", "u2"}
  Uplinks = {"u1", "u2"}
  MAX_PORTS = 3
  QUEUE = 2
  MAX_CHANGES = 5
  SOCKET_FAILURES = TRUE
SPECIFICATION Spec
INVARIANT UplinkIsGood
INVARIANT ControllerKnows
INVARIANT PortRecordsTrue
INVARIANT PortsMatchKernel
PROPERTY UplinkSticky
PROPERTY UplinksAttached
CHECK_DEADLOCK FALSE
