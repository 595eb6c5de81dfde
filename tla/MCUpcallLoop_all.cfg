CONSTANTS
  Flows = {"f1", "f2", "f3", "f4"}
  PortOf <- MCPortOf
  Hash <- MCHash
  Failing = {"f2"}
  Dropped = {"f3"}
  NUM_UPCALL_BUFFERS = 1
  UPCALLS = 2
  BLOOM_CAPACITY = 2
  SOCKET = 1
  KFLOW_QUEUE = 1
  MAX_RESPAWNS = 1
  MAX_EXPIRED = 1
SPECIFICATION Spec
INVARIANT FilterWithinCapacity
PROPERTY PortsServed
 
