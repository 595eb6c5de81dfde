CONSTANTS
  OVSP_LOCAL = 0
  PacketOuts <- MCPacketOuts
  Ports = {0, 1, 2}
  NoFlood = {2}
  MAX_PORTS = 4
  FREELIST_SIZE = 3
  SEQUENCE = 2
  TABLE_REFUSALS = FALSE
  STATS_FAILURES = FALSE
SPECIFICATION Spec
 
 
 
INVARIANT OutputsAsAsked
