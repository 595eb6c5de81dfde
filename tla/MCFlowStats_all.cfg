SPECIFICATION Spec
CONSTANTS
  Keys = {"k"}
  Entries = {1, 2}
  Matches <- MCMatches
  Priority <- MCPriority
  MAX_STATS = 2
  WORD = 4
  NONE = NONE
  MAX_PACKETS = 1
INVARIANTS
  SlotsOwnedOnce
  
PROPERTY IdleFlowsExpire
