CONSTANTS
  OVSP_LOCAL = 0
  g1 = g1
  g2 = g2
  OK = OK
  BAD = BAD
SPECIFICATION TtlSpec
INVARIANT MaskContract
