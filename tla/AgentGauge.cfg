CONSTANTS
  Conn = {c1, c2}
  Agent = {a}
  MaxDrops = 1
SPECIFICATION Spec
INVARIANT GaugeRight
CHECK_DEADLOCK FALSE
