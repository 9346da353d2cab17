CONSTANTS
  Client = {k1, k2}
  MaxID = 2
  MaxAssoc = 2
  MaxFlight = 1
SPECIFICATION Spec
SYMMETRY Symmetry
INVARIANTS TypeOK AddrEntryUsable NoCrossDelivery ReadyNotStranded GaugeNotLow
CHECK_DEADLOCK FALSE
