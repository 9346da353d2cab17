CONSTANTS
  W = 13
  MaxPayloadSize = 16
  Message <- MCMessage
  MaxSent = 2
SPECIFICATION FairSpec
INVARIANTS TypeOK InStep NoFalseProbe
 
CHECK_DEADLOCK FALSE
