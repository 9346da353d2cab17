CONSTANTS
  W = 13
  MaxPayloadSize = 16
  Message <- MCMessage
  MaxSent = 2
SPECIFICATION Spec
INVARIANT SentOnly
CHECK_DEADLOCK FALSE
