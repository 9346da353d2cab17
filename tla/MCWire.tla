--------------------------------- MODULE MCWire ---------------------------------
(* Instance of Wire for TLC: one message or more of every type, with fields at *)
(* the bounds of a byte, of a length and of a frame.                           *)
EXTENDS Wire

Text(n) == [i \in 1..n |-> i % W]

MCMessage ==
  { [type |-> 1, fields |-> <<Text(2), Text(0)>>],
    [type |-> 2, fields |-> <<FALSE, Text(1)>>],
    [type |-> 3, fields |-> <<3, Text(6), Text(2), Text(1)>>],   \* MaxPayloadSize
    [type |-> 3, fields |-> <<1, Text(7), Text(2), Text(1)>>],   \* one more
    [type |-> 4, fields |-> <<TRUE, Text(13)>>],                 \* two-digit length
    [type |-> 6, fields |-> <<W^2 + 1>>],
    [type |-> 9, fields |-> <<W + 2, Text(1)>>],
    [type |-> 10, fields |-> <<1, TRUE, Text(0)>>],
    [type |-> 11, fields |-> <<1, Text(12)>>],                   \* MaxDatagramPayload
    [type |-> 11, fields |-> <<1, Text(13)>>],                   \* one more
    [type |-> 12, fields |-> <<W^3>>] }
=============================================================================
