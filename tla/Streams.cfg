CONSTANTS
  Splice = {p}
  Http1 = {w}
  Stream = {s1, s2}
  Sessions = 2
  MaxSessions = 1
SPECIFICATION FairSpec
INVARIANTS TypeOK Accounting RelayPaired
PROPERTIES OrphanEnds HandlerFreed
