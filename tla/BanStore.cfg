CONSTANTS
  IP = {a, b}
  Reason = {"acl", "token"}
  Limit = 3
  TTL = 2
  MaxClock = 4
SPECIFICATION SpecPerRun
SYMMETRY Symmetry
INVARIANTS TypeOK RecordsSound PardonFinal BansDurable 
PROPERTIES PermanentStays ImplementsBanList
