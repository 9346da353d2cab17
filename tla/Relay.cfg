CONSTANTS
  Window = 1
  MaxBytes <- MCMaxBytes
SPECIFICATION FairSpec
INVARIANTS TypeOK CleanEndComplete
 
CHECK_DEADLOCK FALSE
