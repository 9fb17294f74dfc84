\* Six updates in batches of at most four, two failed calls or crashes.
SPECIFICATION FairSpec
CONSTANTS
  Last = 6
  KindOf <- MCKindOf
  Acked = {1, 3}
  BatchLimit = 4
  MaxFaults = 2
INVARIANTS TypeOK NothingLost OnePerMessage InOrder
PROPERTY Drained
CHECK_DEADLOCK FALSE
