\* Files under faults and crashes, and progress: two requests, two files.
SPECIFICATION FairSpec
CONSTANTS
  i1 = i1
  i2 = i2
  i3 = i3
  k1 = k1
  b1 = b1
  b2 = b2
  Items = {i1, i2}
  Keys = {k1}
  NoKey = NoKey
  NoItem = NoItem
  KeyOf <- OneKey
  Size <- MCSize
  MaxSize = 2
  Quota = 2
  TTLs = {1}
  MaxTTL = 1
  Blobs = {b1, b2}
  Attach <- TwoFiles
  Deleters = {d1}
  Cleaner = cleaner
  Updaters = {u1}
  CleanupLimit = 1
  MaxClock = 2
  MaxFaults = 2
INVARIANTS AttachmentsOpen NoLitter QueueMoves
PROPERTIES RequestsAnswered ExpiredLeave
CHECK_DEADLOCK FALSE
