\* Quota, keys, the sweep and the refinement of DropSpec: three requests.
SPECIFICATION Spec
CONSTANTS
  i1 = i1
  i2 = i2
  i3 = i3
  k1 = k1
  b1 = b1
  b2 = b2
  Items = {i1, i2, i3}
  Keys = {k1}
  NoKey = NoKey
  NoItem = NoItem
  KeyOf <- MCKeyOf
  Size <- MCSize
  MaxSize = 2
  Quota = 2
  TTLs = {1, 2}
  MaxTTL = 2
  Blobs = {}
  Attach <- NoFiles
  Deleters = {d1}
  Cleaner = cleaner
  Updaters = {u1}
  CleanupLimit = 1
  MaxClock = 2
  MaxFaults = 1
INVARIANTS TypeOK QuotaRespected OneItemPerKey
PROPERTY ImplementsDropSpec
SYMMETRY Symmetry
CHECK_DEADLOCK FALSE
