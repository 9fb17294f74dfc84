\* Two messages in batches of two, three clock units, one fault, a quota of two items.
SPECIFICATION Spec
CONSTANTS
  m1a = m1a  m1b = m1b  m2a = m2a  other = other
  key1 = key1  key2 = key2
  Last = 2
  KindOf <- MCKindOf
  Acked = {1}
  BatchLimit = 2
  MaxFaults = 1
  Items = {m1a, m1b, m2a, other}
  Keys = {key1, key2}
  NoKey = NoKey
  NoItem = NoItem
  KeyOf <- MCKeyOf
  Size <- MCSize
  MaxSize = 1
  Quota = 2
  MaxTTL = 1
  MaxClock = 2
  KeyFor <- MCKeyFor
INVARIANT StoredOnce
PROPERTY ImplementsBridge
