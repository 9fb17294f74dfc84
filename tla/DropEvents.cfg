\* One page, four changes, streams that break or are refused.
SPECIFICATION FairSpec
CONSTANTS
  p1 = p1  upload = upload  edit = edit  elsewhere = elsewhere  expiry = expiry
  Pages = {p1}
  Changes = {upload, edit, elsewhere, expiry}
  KindOf <- MCKindOf
  MadeBy <- MCMadeBy
  Elsewhere = Elsewhere
  Loads = {1, 2}
  MaxChanges = 2
  Flushes = {TRUE, FALSE}
INVARIANTS TypeOK CaughtUp
PROPERTY Heard
CHECK_DEADLOCK FALSE
