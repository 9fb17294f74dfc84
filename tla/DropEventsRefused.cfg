\* The stream as the service is built: no writer that reaches it can flush.
SPECIFICATION FairSpec
CONSTANTS
  p1 = p1  upload = upload  edit = edit  elsewhere = elsewhere  expiry = expiry
  Pages = {p1}
  Changes = {upload, edit, elsewhere, expiry}
  KindOf <- MCKindOf
  MadeBy <- MCMadeBy
  Elsewhere = Elsewhere
  Loads = {1, 2}
  MaxChanges = 1
  Flushes = {FALSE}
PROPERTY Refreshed
CHECK_DEADLOCK FALSE
