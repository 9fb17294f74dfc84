\* One link, redeemed once.
SPECIFICATION FairSpec
CONSTANTS
  a1 = a1  a2 = a2  a3 = a3  a4 = a4  a5 = a5  n1 = n1  n2 = n2  i1 = i1  i2 = i2
  out = out  one = one  others1 = others1  others2 = others2
  begin = begin  register = register  delete = delete  create = create  revoke = revoke
  f1 = f1  f2 = f2  f3 = f3  k1 = k1  k2 = k2  k3 = k3  p1 = p1  c1 = c1  c2 = c2  x1 = x1
  Sessions = {a1, a2, a3, a4, a5, f1, f2, f3, k1, k2, k3}
  Attempts = {a1, a2, a3, a4, a5}
  Names = {n1, n2}
  Addresses = {i1, i2}
  NameOf <- MCNameOf
  AddressOf <- MCAddressOf
  Limit = 2
  Serving = 2
  Requests = {out, one, others1, others2, begin, register, delete, create, revoke}
  OpOf <- MCOpOf
  SessionOf <- MCSessionOf
  TargetOf <- MCTargetOf
  Passkeys = {p1}
  Ceremonies = {c1, c2}
  LoginCeremonies = {c1}
  Finishes = {f1, f2, f3}
  CeremonyOf <- MCCeremonyOf
  PasskeyOf <- MCPasskeyOf
  Nobody = Nobody
  Shares = {x1}
  Redeems = {k1, k2, k3}
  ShareOf <- MCShareOf
  MaxUses <- MCMaxUses
  Casts <- MCShareCasts
PROPERTY LinkOpens
CHECK_DEADLOCK FALSE
