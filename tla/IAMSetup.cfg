\* Four confirmations on a pool of three connections; two process starts.
SPECIFICATION FairSpec
CONSTANTS
  s1 = s1  s2 = s2  r1 = r1  r2 = r2  r3 = r3  r4 = r4  t1 = t1  t2 = t2
  Setups = {s1, s2}
  Confirms = {r1, r2, r3, r4}
  Tokens = {t1, t2}
  NoSetup = NoSetup
  NoOne = NoOne
  TokenOf <- MCTokenOf
  SetupOf <- MCSetupOf
  PoolSize = 3
  MaxStarts = 2
INVARIANTS TypeOK OneOwner TokenSpent AnswersTrue StuckOnlyOnPool
PROPERTIES ImplementsOwnerSpec BeginAnswered ConfirmAnswered
CHECK_DEADLOCK FALSE
