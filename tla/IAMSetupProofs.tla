--------------------------- MODULE IAMSetupProofs ---------------------------
(***************************************************************************)
(* Theorems about IAMSetup, for any setups, confirmations, tokens, pool    *)
(* size and number of process starts.                                      *)
(***************************************************************************)
EXTENDS IAMSetup, FiniteSetTheorems, TLAPS

USE SetupAssumption DEF InTx, BeginDone, ConfirmDone

LEMMA InitInv == Init => IInv
  BY DEF Init, IInv, TypeOK, LockInv, RowInv, SeenInv, OneOwner, TokenSpent, AnswersTrue

LEMMA ExpireTokenKeeps ==
  ASSUME IInv, NEW t \in Tokens, ExpireToken(t)
  PROVE  IInv'
  BY DEF ExpireToken, requestVars, IInv, TypeOK, LockInv, RowInv, SeenInv, OneOwner, TokenSpent,
         AnswersTrue

(* The steps of BeginSetup, and a pending row growing too old. *)
LEMMA BeginKeeps ==
  ASSUME IInv, NEW s \in Setups,
         \/ ExpireSetup(s) \/ AskBegin(s) \/ ValidateToken(s) \/ StorePending(s)
  PROVE  IInv'
<1>1. TypeOK /\ LockInv /\ RowInv /\ SeenInv /\ OneOwner /\ TokenSpent /\ AnswersTrue
  BY DEF IInv
<1>2. CASE ExpireSetup(s)
  BY <1>1, <1>2 DEF ExpireSetup, requestVars, IInv, TypeOK, LockInv, RowInv, SeenInv, OneOwner,
                    TokenSpent, AnswersTrue
<1>3. CASE AskBegin(s)
  BY <1>1, <1>3 DEF AskBegin, SetBegin, dbVars, IInv, TypeOK, LockInv, RowInv, SeenInv, OneOwner,
                    TokenSpent, AnswersTrue
<1>4. CASE ValidateToken(s)
  BY <1>1, <1>4 DEF ValidateToken, SetBegin, dbVars, IInv, TypeOK, LockInv, RowInv, SeenInv,
                    OneOwner, TokenSpent, AnswersTrue
<1>5. CASE StorePending(s)
  BY <1>1, <1>5 DEF StorePending, SetBegin, IInv, TypeOK, LockInv, RowInv, SeenInv, OneOwner,
                    TokenSpent, AnswersTrue
<1>6. QED
  BY <1>2, <1>3, <1>4, <1>5

(* A restart keeps the database; a token recorded before stays as it is. *)
LEMMA StartKeeps ==
  ASSUME IInv, NEW t \in Tokens, Start(t)
  PROVE  IInv'
<1>1. TypeOK /\ LockInv /\ RowInv /\ SeenInv /\ OneOwner /\ TokenSpent /\ AnswersTrue
  BY DEF IInv
<1>2. \A r \in Confirms : confirm'[r] \notin InTx \cup {"asked", "audit"}
  BY <1>1 DEF Start, TypeOK
<1>3. TypeOK'
  BY <1>1, <1>2 DEF Start, Record, TypeOK
<1>4. LockInv' /\ SeenInv'
  BY <1>1, <1>2 DEF Start, LockInv, SeenInv
<1>5. RowInv'
  BY <1>1, <1>2 DEF Start, RowInv, TypeOK
<1>6. \A k \in Tokens : tokens'[k] = "consumed" <=> tokens[k] = "consumed"
  BY <1>1 DEF Start, Record, TypeOK
<1>7. OneOwner' /\ TokenSpent'
  BY <1>1, <1>6 DEF Start, OneOwner, TokenSpent
<1>8. \A r \in Confirms : confirm'[r] \in {"confirmed", "unavailable"} => confirm[r] = confirm'[r]
  BY <1>1 DEF Start, TypeOK
<1>9. AnswersTrue'
  BY <1>1, <1>2, <1>8 DEF Start, AnswersTrue
<1>10. QED
  BY <1>3, <1>4, <1>5, <1>7, <1>9 DEF IInv

(* A confirmation ends without having changed the database. *)
LEMMA FinishKeeps ==
  ASSUME IInv, NEW r \in Confirms, NEW answer \in ConfirmDone, Finish(r, answer), UNCHANGED dbVars,
         answer = "confirmed" => SetupOf[r] \in owners,
         answer = "unavailable" => owners # {} \/ SetupOf[r] \in expired \cup {NoSetup}
  PROVE  IInv'
<1>1. TypeOK /\ LockInv /\ RowInv /\ SeenInv /\ OneOwner /\ TokenSpent /\ AnswersTrue
  BY DEF IInv
<1>2. /\ confirm'[r] = answer
      /\ \A q \in Confirms : q # r => confirm'[q] = confirm[q]
      /\ confirm' \in [Confirms -> {"idle", "asked", "audit"} \cup InTx \cup ConfirmDone]
  BY <1>1 DEF Finish, TypeOK
<1>3. TypeOK'
  BY <1>1, <1>2 DEF Finish, Release, dbVars, TypeOK
<1>4. LockInv'
  BY <1>1, <1>2 DEF Finish, Release, LockInv
<1>5. RowInv' /\ SeenInv'
  BY <1>1, <1>2 DEF Finish, dbVars, RowInv, SeenInv
<1>6. OneOwner' /\ TokenSpent' /\ AnswersTrue'
  BY <1>1, <1>2 DEF Finish, dbVars, OneOwner, TokenSpent, AnswersTrue
<1>7. QED
  BY <1>3, <1>4, <1>5, <1>6 DEF IInv

(* The owner is made: only the holder of the lock can be past CheckOwner,  *)
(* and while it is, no other confirmation has made an owner.               *)
LEMMA StoreOwnerKeeps ==
  ASSUME IInv, NEW r \in Confirms, confirm[r] = "clear", StoreOwner(SetupOf[r]),
         NEW answer \in {"audit", "failed"}, Finish(r, answer)
  PROVE  IInv'
<1>1. TypeOK /\ LockInv /\ RowInv /\ SeenInv /\ OneOwner /\ TokenSpent /\ AnswersTrue
  BY DEF IInv
<1>2. SetupOf[r] \in pending /\ SetupOf[r] \in Setups /\ owners = {} /\ lock = r
  BY <1>1 DEF RowInv, LockInv, TypeOK
<1>3. /\ owners' = {SetupOf[r]} /\ pending' = pending \ {SetupOf[r]} /\ expired' = expired
      /\ tokens' = [tokens EXCEPT ![TokenOf[SetupOf[r]]] = "consumed"]
  BY <1>2 DEF StoreOwner, Consume
<1>4. /\ confirm'[r] = answer
      /\ \A q \in Confirms : q # r => confirm'[q] = confirm[q]
      /\ confirm' \in [Confirms -> {"idle", "asked", "audit"} \cup InTx \cup ConfirmDone]
  BY <1>1 DEF Finish, TypeOK
<1>5. TokenOf[SetupOf[r]] \in Tokens /\ tokens \in [Tokens -> {"absent", "valid", "expired", "consumed"}]
  BY <1>1, <1>2 DEF TypeOK
<1>6. TypeOK'
  BY <1>1, <1>2, <1>3, <1>4, <1>5 DEF Finish, Release, TypeOK
<1>7. LockInv' /\ \A q \in Confirms : confirm'[q] \notin {"locked", "checked", "clear"}
  BY <1>1, <1>2, <1>4 DEF Finish, Release, LockInv
<1>8. RowInv'
  BY <1>1, <1>2, <1>3, <1>7 DEF Finish, RowInv
<1>9. SeenInv' /\ OneOwner'
  BY <1>3 DEF SeenInv, OneOwner
<1>10. \A k \in Tokens : tokens[k] # "consumed"
  BY <1>1, <1>2 DEF TokenSpent
<1>11. TokenSpent'
  BY <1>3, <1>5, <1>10 DEF TokenSpent
<1>12. AnswersTrue'
  BY <1>1, <1>2, <1>3, <1>4 DEF AnswersTrue
<1>13. QED
  BY <1>6, <1>7, <1>8, <1>9, <1>11, <1>12 DEF IInv

(* A confirmation goes one statement further. *)
LEMMA AdvanceKeeps ==
  ASSUME IInv, NEW r \in Confirms,
         \/ AskConfirm(r) \/ OpenTx(r) \/ TakeLock(r)
  PROVE  IInv'
<1>1. TypeOK /\ LockInv /\ RowInv /\ SeenInv /\ OneOwner /\ TokenSpent /\ AnswersTrue
  BY DEF IInv
<1>2. CASE AskConfirm(r)
  BY <1>1, <1>2 DEF AskConfirm, dbVars, IInv, TypeOK, LockInv, RowInv, SeenInv, OneOwner,
                    TokenSpent, AnswersTrue
<1>3. CASE OpenTx(r)
  <2>1. /\ confirm'[r] = "queued" /\ confirm[r] = "asked" /\ seen'[r] = (SetupOf[r] \in pending \ expired)
        /\ \A q \in Confirms : q # r => confirm'[q] = confirm[q] /\ seen'[q] = seen[q]
        /\ confirm' \in [Confirms -> {"idle", "asked", "audit"} \cup InTx \cup ConfirmDone]
        /\ seen' \in [Confirms -> BOOLEAN]
        /\ held' = held \cup {r} /\ UNCHANGED <<tokens, pending, expired, owners, begin, lock, starts>>
    BY <1>1, <1>3 DEF OpenTx, dbVars, TypeOK
  <2>2. TypeOK'
    BY <1>1, <2>1 DEF TypeOK
  <2>3. LockInv' /\ RowInv'
    BY <1>1, <2>1 DEF LockInv, RowInv
  <2>4. seen'[r] \/ owners # {} \/ SetupOf[r] \in expired \cup {NoSetup}
    BY <1>1, <2>1 DEF RowInv
  <2>5. SeenInv'
    BY <1>1, <2>1, <2>4 DEF SeenInv
  <2>6. OneOwner' /\ TokenSpent' /\ AnswersTrue'
    BY <1>1, <2>1 DEF OneOwner, TokenSpent, AnswersTrue
  <2>7. QED
    BY <2>2, <2>3, <2>5, <2>6 DEF IInv
<1>4. CASE TakeLock(r)
  BY <1>1, <1>4 DEF TakeLock, dbVars, IInv, TypeOK, LockInv, RowInv, SeenInv, OneOwner,
                    TokenSpent, AnswersTrue
<1>5. QED
  BY <1>2, <1>3, <1>4

LEMMA StepKeeps ==
  ASSUME IInv, NEW r \in Confirms,
         ConfirmStep(r) \/ CommitLost(r) \/ GiveUp(r)
  PROVE  IInv'
<1>1. TypeOK /\ LockInv /\ RowInv /\ SeenInv /\ OneOwner /\ TokenSpent /\ AnswersTrue
  BY DEF IInv
<1>2. CASE OpenTx(r) \/ TakeLock(r)
  BY <1>2, AdvanceKeeps
<1>3. CASE LookUp(r)
  <2>1. CASE Finish(r, "wrong_code")
    BY <1>3, <2>1, FinishKeeps DEF LookUp
  <2>2. CASE Finish(r, Missing(r))
    <3>1. Missing(r) \in {"failed", "unavailable"} /\ (Missing(r) = "unavailable" => ~seen[r])
      BY <1>1 DEF Missing, TypeOK
    <3>2. ~seen[r] => owners # {} \/ SetupOf[r] \in expired \cup {NoSetup}
      BY <1>1, <1>3 DEF LookUp, SeenInv
    <3>3. UNCHANGED dbVars
      BY <1>3 DEF LookUp
    <3>4. QED
      BY <2>2, <3>1, <3>2, <3>3, FinishKeeps
  <2>3. CASE /\ SetupOf[r] \in pending
             /\ confirm' = [confirm EXCEPT ![r] = "checked"]
             /\ UNCHANGED <<begin, seen, lock, held, starts>>
    BY <1>1, <1>3, <2>3 DEF LookUp, dbVars, IInv, TypeOK, LockInv, RowInv, SeenInv, OneOwner,
                            TokenSpent, AnswersTrue
  <2>4. QED
    BY <1>3, <2>1, <2>2, <2>3 DEF LookUp
<1>4. CASE CheckOwner(r)
  <2>1. CASE owners = {}
    BY <1>1, <1>4, <2>1 DEF CheckOwner, dbVars, IInv, TypeOK, LockInv, RowInv, SeenInv, OneOwner,
                            TokenSpent, AnswersTrue
  <2>2. CASE owners # {}
    BY <1>4, <2>2, FinishKeeps DEF CheckOwner
  <2>3. QED
    BY <2>1, <2>2
<1>5. CASE CommitConfirm(r)
  BY <1>5, StoreOwnerKeeps DEF CommitConfirm
<1>6. CASE Audit(r)
  <2>1. SetupOf[r] \in owners
    BY <1>1, <1>6 DEF Audit, AnswersTrue
  <2>2. QED
    BY <1>6, <2>1, FinishKeeps DEF Audit
<1>7. CASE CommitLost(r)
  BY <1>7, StoreOwnerKeeps DEF CommitLost
<1>8. CASE GiveUp(r)
  BY <1>8, FinishKeeps DEF GiveUp
<1>9. QED
  BY <1>2, <1>3, <1>4, <1>5, <1>6, <1>7, <1>8 DEF ConfirmStep

THEOREM Step == IInv /\ [Next]_vars => IInv'
<1> SUFFICES ASSUME IInv, [Next]_vars
             PROVE  IInv'
  OBVIOUS
<1>1. ASSUME NEW t \in Tokens, Start(t) \/ ExpireToken(t)
      PROVE  IInv'
  BY <1>1, StartKeeps, ExpireTokenKeeps
<1>2. ASSUME NEW s \in Setups, ExpireSetup(s) \/ AskBegin(s) \/ BeginStep(s)
      PROVE  IInv'
  BY <1>2, BeginKeeps DEF BeginStep
<1>3. ASSUME NEW r \in Confirms,
             AskConfirm(r) \/ ConfirmStep(r) \/ CommitLost(r) \/ GiveUp(r)
      PROVE  IInv'
  BY <1>3, AdvanceKeeps, StepKeeps
<1>4. CASE UNCHANGED vars
  BY <1>4 DEF vars, dbVars, requestVars, IInv, TypeOK, LockInv, RowInv, SeenInv, OneOwner,
              TokenSpent, AnswersTrue
<1>5. QED
  BY <1>1, <1>2, <1>3, <1>4 DEF Next

(* The inductive invariant holds of every reachable state. *)
THEOREM Invariance == Spec => []IInv
  BY InitInv, Step, PTL DEF Spec

(* Every variable stays in its type, and the connections held are those of *)
(* the transactions open.                                                  *)
THEOREM TypeCorrect == Spec => []TypeOK
<1>1. IInv => TypeOK
  BY DEF IInv
<1>2. QED
  BY <1>1, Invariance, PTL

(* ConfirmSetup never makes a second owner, whatever the number of setups, *)
(* tokens and confirmations: the fresh read under the lock decides.        *)
THEOREM OwnerUnique == Spec => []OneOwner
<1>1. IInv => OneOwner
  BY DEF IInv
<1>2. QED
  BY <1>1, Invariance, PTL

(* A bootstrap token is consumed exactly when an owner came of it, across  *)
(* restarts (ensureBootstrap) and lost commits.                            *)
THEOREM TokenSafe == Spec => []TokenSpent
<1>1. IInv => TokenSpent
  BY DEF IInv
<1>2. QED
  BY <1>1, Invariance, PTL

(* The answers of ConfirmSetup are true when they are given. *)
THEOREM AnswersSafe == Spec => []AnswersTrue
<1>1. IInv => AnswersTrue
  BY DEF IInv
<1>2. QED
  BY <1>1, Invariance, PTL

-----------------------------------------------------------------------------
(* The choice of the owner.                                                *)

(* A step that neither makes an owner nor consumes or revives a token. *)
LEMMA NoChoice ==
  ASSUME owners' = owners, \A t \in Tokens : tokens'[t] = "consumed" <=> tokens[t] = "consumed"
  PROVE  UNCHANGED <<owners, {t \in Tokens : tokens[t] = "consumed"}>>
  OBVIOUS

LEMMA CommitChooses ==
  ASSUME IInv, NEW r \in Confirms, confirm[r] = "clear", StoreOwner(SetupOf[r])
  PROVE  Owner!Next
<1>1. SetupOf[r] \in Setups /\ owners = {} /\ TokenOf[SetupOf[r]] \in Tokens
  BY DEF IInv, RowInv, TypeOK
<1>2. owners' = {SetupOf[r]} /\ tokens' = [tokens EXCEPT ![TokenOf[SetupOf[r]]] = "consumed"]
  BY <1>1 DEF StoreOwner, Consume
<1>3. {t \in Tokens : tokens'[t] = "consumed"} =
        {t \in Tokens : tokens[t] = "consumed"} \cup {TokenOf[SetupOf[r]]}
  BY <1>1, <1>2 DEF IInv, TypeOK
<1>4. Owner!Choose(SetupOf[r])
  BY <1>1, <1>2, <1>3 DEF Owner!Choose
<1>5. QED
  BY <1>1, <1>4 DEF Owner!Next

LEMMA ChoiceStep ==
  ASSUME IInv, [Next]_vars
  PROVE  [Owner!Next]_<<owners, {t \in Tokens : tokens[t] = "consumed"}>>
<1>1. tokens \in [Tokens -> {"absent", "valid", "expired", "consumed"}]
  BY DEF IInv, TypeOK
<1>2. ASSUME NEW t \in Tokens, Start(t) \/ ExpireToken(t)
      PROVE  owners' = owners /\ \A k \in Tokens : tokens'[k] = "consumed" <=> tokens[k] = "consumed"
  BY <1>1, <1>2 DEF Start, Record, ExpireToken
<1>3. ASSUME NEW s \in Setups, ExpireSetup(s) \/ AskBegin(s) \/ BeginStep(s)
      PROVE  UNCHANGED <<owners, tokens>>
  BY <1>3 DEF ExpireSetup, AskBegin, BeginStep, ValidateToken, StorePending, dbVars
<1>4. ASSUME NEW r \in Confirms, CommitConfirm(r) \/ CommitLost(r)
      PROVE  Owner!Next
  BY <1>4, CommitChooses DEF CommitConfirm, CommitLost
<1>5. ASSUME NEW r \in Confirms,
             \/ AskConfirm(r) \/ OpenTx(r) \/ TakeLock(r) \/ LookUp(r) \/ CheckOwner(r)
             \/ Audit(r) \/ GiveUp(r)
      PROVE  UNCHANGED <<owners, tokens>>
  BY <1>5 DEF AskConfirm, OpenTx, TakeLock, LookUp, CheckOwner, Audit, GiveUp, dbVars
<1>6. CASE UNCHANGED vars
  BY <1>6 DEF vars, dbVars
<1>7. QED
  BY <1>2, <1>3, <1>4, <1>5, <1>6, NoChoice DEF Next, ConfirmStep

(* ConfirmSetup, with all that surrounds it, is one irrevocable choice of  *)
(* an owner, and spends the token it was begun with at the same instant.   *)
THEOREM RefinesOwnerSpec == Spec => ImplementsOwnerSpec
<1>1. Init => Owner!Init
  BY DEF Init, Owner!Init
<1>2. IInv /\ [Next]_vars => [Owner!Next]_<<owners, {t \in Tokens : tokens[t] = "consumed"}>>
  BY ChoiceStep
<1>3. QED
  BY <1>1, <1>2, Invariance, PTL DEF Spec, ImplementsOwnerSpec, Owner!Spec

-----------------------------------------------------------------------------
(* What confirmations can wait for.                                        *)

(* CanGo asks for no more than the guards of ConfirmSetup's steps do. *)
LEMMA StepsCanGo ==
  ASSUME NEW r \in Confirms, ConfirmStep(r)
  PROVE  CanGo(r) /\ UnderWay(r)
  BY DEF ConfirmStep, OpenTx, TakeLock, LookUp, CheckOwner, CommitConfirm, Audit, CanGo, UnderWay

LEMMA NobodyHolds ==
  ASSUME held = {}
  PROVE  Free
  BY FS_EmptySet DEF Free

(* The lock alone never stops confirmations, whatever the pool's size: if  *)
(* all of them wait, they wait for OwnerExists' second connection, which   *)
(* the requests queued for the lock are holding.                           *)
THEOREM StuckOnlyThere == Spec => []StuckOnlyOnPool
<1>1. IInv => StuckOnlyOnPool
  <2> SUFFICES ASSUME IInv, NEW any \in Confirms, UnderWay(any),
                      \A r \in Confirms : UnderWay(r) => ~CanGo(r)
               PROVE  /\ ~Free
                      /\ \E r \in Confirms :
                           /\ lock = r /\ confirm[r] = "checked"
                           /\ \A q \in held \ {r} : confirm[q] = "queued"
    BY DEF StuckOnlyOnPool
  <2>1. /\ held = {r \in Confirms : confirm[r] \in InTx}
        /\ lock \in Confirms \cup {NoOne}
        /\ \A r \in Confirms : lock = r <=> confirm[r] \in {"locked", "checked", "clear"}
    BY DEF IInv, TypeOK, LockInv
  <2>2. ASSUME NEW h \in Confirms, lock = h
        PROVE  confirm[h] = "checked" /\ ~Free
    BY <2>1, <2>2 DEF UnderWay, CanGo
  <2>3. ~Free
    <3>1. CASE lock = NoOne
      BY <2>1, <3>1 DEF UnderWay, CanGo
    <3>2. CASE lock # NoOne
      BY <2>1, <2>2, <3>2
    <3>3. QED
      BY <3>1, <3>2
  <2>4. PICK q \in Confirms : confirm[q] \in InTx
    BY <2>1, <2>3, NobodyHolds
  <2>5. lock # NoOne
    BY <2>1, <2>4 DEF UnderWay, CanGo
  <2>6. lock \in Confirms /\ confirm[lock] = "checked"
    BY <2>1, <2>2, <2>5
  <2>7. \A p \in held \ {lock} : confirm[p] = "queued"
    BY <2>1
  <2>8. QED
    BY <2>3, <2>6, <2>7
<1>2. QED
  BY <1>1, Invariance, PTL
=============================================================================
