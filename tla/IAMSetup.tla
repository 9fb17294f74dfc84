------------------------------ MODULE IAMSetup ------------------------------
(***************************************************************************)
(* apps/iam: how the one owner comes into being.                           *)
(*                                                                         *)
(* At start-up IAM records the bootstrap token it is given.  POST          *)
(* /setup (BeginSetup) spends nothing: it leaves a pending row behind.     *)
(* POST /setup/confirm (ConfirmSetup) turns a pending row into the owner.  *)
(* It works in a SERIALIZABLE transaction under an advisory lock, but asks *)
(* whether an owner exists through the pool, on a SECOND connection, and   *)
(* the pool is small.                                                      *)
(*                                                                         *)
(* An element of Setups stands for one BeginSetup request and the row it   *)
(* leaves; an element of Confirms for one ConfirmSetup request.            *)
(***************************************************************************)
EXTENDS Naturals, FiniteSets

CONSTANTS
  Setups, Confirms,
  Tokens,      \* bootstrap tokens; a deployment may rotate them
  NoSetup,     \* the setup id of a request that names no row
  NoOne,
  TokenOf,     \* [Setups -> Tokens], the token a BeginSetup request carries
  SetupOf,     \* [Confirms -> Setups \cup {NoSetup}]
  PoolSize,    \* connections of the pool (config.MaxConns)
  MaxStarts    \* bound of the model: process starts

ASSUME SetupAssumption ==
  /\ TokenOf \in [Setups -> Tokens]
  /\ SetupOf \in [Confirms -> Setups \cup {NoSetup}] /\ NoSetup \notin Setups
  /\ NoOne \notin Confirms
  /\ PoolSize \in Nat \ {0} /\ MaxStarts \in Nat

VARIABLES
  tokens,     \* owner_bootstrap_tokens: absent, valid, expired, consumed
  pending,    \* pending_owner_setups
  expired,    \* pending rows past their 15 minutes
  owners,     \* active rows of owner, as the setups they were made from
  begin,      \* progress of each BeginSetup
  confirm,    \* progress of each ConfirmSetup
  seen,       \* does its snapshot hold its pending row, still unexpired?
  lock,       \* holder of pg_advisory_xact_lock(92110431)
  held,       \* confirmations whose transaction holds a connection
  starts

dbVars == <<tokens, pending, expired, owners>>
requestVars == <<begin, confirm, seen, lock, held>>
vars == <<dbVars, requestVars, starts>>

InTx == {"queued", "locked", "checked", "clear"}
BeginDone == {"stored", "refused", "dropped"}
ConfirmDone == {"confirmed", "unavailable", "wrong_code", "failed", "dropped"}

-----------------------------------------------------------------------------
(***************************************************************************)
(* Bugs this code could have; each stands for a definition further down.   *)
(***************************************************************************)

(* Record with ON CONFLICT DO UPDATE: a restart revives the token. *)
RecordAgain(t) == tokens' = [tokens EXCEPT ![t] = "valid"]

(* Release when the rollback on early returns is forgotten. *)
ReleaseOnCommit(r) ==
  IF confirm[r] = "clear" THEN lock' = NoOne /\ held' = held \ {r}
                          ELSE UNCHANGED <<lock, held>>

(* TakeLock without waiting. *)
TakeLockFreely(r) ==
  /\ confirm[r] = "queued"
  /\ lock' = r
  /\ confirm' = [confirm EXCEPT ![r] = "locked"]
  /\ UNCHANGED <<dbVars, begin, seen, held, starts>>

(* Consume that asks again whether the token is still good. *)
ConsumeUnexpired(s) ==
  tokens' = IF tokens[TokenOf[s]] = "valid" THEN [tokens EXCEPT ![TokenOf[s]] = "consumed"]
                                            ELSE tokens

(* CommitConfirm that gives its connection back only when it has answered. *)
CommitHoldsOn(r) ==
  /\ confirm[r] = "clear"
  /\ owners' = owners \cup {SetupOf[r]} /\ pending' = pending \ {SetupOf[r]}
  /\ tokens' = [tokens EXCEPT ![TokenOf[SetupOf[r]]] = "consumed"]
  /\ confirm' = [confirm EXCEPT ![r] = "audit"]
  /\ UNCHANGED <<expired, begin, seen, lock, held, starts>>

(* CommitConfirm ignoring that COMMIT failed. *)
CommitUnchecked(r) ==
  /\ confirm[r] = "clear"
  /\ confirm' = [confirm EXCEPT ![r] = "audit"]
  /\ lock' = NoOne /\ held' = held \ {r}
  /\ UNCHANGED <<dbVars, begin, seen, starts>>

-----------------------------------------------------------------------------

(* A statement outside a transaction borrows a connection for a moment. *)
Free == Cardinality(held) < PoolSize

Init ==
  /\ tokens = [t \in Tokens |-> "absent"]
  /\ pending = {} /\ expired = {} /\ owners = {}
  /\ begin = [s \in Setups |-> "idle"]
  /\ confirm = [r \in Confirms |-> "idle"]
  /\ seen = [r \in Confirms |-> FALSE]
  /\ lock = NoOne /\ held = {}
  /\ starts = 0

(* ensureBootstrap: INSERT ... ON CONFLICT DO NOTHING. *)
Record(t) ==
  tokens' = IF tokens[t] = "absent" THEN [tokens EXCEPT ![t] = "valid"] ELSE tokens

(***************************************************************************)
(* The process starts, for the first time or after it died: PostgreSQL has *)
(* rolled back what was open, and every request in flight is lost.         *)
(***************************************************************************)
Start(t) ==
  /\ starts < MaxStarts /\ starts' = starts + 1
  /\ Record(t)
  /\ begin' = [s \in Setups |->
                 IF begin[s] \in {"asked", "hashing"} THEN "dropped" ELSE begin[s]]
  /\ confirm' = [r \in Confirms |->
                   IF confirm[r] \in {"idle"} \cup ConfirmDone THEN confirm[r] ELSE "dropped"]
  /\ lock' = NoOne /\ held' = {}
  /\ UNCHANGED <<pending, expired, owners, seen>>

ExpireToken(t) ==
  /\ tokens[t] = "valid"
  /\ tokens' = [tokens EXCEPT ![t] = "expired"]
  /\ UNCHANGED <<pending, expired, owners, requestVars, starts>>

ExpireSetup(s) ==
  /\ s \in pending \ expired
  /\ expired' = expired \cup {s}
  /\ UNCHANGED <<tokens, pending, owners, requestVars, starts>>

-----------------------------------------------------------------------------
(***************************************************************************)
(* BeginSetup: two statements, no transaction, a password hash in between. *)
(***************************************************************************)

SetBegin(s, where) == begin' = [begin EXCEPT ![s] = where]

AskBegin(s) ==
  /\ starts > 0 /\ begin[s] = "idle"
  /\ SetBegin(s, "asked")
  /\ UNCHANGED <<dbVars, confirm, seen, lock, held, starts>>

ValidateToken(s) ==
  /\ begin[s] = "asked" /\ Free
  /\ SetBegin(s, IF tokens[TokenOf[s]] = "valid" /\ owners = {} THEN "hashing" ELSE "refused")
  /\ UNCHANGED <<dbVars, confirm, seen, lock, held, starts>>

(* InsertPendingSetup, whatever has happened since the token was looked at. *)
StorePending(s) ==
  /\ begin[s] = "hashing" /\ Free
  /\ pending' = pending \cup {s}
  /\ SetBegin(s, "stored")
  /\ UNCHANGED <<tokens, expired, owners, confirm, seen, lock, held, starts>>

-----------------------------------------------------------------------------
(***************************************************************************)
(* ConfirmSetup.                                                           *)
(***************************************************************************)

(* The transaction ends: the lock and the connection go back. *)
Release(r) ==
  /\ lock' = IF lock = r THEN NoOne ELSE lock
  /\ held' = held \ {r}

Finish(r, answer) ==
  /\ confirm' = [confirm EXCEPT ![r] = answer]
  /\ Release(r)
  /\ UNCHANGED <<begin, seen, starts>>

(* The setup id is one that BeginSetup answered, or names nothing. *)
AskConfirm(r) ==
  /\ starts > 0 /\ confirm[r] = "idle"
  /\ SetupOf[r] = NoSetup \/ \E s \in Setups : s = SetupOf[r] /\ begin[s] = "stored"
  /\ confirm' = [confirm EXCEPT ![r] = "asked"]
  /\ UNCHANGED <<dbVars, begin, seen, lock, held, starts>>

(***************************************************************************)
(* BEGIN takes a connection and fixes now().  The advisory lock is the     *)
(* first statement, so the snapshot is taken before the wait for it.       *)
(***************************************************************************)
OpenTx(r) ==
  /\ confirm[r] = "asked" /\ Free
  /\ held' = held \cup {r}
  /\ seen' = [seen EXCEPT ![r] = SetupOf[r] \in pending \ expired]
  /\ confirm' = [confirm EXCEPT ![r] = "queued"]
  /\ UNCHANGED <<dbVars, begin, lock, starts>>

TakeLock(r) ==
  /\ confirm[r] = "queued" /\ lock = NoOne
  /\ lock' = r
  /\ confirm' = [confirm EXCEPT ![r] = "locked"]
  /\ UNCHANGED <<dbVars, begin, seen, held, starts>>

(* No row, or one that was deleted after the snapshot (could not serialize). *)
Missing(r) == IF seen[r] THEN "failed" ELSE "unavailable"

(* GetPendingSetup: SELECT ... FOR UPDATE in the snapshot; then the code. *)
LookUp(r) ==
  /\ confirm[r] = "locked"
  /\ IF seen[r] /\ SetupOf[r] \in pending
       THEN \/ confirm' = [confirm EXCEPT ![r] = "checked"]
               /\ UNCHANGED <<begin, seen, lock, held, starts>>
            \/ Finish(r, "wrong_code")
       ELSE Finish(r, Missing(r))
  /\ UNCHANGED dbVars

(* OwnerExists: a second connection, which reads what is committed by now. *)
CheckOwner(r) ==
  /\ confirm[r] = "checked" /\ Free
  /\ IF owners = {}
       THEN confirm' = [confirm EXCEPT ![r] = "clear"]
            /\ UNCHANGED <<begin, seen, lock, held, starts>>
       ELSE Finish(r, "unavailable")
  /\ UNCHANGED dbVars

(* UPDATE ... SET consumed_at WHERE consumed_at IS NULL. *)
Consume(s) == tokens' = [tokens EXCEPT ![TokenOf[s]] = "consumed"]

(* CreateOwner, ConsumeBootstrapToken, DeletePendingSetup and the session. *)
StoreOwner(s) ==
  /\ owners' = owners \cup {s}
  /\ Consume(s)
  /\ pending' = pending \ {s}
  /\ UNCHANGED expired

CommitConfirm(r) ==
  /\ confirm[r] = "clear"
  /\ StoreOwner(SetupOf[r])
  /\ Finish(r, "audit")

(* The client leaves or the connection breaks while COMMIT is under way. *)
CommitLost(r) ==
  /\ confirm[r] = "clear"
  /\ StoreOwner(SetupOf[r])
  /\ Finish(r, "failed")

(* RecordAudit borrows a connection once more; its error is ignored. *)
Audit(r) ==
  /\ confirm[r] = "audit" /\ Free
  /\ Finish(r, "confirmed")
  /\ UNCHANGED dbVars

(***************************************************************************)
(* The client goes away: its context is cancelled, which ends every wait   *)
(* and rolls back.  An error of a statement has the same effect.           *)
(***************************************************************************)
GiveUp(r) ==
  /\ confirm[r] \in {"asked", "audit"} \cup InTx
  /\ Finish(r, "failed")
  /\ UNCHANGED dbVars

-----------------------------------------------------------------------------

BeginStep(s) == ValidateToken(s) \/ StorePending(s)

ConfirmStep(r) ==
  OpenTx(r) \/ TakeLock(r) \/ LookUp(r) \/ CheckOwner(r) \/ CommitConfirm(r) \/ Audit(r)

Next ==
  \/ \E t \in Tokens : Start(t) \/ ExpireToken(t)
  \/ \E s \in Setups : ExpireSetup(s) \/ AskBegin(s) \/ BeginStep(s)
  \/ \E r \in Confirms : AskConfirm(r) \/ ConfirmStep(r) \/ CommitLost(r) \/ GiveUp(r)

Spec == Init /\ [][Next]_vars

(* Goroutines and the database make progress; nobody has to ask or leave. *)
FairSpec ==
  /\ Spec
  /\ \A s \in Setups : WF_vars(BeginStep(s))
  /\ \A r \in Confirms : WF_vars(ConfirmStep(r))

-----------------------------------------------------------------------------

TypeOK ==
  /\ tokens \in [Tokens -> {"absent", "valid", "expired", "consumed"}]
  /\ pending \subseteq Setups /\ expired \subseteq Setups /\ owners \subseteq Setups
  /\ begin \in [Setups -> {"idle", "asked", "hashing"} \cup BeginDone]
  /\ confirm \in [Confirms -> {"idle", "asked", "audit"} \cup InTx \cup ConfirmDone]
  /\ seen \in [Confirms -> BOOLEAN]
  /\ lock \in Confirms \cup {NoOne}
  /\ held = {r \in Confirms : confirm[r] \in InTx}
  /\ starts \in Nat

(* However setups begun under the same or different tokens are confirmed   *)
(* at once, with snapshots older than the lock, at most one makes an owner. *)
OneOwner == \A s, o \in owners : s = o

(* Through crashes, restarts with an old or a new token and lost commits,  *)
(* a token is consumed exactly when an owner was made with it.             *)
TokenSpent == \A t \in Tokens : tokens[t] = "consumed" <=> \E s \in owners : TokenOf[s] = t

(***************************************************************************)
(* What the client is told is so: after "confirmed" the owner is the one   *)
(* it set up; "unavailable" means that there is an owner or that the setup *)
(* id was of no use when it asked.                                         *)
(***************************************************************************)
AnswersTrue ==
  \A r \in Confirms :
    /\ confirm[r] \in {"audit", "confirmed"} => SetupOf[r] \in owners
    /\ confirm[r] = "unavailable" => owners # {} \/ SetupOf[r] \in expired \cup {NoSetup}

(* Whatever requests, restarts and clients do, setting up the owner is one *)
(* irrevocable choice: no owner is replaced and no consumed token revived. *)
Owner == INSTANCE OwnerSpec WITH chosen <- owners,
                                 spent <- {t \in Tokens : tokens[t] = "consumed"}
ImplementsOwnerSpec == Owner!Spec

UnderWay(r) == confirm[r] \in {"asked", "audit"} \cup InTx

(* What a confirmation under way waits for before its next statement.      *)
CanGo(r) ==
  /\ confirm[r] \in {"asked", "checked", "audit"} => Free
  /\ confirm[r] = "queued" => lock = NoOne

(***************************************************************************)
(* The second connection of OwnerExists is the only thing confirmations    *)
(* can all stop for: if every one under way waits, the whole pool is in    *)
(* their hands, the holder of the lock wants one connection more, and the  *)
(* others that have one queue for the lock.                                *)
(***************************************************************************)
StuckOnlyOnPool ==
  (\E r \in Confirms : UnderWay(r)) /\ (\A r \in Confirms : UnderWay(r) => ~CanGo(r)) =>
    /\ ~Free
    /\ \E r \in Confirms :
         /\ lock = r /\ confirm[r] = "checked"
         /\ \A q \in held \ {r} : confirm[q] = "queued"

(* A BeginSetup waiting for a connection gets one even when confirmations  *)
(* hold the whole pool and wait for each other, provided their clients do  *)
(* not wait for ever.                                                      *)
BeginAnswered ==
  (\A r \in Confirms : WF_vars(GiveUp(r))) =>
    \A s \in Setups : begin[s] = "asked" ~> begin[s] \in BeginDone

(* As long as the confirmations under way leave one connection of the pool *)
(* to others, each is answered without any client having to leave.         *)
ConfirmAnswered ==
  []Free => \A r \in Confirms : confirm[r] = "asked" ~> confirm[r] \in ConfirmDone

-----------------------------------------------------------------------------
(***************************************************************************)
(* The inductive invariant (proved in IAMSetupProofs).                     *)
(***************************************************************************)

LockInv ==
  \A r \in Confirms : lock = r <=> confirm[r] \in {"locked", "checked", "clear"}

RowInv ==
  /\ \A r \in Confirms : confirm[r] \in {"checked", "clear"} => SetupOf[r] \in pending
  /\ \A r \in Confirms : confirm[r] = "clear" => owners = {}
  /\ pending \cap owners = {}
  /\ \A s \in Setups : begin[s] = "stored" <=> s \in pending \cup owners
  /\ \A r \in Confirms : confirm[r] = "asked" => SetupOf[r] \in pending \cup owners \cup {NoSetup}

SeenInv ==
  \A r \in Confirms :
    confirm[r] \in InTx /\ ~seen[r] => owners # {} \/ SetupOf[r] \in expired \cup {NoSetup}

IInv == TypeOK /\ LockInv /\ RowInv /\ SeenInv /\ OneOwner /\ TokenSpent /\ AnswersTrue
=============================================================================
