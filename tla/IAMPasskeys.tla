---------------------------- MODULE IAMPasskeys ----------------------------
(***************************************************************************)
(* apps/iam: passkeys.  A ceremony is stored by the request that begins a  *)
(* login or a registration and deleted by the one that finishes it.  The   *)
(* assertion is checked against credentials read outside any transaction;  *)
(* the session is stored in the transaction that updates the credential,   *)
(* whose row stays locked until it ends.  The cryptography is external.    *)
(***************************************************************************)
EXTENDS IAMSessions

CONSTANTS
  Passkeys,
  Ceremonies,
  LoginCeremonies,  \* those of kind "login"; the others register
  Finishes,         \* POST /v1/passkeys/login/finish; a subset of Sessions
  CeremonyOf,       \* what a finish, or a request about registration, names
  PasskeyOf,        \* [Finishes -> Passkeys], the credential that signs
  Nobody

ASSUME PasskeysAssumption ==
  /\ Finishes \subseteq Sessions /\ Finishes \cap Attempts = {}
  /\ LoginCeremonies \subseteq Ceremonies
  /\ PasskeyOf \in [Finishes -> Passkeys] /\ Nobody \notin Finishes
  /\ \A f \in Finishes : CeremonyOf[f] \in Ceremonies
  /\ \A r \in Requests :
       /\ OpOf[r] = "beginRegistration" => CeremonyOf[r] \in Ceremonies \ LoginCeremonies
       /\ OpOf[r] = "finishRegistration" => CeremonyOf[r] \in Ceremonies
       /\ OpOf[r] \in {"finishRegistration", "deletePasskey"} => TargetOf[r] \in Passkeys

VARIABLES
  ceremony,  \* none, stored, expired, gone
  stored,    \* rows of webauthn_credentials
  finish,    \* progress of each passkey login
  rowLock    \* which login's transaction holds a credential's row

passkeyVars == <<ceremony, stored, finish, rowLock>>

FinishInside == {"taken", "checked", "updated"}
FinishDone == {"in", "lost", "denied", "failed"}

-----------------------------------------------------------------------------
(***************************************************************************)
(* Bugs this code could have; each stands for a definition further down.   *)
(***************************************************************************)

(* Take with SELECT for DELETE ... RETURNING. *)
TakeCopy(c) == UNCHANGED ceremony

(* Unlocked when the update commits before the session is stored. *)
UnlockedAtOnce(p) == p \in Passkeys

(* Unlock when the rollback on errors is forgotten. *)
UnlockOnCommit(f) == IF session[f] # session'[f] THEN rowLock' = [rowLock EXCEPT ![PasskeyOf[f]] = Nobody]
                                                 ELSE UNCHANGED rowLock

-----------------------------------------------------------------------------

InitPasskeys(cast) ==
  /\ ceremony = [c \in Ceremonies |-> "none"]
  /\ stored = {}
  /\ finish = [f \in Finishes |-> IF f \in cast THEN "idle" ELSE "away"]
  /\ rowLock = [p \in Passkeys |-> Nobody]

(* Five minutes. *)
ExpireCeremony(c) ==
  /\ ceremony[c] = "stored"
  /\ ceremony' = [ceremony EXCEPT ![c] = "expired"]
  /\ UNCHANGED <<sessionVars, stored, finish, rowLock>>

(* storePasskeyCeremony: drop what has expired, then insert. *)
StoreCeremony(c) ==
  ceremony' = [d \in Ceremonies |-> CASE d = c -> "stored"
                                      [] ceremony[d] = "expired" -> "gone"
                                      [] OTHER -> ceremony[d]]

(* takePasskeyCeremony: DELETE ... WHERE kind AND expires_at > now() RETURNING. *)
Takeable(c, login) == ceremony[c] = "stored" /\ (c \in LoginCeremonies <=> login)
Take(c) == ceremony' = [ceremony EXCEPT ![c] = "gone"]

Unlocked(p) == rowLock[p] = Nobody

-----------------------------------------------------------------------------
(***************************************************************************)
(* Login.                                                                  *)
(***************************************************************************)

(* The token goes to a browser that will finish with it. *)
BeginPasskeyLogin(c) ==
  /\ c \in LoginCeremonies /\ ceremony[c] = "none"
  /\ \E f \in Finishes : CeremonyOf[f] = c /\ finish[f] = "idle"
  /\ StoreCeremony(c)
  /\ UNCHANGED <<sessionVars, stored, finish, rowLock>>

SetFinish(f, where) ==
  /\ finish' = [finish EXCEPT ![f] = where]
  /\ UNCHANGED <<attempt, denials, request, late, doomed>>

TakeLogin(f) ==
  /\ finish[f] = "idle" /\ ceremony[CeremonyOf[f]] # "none"
  /\ IF Takeable(CeremonyOf[f], TRUE)
       THEN Take(CeremonyOf[f]) /\ SetFinish(f, "taken")
       ELSE UNCHANGED ceremony /\ SetFinish(f, "denied")
  /\ UNCHANGED <<session, told, stored, rowLock>>

(* loadWebAuthnUser: the credentials as they are now. *)
Known(p) == p \in stored

(* The credential is known and the signature holds, or not. *)
CheckAssertion(f) ==
  /\ finish[f] = "taken"
  /\ \/ Known(PasskeyOf[f]) /\ SetFinish(f, "checked")
     \/ SetFinish(f, "denied")
  /\ UNCHANGED <<session, told, ceremony, stored, rowLock>>

(* UPDATE webauthn_credentials waits for the row, if the row still exists. *)
UpdatePasskey(f) ==
  /\ finish[f] = "checked"
  /\ Unlocked(PasskeyOf[f])
  /\ IF Known(PasskeyOf[f])
       THEN rowLock' = [rowLock EXCEPT ![PasskeyOf[f]] = f] /\ SetFinish(f, "updated")
       ELSE UNCHANGED rowLock /\ SetFinish(f, "denied")
  /\ UNCHANGED <<session, told, ceremony, stored>>

(* The transaction ends, if there is one. *)
Unlock(f) ==
  rowLock' = [p \in Passkeys |-> IF rowLock[p] = f THEN Nobody ELSE rowLock[p]]

(* The session is inserted and committed with the update. *)
CommitLogin(f) ==
  /\ finish[f] = "updated"
  /\ \/ Open(f) /\ SetFinish(f, "in")
     \/ OpenLost(f) /\ SetFinish(f, "lost")
  /\ Unlock(f)
  /\ UNCHANGED <<ceremony, stored>>

FailFinish(f) ==
  /\ finish[f] \in FinishInside
  /\ SetFinish(f, "failed")
  /\ UNCHANGED <<session, told, ceremony, stored>>
  /\ Unlock(f)

FinishStep(f) == CheckAssertion(f) \/ UpdatePasskey(f) \/ CommitLogin(f)

-----------------------------------------------------------------------------
(***************************************************************************)
(* Registration and deletion: handlers of requests with a session.         *)
(***************************************************************************)

BeginPasskeyRegistration(r) ==
  /\ Handles(r, "beginRegistration") /\ ceremony[CeremonyOf[r]] = "none"
  /\ StoreCeremony(CeremonyOf[r])
  /\ Answer(r, "done")
  /\ UNCHANGED <<session, told, stored, finish, rowLock>>

TakeRegistration(r) ==
  /\ Handles(r, "finishRegistration")
  /\ IF Takeable(CeremonyOf[r], FALSE)
       THEN Take(CeremonyOf[r]) /\ SetRequest(r, "taken")
       ELSE UNCHANGED ceremony /\ SetRequest(r, "missing")
  /\ UNCHANGED <<session, told, stored, finish, rowLock>>

(* The attestation holds and the credential is new, or the answer is 400. *)
StorePasskey(r) ==
  /\ request[r] = "taken"
  /\ \/ /\ ~Known(TargetOf[r])
        /\ stored' = stored \cup {TargetOf[r]}
        /\ Answer(r, "done")
     \/ UNCHANGED stored /\ SetRequest(r, "missing")
  /\ UNCHANGED <<session, told, ceremony, finish, rowLock>>

(* DELETE waits for a login that has updated the row. *)
DeletePasskey(r) ==
  /\ Handles(r, "deletePasskey") /\ Unlocked(TargetOf[r])
  /\ stored' = stored \ {TargetOf[r]}
  /\ Answer(r, IF Known(TargetOf[r]) THEN "done" ELSE "missing")
  /\ UNCHANGED <<session, told, ceremony, finish, rowLock>>

PasskeyHandler(r) ==
  BeginPasskeyRegistration(r) \/ TakeRegistration(r) \/ StorePasskey(r) \/ DeletePasskey(r)

PasskeyStep ==
  \/ \E c \in Ceremonies : ExpireCeremony(c) \/ BeginPasskeyLogin(c)
  \/ \E f \in Finishes : TakeLogin(f) \/ FinishStep(f) \/ FailFinish(f)
  \/ \E r \in Requests : PasskeyHandler(r)

-----------------------------------------------------------------------------

PasskeysTypeOK ==
  /\ ceremony \in [Ceremonies -> {"none", "stored", "expired", "gone"}]
  /\ stored \subseteq Passkeys
  /\ finish \in [Finishes -> {"away", "idle"} \cup FinishInside \cup FinishDone]
  /\ rowLock \in [Passkeys -> Finishes \cup {Nobody}]

(* However often the finish of one ceremony is sent, at once or again, and *)
(* whether or not its answer arrived, it makes one session at most.        *)
CeremonyOnce ==
  \A f, g \in Finishes :
    f # g /\ CeremonyOf[f] = CeremonyOf[g] => session[f] = "absent" \/ session[g] = "absent"

(* A login that checked its assertion before the passkey was deleted makes *)
(* no session after: the row it needs is gone, or is still its own.        *)
DeletedStaysOut ==
  [][\A f \in Finishes : session[f] = "absent" /\ session'[f] # "absent"
                           => PasskeyOf[f] \in stored']_<<sessionVars, passkeyVars>>
=============================================================================
