----------------------------- MODULE IAMAccess -----------------------------
(***************************************************************************)
(* The ways into apps/iam together: password login, passkeys and share     *)
(* links over one session table, and the requests that sessions carry.     *)
(*                                                                         *)
(* Casts is the choice of requests that happen at all in a behaviour.      *)
(***************************************************************************)
EXTENDS IAMPasskeys, IAMShares

CONSTANT Casts

ASSUME AccessAssumption == Finishes \cap Redeems = {}

vars == <<sessionVars, passkeyVars, shareVars>>

Init == \E cast \in Casts : InitSessions(cast) /\ InitPasskeys(cast) /\ InitShares(cast)

Next ==
  \/ SessionStep /\ UNCHANGED <<passkeyVars, shareVars>>
  \/ PasskeyStep /\ UNCHANGED shareVars
  \/ ShareStep /\ UNCHANGED passkeyVars

Spec == Init /\ [][Next]_vars

(* What IAM does by itself with the requests it has received. *)
Serve ==
  \/ \E r \in Requests : SessionHandler(r) /\ UNCHANGED <<passkeyVars, shareVars>>
  \/ \E r \in Requests : PasskeyHandler(r) /\ UNCHANGED shareVars
  \/ \E r \in Requests : (CreateShare(r) \/ RevokeShare(r)) /\ UNCHANGED passkeyVars
  \/ \E f \in Finishes : FinishStep(f) /\ UNCHANGED shareVars
  \/ \E k \in Redeems : RedeemStep(k) /\ UNCHANGED passkeyVars

(***************************************************************************)
(* Some handler or transaction that can go on does; nobody has to ask or   *)
(* to fail.  Each request has finitely many steps, so fairness between     *)
(* requests is not needed.                                                 *)
(***************************************************************************)
FairSpec == Spec /\ WF_vars(Serve)

TypeOK == SessionsTypeOK /\ PasskeysTypeOK /\ SharesTypeOK

(***************************************************************************)
(* Two statements let a request in, a login, a revocation and a deletion   *)
(* take several more, and all of them overlap: yet a request is allowed at *)
(* one instant of a live session, revokes at one instant exactly what it   *)
(* names, and no session is revived or ended by anything else.             *)
(***************************************************************************)
StandingOf(state) == CASE state = "absent" -> "absent"
                       [] state = "live" -> "live"
                       [] OTHER -> "over"

PhaseOf(state) == CASE state \in {"away", "idle"} -> "waiting"
                    [] state \in {"arrived", "csrf"} -> "asked"
                    [] state \in RequestInside -> "allowed"
                    [] state \in Served -> "served"
                    [] OTHER -> "ended"

Access == INSTANCE AccessSpec WITH
  Logins   <- Attempts \cup Finishes,
  standing <- [s \in Sessions |-> StandingOf(session[s])],
  phase    <- [r \in Requests |-> PhaseOf(request[r])]

ImplementsAccessSpec == Access!Spec

(* No request of a session is left waiting for ever, a deletion that waits *)
(* for the row of a passkey with which somebody is just logging in         *)
(* included: when no more requests come, all have been answered.           *)
RequestsAnswered == <>[](\A r \in Requests : request[r] \in {"away", "idle"} \cup RequestDone)

-----------------------------------------------------------------------------
(***************************************************************************)
(* The inductive invariant (proved in IAMAccessProofs).                    *)
(***************************************************************************)

(* A session was stored by a login that got that far; no link opened one.  *)
OriginInv ==
  \A s \in Present : \/ s \in Attempts /\ attempt[s] \in {"in", "lost"}
                     \/ s \in Finishes /\ finish[s] \in {"in", "lost"}

(* A session that was over when a request was sent is over ever after.     *)
LateInv ==
  \A r \in late : /\ session[SessionOf[r]] \in {"expired", "revoked"}
                  /\ request[r] \in {"arrived", "refused", "failed"}

(* What a request dooms is what its handler revokes. *)
DoomInv ==
  /\ RevokedOut
  /\ \A r \in Requests :
       /\ OpOf[r] \notin {"revokeSession", "revokeOthers"} => doomed[r] = {}
       /\ OpOf[r] = "revokeSession" => doomed[r] \subseteq {TargetOf[r]}
       /\ OpOf[r] = "revokeOthers" => SessionOf[r] \notin doomed[r]
       /\ request[r] = "taken" => OpOf[r] = "finishRegistration"

(* A ceremony that a finish has used is gone, and nobody else has used it. *)
Used(f) == finish[f] \in FinishInside \cup {"in", "lost"}

CeremonyInv ==
  \A f \in Finishes : Used(f) =>
    /\ ceremony[CeremonyOf[f]] = "gone"
    /\ \A g \in Finishes : Used(g) /\ CeremonyOf[f] = CeremonyOf[g] => f = g

(* Whoever has updated a passkey holds its row, and the row exists; nobody *)
(* holds another row, nor any row after its transaction ended.             *)
LockInv ==
  \A f \in Finishes :
    /\ finish[f] = "updated" => rowLock[PasskeyOf[f]] = f /\ PasskeyOf[f] \in stored
    /\ \A p \in Passkeys : rowLock[p] = f => finish[f] = "updated" /\ PasskeyOf[f] = p

IInv ==
  TypeOK /\ OriginInv /\ LateInv /\ DoomInv /\ CeremonyInv /\ LockInv /\ LimitHolds /\ UsesBounded
=============================================================================
