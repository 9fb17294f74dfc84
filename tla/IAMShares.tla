----------------------------- MODULE IAMShares -----------------------------
(***************************************************************************)
(* apps/iam: share links.  A link is created and revoked by requests with  *)
(* a session.  Redeeming one, without a session, looks it up, counts the   *)
(* use in a second statement, and asks for a guest session in a third.     *)
(***************************************************************************)
EXTENDS IAMSessions

CONSTANTS
  Shares,
  Redeems,   \* POST /v1/shares/redeem; a subset of Sessions
  ShareOf,   \* [Redeems -> Shares]
  MaxUses    \* [Shares -> Nat]; a link without a limit has one no run reaches

ASSUME SharesAssumption ==
  /\ IsFiniteSet(Redeems) /\ Redeems \subseteq Sessions /\ Redeems \cap Attempts = {}
  /\ ShareOf \in [Redeems -> Shares] /\ MaxUses \in [Shares -> Nat]
  /\ \A r \in Requests : OpOf[r] \in {"createShare", "revokeShare"} => TargetOf[r] \in Shares

VARIABLES
  share,   \* none, active, expired, revoked
  uses,    \* use_count
  redeem   \* progress of each redemption

shareVars == <<share, uses, redeem>>

RedeemDone == {"opened", "invalid", "broken"}

-----------------------------------------------------------------------------
(***************************************************************************)
(* Bugs this code could have; each stands for a definition further down.   *)
(***************************************************************************)

(* Redeemable with <= for <. *)
RedeemableOnceMore(x) == share[x] = "active" /\ uses[x] <= MaxUses[x]

-----------------------------------------------------------------------------

InitShares(cast) ==
  /\ share = [x \in Shares |-> "none"]
  /\ uses = [x \in Shares |-> 0]
  /\ redeem = [k \in Redeems |-> IF k \in cast THEN "idle" ELSE "away"]

CreateShare(r) ==
  /\ Handles(r, "createShare") /\ share[TargetOf[r]] = "none"
  /\ share' = [share EXCEPT ![TargetOf[r]] = "active"]
  /\ Answer(r, "done")
  /\ UNCHANGED <<session, told, uses, redeem>>

ExpireShare(x) ==
  /\ share[x] = "active"
  /\ share' = [share EXCEPT ![x] = "expired"]
  /\ UNCHANGED <<sessionVars, uses, redeem>>

(* UPDATE ... WHERE revoked_at IS NULL, expired links included. *)
RevokeShare(r) ==
  /\ Handles(r, "revokeShare")
  /\ IF share[TargetOf[r]] \in {"active", "expired"}
       THEN share' = [share EXCEPT ![TargetOf[r]] = "revoked"] /\ Answer(r, "done")
       ELSE UNCHANGED share /\ SetRequest(r, "missing")
  /\ UNCHANGED <<session, told, uses, redeem>>

-----------------------------------------------------------------------------
(***************************************************************************)
(* RedeemShare.                                                            *)
(***************************************************************************)

Redeeming == {k \in Redeems : redeem[k] \in {"found", "counted"}}

Redeemable(x) == share[x] = "active" /\ uses[x] < MaxUses[x]

SetRedeem(k, where) ==
  /\ redeem' = [redeem EXCEPT ![k] = where]
  /\ UNCHANGED <<sessionVars, share>>

FindShare(k) ==
  /\ redeem[k] = "idle" /\ share[ShareOf[k]] # "none"
  /\ Cardinality(Redeeming) < Serving
  /\ SetRedeem(k, IF Redeemable(ShareOf[k]) THEN "found" ELSE "invalid")
  /\ UNCHANGED uses

(* IncrementShareUse; its error is ignored. *)
CountUse(k) ==
  /\ redeem[k] = "found"
  /\ \/ uses' = [uses EXCEPT ![ShareOf[k]] = @ + 1]
     \/ UNCHANGED uses
  /\ SetRedeem(k, "counted")

(***************************************************************************)
(* createShareSession hands CreateSession a nil transaction.  The call     *)
(* panics, net/http recovers and drops the connection: no session, no      *)
(* answer.  Where the process dies instead is the same to the client.      *)
(***************************************************************************)
CreateShareSession(k) ==
  /\ redeem[k] = "counted"
  /\ SetRedeem(k, "broken")
  /\ UNCHANGED uses

RedeemStep(k) == CountUse(k) \/ CreateShareSession(k)

ShareStep ==
  \/ \E x \in Shares : ExpireShare(x)
  \/ \E k \in Redeems : FindShare(k) \/ RedeemStep(k)
  \/ \E r \in Requests : CreateShare(r) \/ RevokeShare(r)

-----------------------------------------------------------------------------

SharesTypeOK ==
  /\ share \in [Shares -> {"none", "active", "expired", "revoked"}]
  /\ uses \in [Shares -> Nat]
  /\ redeem \in [Redeems -> {"away", "idle", "found", "counted"} \cup RedeemDone]

(* Redemptions that overlap all find the last use free, but a link is      *)
(* counted past its maximum by less than what is in flight at once.        *)
UsesBounded ==
  \A x \in Shares :
    uses[x] + Cardinality({k \in Redeems : redeem[k] = "found" /\ ShareOf[k] = x})
      < MaxUses[x] + Serving

(* A redemption that found an active link with a use left opens a session. *)
LinkOpens == \A k \in Redeems : redeem[k] = "found" ~> redeem[k] = "opened"
=============================================================================
