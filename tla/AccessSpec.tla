----------------------------- MODULE AccessSpec -----------------------------
(***************************************************************************)
(* What IAM promises of sessions, with no statement, transaction, lock or  *)
(* ceremony in sight.  A session is live from one login until it is over,  *)
(* for good.  A request is allowed at one instant, at which its session is *)
(* live; what it does to sessions is done at one later instant; and only   *)
(* an allowed request or time ends a session.  IAMAccess implements this.  *)
(***************************************************************************)

CONSTANTS
  Sessions,
  Logins,      \* the sessions that a login can make
  Requests, OpOf, SessionOf, TargetOf

VARIABLES
  standing,    \* [Sessions -> absent, live or over]
  phase        \* [Requests -> waiting, asked, allowed, served or ended]

accessVars == <<standing, phase>>

Init ==
  /\ standing = [s \in Sessions |-> "absent"]
  /\ phase = [r \in Requests |-> "waiting"]

Grant(s) ==
  /\ s \in Logins /\ standing[s] = "absent"
  /\ standing' = [standing EXCEPT ![s] = "live"]
  /\ UNCHANGED phase

Expire(s) ==
  /\ standing[s] = "live"
  /\ standing' = [standing EXCEPT ![s] = "over"]
  /\ UNCHANGED phase

Move(r, from, to) == phase[r] = from /\ phase' = [phase EXCEPT ![r] = to]

Ask(r) ==
  /\ Move(r, "waiting", "asked")
  /\ standing[SessionOf[r]] # "absent"
  /\ UNCHANGED standing

Allow(r) ==
  /\ Move(r, "asked", "allowed")
  /\ standing[SessionOf[r]] = "live"
  /\ UNCHANGED standing

Withdraw(gone) ==
  standing' = [s \in Sessions |->
                 IF s \in gone /\ standing[s] # "absent" THEN "over" ELSE standing[s]]

(* A logout may fail to do anything and be answered all the same.          *)
Effect(r) ==
  CASE OpOf[r] = "logout" -> Withdraw({SessionOf[r]}) \/ UNCHANGED standing
    [] OpOf[r] = "revokeSession" -> Withdraw({TargetOf[r]})
    [] OpOf[r] = "revokeOthers" -> Withdraw(Sessions \ {SessionOf[r]})
    [] OTHER -> UNCHANGED standing

(* The effect may be there although the request ends without an answer.    *)
Act(r) ==
  /\ Move(r, "allowed", "served") \/ Move(r, "allowed", "ended")
  /\ Effect(r)

End(r) ==
  /\ Move(r, "asked", "ended") \/ Move(r, "allowed", "ended")
  /\ UNCHANGED standing

Next ==
  \/ \E s \in Sessions : Grant(s) \/ Expire(s)
  \/ \E r \in Requests : Ask(r) \/ Allow(r) \/ Act(r) \/ End(r)

Spec == Init /\ [][Next]_accessVars
=============================================================================
