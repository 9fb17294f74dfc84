---------------------------- MODULE IAMSessions ----------------------------
(***************************************************************************)
(* apps/iam: password login, the session table, and the requests that a    *)
(* session carries.                                                        *)
(*                                                                         *)
(* A login counts the recent denials, checks the password and the code,    *)
(* and records its own denial or stores a session: three moments, so that  *)
(* logins overlap.  A request of a logged-in browser is let in by two      *)
(* statements, CSRF check and authentication, and takes effect in a third. *)
(*                                                                         *)
(* A session is named by the request that makes it.  Nothing of a request  *)
(* outlives the process: a crash is a failure of all that is in flight.    *)
(* IAMPasskeys and IAMShares add steps of their own.                       *)
(***************************************************************************)
EXTENDS Naturals, FiniteSets

CONSTANTS
  Sessions,
  Attempts,        \* POST /v1/login; a subset of Sessions
  Names, Addresses,
  NameOf,          \* [Attempts -> Names]
  AddressOf,       \* [Attempts -> Addresses]
  Limit,           \* denials within 15 minutes that close the login (5)
  Serving,         \* bound of the model: requests of one kind served at once
  Requests,        \* requests that carry a session's cookies
  OpOf,            \* [Requests -> Ops], what each asks for
  SessionOf,       \* [Requests -> Sessions], whose cookies it carries
  TargetOf         \* what it names: a session, a passkey or a share

Ops == {"logout", "revokeSession", "revokeOthers", "beginRegistration",
        "finishRegistration", "deletePasskey", "createShare", "revokeShare"}

ASSUME SessionsAssumption ==
  /\ IsFiniteSet(Attempts) /\ Attempts \subseteq Sessions
  /\ NameOf \in [Attempts -> Names] /\ AddressOf \in [Attempts -> Addresses]
  /\ Limit \in Nat \ {0} /\ Serving \in Nat \ {0}
  /\ OpOf \in [Requests -> Ops] /\ SessionOf \in [Requests -> Sessions]
  /\ \A r \in Requests : OpOf[r] = "revokeSession" => TargetOf[r] \in Sessions

VARIABLES
  attempt,   \* progress of each login
  denials,   \* logins whose denial is in audit_events, within the window
  session,   \* absent, live, expired, revoked
  told,      \* sessions whose cookies a browser holds
  request,   \* progress of each request
  late,      \* history: requests sent when their session was over
  doomed     \* history: sessions that each revocation found when it was sent

sessionVars == <<attempt, denials, session, told, request, late, doomed>>

AttemptDone == {"in", "lost", "limited", "denied", "failed"}
Served == {"done", "missing"}
RequestDone == Served \cup {"refused", "failed"}
RequestInside == {"admitted", "taken"}

-----------------------------------------------------------------------------
(***************************************************************************)
(* Bugs this code could have; each stands for a definition further down.   *)
(***************************************************************************)

(* Failures with AND for OR. *)
FailuresOfBoth(a) == {d \in denials : NameOf[d] = NameOf[a] /\ AddressOf[d] = AddressOf[a]}

(* Live without "revoked_at IS NULL". *)
LiveUnlessExpired(s) == session[s] \in {"live", "revoked"}

(* Authenticate relying on what the CSRF check has found. *)
AuthenticateUnasked(r) ==
  /\ request[r] = "csrf"
  /\ request' = [request EXCEPT ![r] = "admitted"]
  /\ UNCHANGED <<attempt, denials, session, told, late, doomed>>

(* Others as the sessions whose login was answered. *)
OthersTold(r) == told \ {SessionOf[r]}

(* Open that answers without having committed. *)
OpenUnstored(s) == UNCHANGED session /\ told' = told \cup {s}

-----------------------------------------------------------------------------

Present == {s \in Sessions : session[s] # "absent"}

(* The condition that ValidateCSRF and AuthenticateSession share. *)
Live(s) == session[s] = "live"

InitSessions(cast) ==
  /\ attempt = [a \in Attempts |-> IF a \in cast THEN "idle" ELSE "away"]
  /\ denials = {}
  /\ session = [s \in Sessions |-> "absent"]
  /\ told = {}
  /\ request = [r \in Requests |-> IF r \in cast THEN "idle" ELSE "away"]
  /\ late = {}
  /\ doomed = [r \in Requests |-> {}]

(* 30 days without use, or 180 days. *)
ExpireSession(s) ==
  /\ session[s] = "live"
  /\ session' = [session EXCEPT ![s] = "expired"]
  /\ UNCHANGED <<attempt, denials, told, request, late, doomed>>

-----------------------------------------------------------------------------
(***************************************************************************)
(* Login.                                                                  *)
(***************************************************************************)

Checking == {a \in Attempts : attempt[a] \in {"counted", "right", "wrong"}}

(* The denials that count against a login: same name or same address. *)
Failures(a) == {d \in denials : NameOf[d] = NameOf[a] \/ AddressOf[d] = AddressOf[a]}

SetAttempt(a, where) ==
  /\ attempt' = [attempt EXCEPT ![a] = where]
  /\ UNCHANGED <<request, late, doomed>>

CountFailures(a) ==
  /\ attempt[a] = "idle" /\ Cardinality(Checking) < Serving
  /\ SetAttempt(a, IF Cardinality(Failures(a)) < Limit THEN "counted" ELSE "limited")
  /\ UNCHANGED <<denials, session, told>>

(* The owner's password and code, or a dummy hash when there is no owner.  *)
CheckPassword(a) ==
  /\ attempt[a] = "counted"
  /\ \E where \in {"right", "wrong"} : SetAttempt(a, where)
  /\ UNCHANGED <<denials, session, told>>

(* It ignores its own error, such as that the client has left. *)
RecordAudit(a) == denials' = denials \cup {a} \/ UNCHANGED denials

RecordDenial(a) ==
  /\ attempt[a] = "wrong"
  /\ RecordAudit(a)
  /\ SetAttempt(a, "denied")
  /\ UNCHANGED <<session, told>>

ForgetDenial(a) ==
  /\ a \in denials
  /\ denials' = denials \ {a}
  /\ UNCHANGED <<attempt, session, told, request, late, doomed>>

Insert(s) == session' = [session EXCEPT ![s] = "live"]
SetCookies(s) == told' = told \cup {s}

(* The session is committed, and the browser gets its cookies. *)
Open(s) == Insert(s) /\ SetCookies(s)

(* Committed, but COMMIT reports an error: a session nobody holds. *)
OpenLost(s) == Insert(s) /\ UNCHANGED told

StoreSession(a) ==
  /\ attempt[a] = "right"
  /\ \/ Open(a) /\ SetAttempt(a, "in")
     \/ OpenLost(a) /\ SetAttempt(a, "lost")
  /\ UNCHANGED denials

FailAttempt(a) ==
  /\ a \in Checking
  /\ SetAttempt(a, "failed")
  /\ UNCHANGED <<denials, session, told>>

LoginStep(a) == CheckPassword(a) \/ RecordDenial(a) \/ StoreSession(a)

-----------------------------------------------------------------------------
(***************************************************************************)
(* Requests with a session: requireSessionAndCSRF, then the handler.       *)
(***************************************************************************)

SetRequest(r, where) ==
  /\ request' = [request EXCEPT ![r] = where]
  /\ UNCHANGED <<attempt, denials, late, doomed>>

Others(r) == Present \ {SessionOf[r]}

(* What a revocation is about, as the sender could have listed it. *)
Doom(r) ==
  CASE OpOf[r] = "revokeSession" -> {TargetOf[r]}
    [] OpOf[r] = "revokeOthers" -> Present \ {SessionOf[r]}
    [] OTHER -> {}

Arrive(r) ==
  /\ request[r] = "idle" /\ SessionOf[r] \in told
  /\ OpOf[r] = "revokeSession" => TargetOf[r] \in Present
  /\ request' = [request EXCEPT ![r] = "arrived"]
  /\ late' = IF session[SessionOf[r]] = "live" THEN late ELSE late \cup {r}
  /\ doomed' = [doomed EXCEPT ![r] = Doom(r)]
  /\ UNCHANGED <<attempt, denials, session, told>>

(* One of the two statements that let a request in. *)
Pass(r, where) ==
  /\ SetRequest(r, IF Live(SessionOf[r]) THEN where ELSE "refused")
  /\ UNCHANGED <<session, told>>

CheckCSRF(r) == request[r] = "arrived" /\ Pass(r, "csrf")

Authenticate(r) == request[r] = "csrf" /\ Pass(r, "admitted")

(* A handler may start, and its answer may fail after the statement took effect. *)
Handles(r, op) == request[r] = "admitted" /\ OpOf[r] = op
Answer(r, answer) == SetRequest(r, answer) \/ SetRequest(r, "failed")

(* UPDATE sessions SET revoked_at = now() WHERE revoked_at IS NULL. *)
Revoke(gone) ==
  session' = [s \in Sessions |-> IF s \in gone \cap Present THEN "revoked" ELSE session[s]]

(* Logout answers 204 whether or not the session could be revoked. *)
Logout(r) ==
  /\ Handles(r, "logout")
  /\ \/ Revoke({SessionOf[r]}) /\ Answer(r, "done")
     \/ UNCHANGED session /\ SetRequest(r, "done")
  /\ UNCHANGED told

RevokeSessionByID(r) ==
  /\ Handles(r, "revokeSession")
  /\ Revoke({TargetOf[r]})
  /\ Answer(r, IF session[TargetOf[r]] = "revoked" THEN "missing" ELSE "done")
  /\ UNCHANGED told

RevokeOtherSessions(r) ==
  /\ Handles(r, "revokeOthers")
  /\ Revoke(Others(r))
  /\ Answer(r, "done")
  /\ UNCHANGED told

FailRequest(r) ==
  /\ request[r] \in {"arrived", "csrf"} \cup RequestInside
  /\ SetRequest(r, "failed")
  /\ UNCHANGED <<session, told>>

SessionHandler(r) ==
  CheckCSRF(r) \/ Authenticate(r) \/ Logout(r) \/ RevokeSessionByID(r) \/ RevokeOtherSessions(r)

SessionStep ==
  \/ \E s \in Sessions : ExpireSession(s)
  \/ \E a \in Attempts : CountFailures(a) \/ LoginStep(a) \/ ForgetDenial(a) \/ FailAttempt(a)
  \/ \E r \in Requests : Arrive(r) \/ SessionHandler(r) \/ FailRequest(r)

-----------------------------------------------------------------------------

SessionsTypeOK ==
  /\ attempt \in [Attempts -> {"away", "idle", "counted", "right", "wrong"} \cup AttemptDone]
  /\ denials \subseteq {a \in Attempts : attempt[a] = "denied"}
  /\ session \in [Sessions -> {"absent", "live", "expired", "revoked"}]
  /\ told \subseteq Present
  /\ request \in [Requests -> {"away", "idle", "arrived", "csrf"} \cup RequestInside \cup RequestDone]
  /\ late \subseteq Requests
  /\ doomed \in [Requests -> SUBSET Present]

(***************************************************************************)
(* Logins that overlap all pass the count, but no name and no address ever *)
(* has Limit + Serving denials, recorded or still to come, in one window:  *)
(* the limit is missed by no more than what was in flight.                 *)
(***************************************************************************)
LimitHolds ==
  /\ \A n \in Names : Cardinality({a \in denials \cup Checking : NameOf[a] = n}) < Limit + Serving
  /\ \A i \in Addresses :
       Cardinality({a \in denials \cup Checking : AddressOf[a] = i}) < Limit + Serving

(* Whatever runs between the CSRF check, the authentication and the        *)
(* handler, a request sent after its session was over is served nothing.   *)
NoLateEffect == \A r \in late : request[r] \notin RequestInside \cup Served

(* After a revocation was answered, every session it could have listed,    *)
(* one whose login was never answered included, stays out; two browsers    *)
(* that revoke each other's sessions at once included.                     *)
RevokedOut ==
  \A r \in Requests : request[r] = "done" => \A s \in doomed[r] : session[s] # "live"
=============================================================================
