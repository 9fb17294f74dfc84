-------------------------- MODULE IAMAccessProofs --------------------------
(***************************************************************************)
(* Theorems about IAMAccess, for any logins, passkeys, links, requests and *)
(* casts of them, any limit of denials and any number served at once.      *)
(***************************************************************************)
EXTENDS IAMAccess, TLAPS, FiniteSetTheorems

USE SessionsAssumption, PasskeysAssumption, SharesAssumption, AccessAssumption

-----------------------------------------------------------------------------
(***************************************************************************)
(* Type correctness.  That a registration stores a passkey follows from    *)
(* what DoomInv says of a request that has taken its ceremony.             *)
(***************************************************************************)
LEMMA TypeStep ==
  ASSUME TypeOK, DoomInv, [Next]_vars
  PROVE  TypeOK'
<1> USE DEF TypeOK, SessionsTypeOK, PasskeysTypeOK, SharesTypeOK, Present, AttemptDone,
            RequestInside, RequestDone, Served, FinishInside, FinishDone, RedeemDone
<1>1. ASSUME NEW s \in Sessions, ExpireSession(s), UNCHANGED passkeyVars, UNCHANGED shareVars
      PROVE  TypeOK'
  BY <1>1 DEF ExpireSession, passkeyVars, shareVars
<1>2. ASSUME NEW a \in Attempts, CountFailures(a), UNCHANGED passkeyVars, UNCHANGED shareVars
      PROVE  TypeOK'
  BY <1>2 DEF CountFailures, SetAttempt, passkeyVars, shareVars
<1>3. ASSUME NEW a \in Attempts, CheckPassword(a), UNCHANGED passkeyVars, UNCHANGED shareVars
      PROVE  TypeOK'
  BY <1>3 DEF CheckPassword, SetAttempt, passkeyVars, shareVars
<1>4. ASSUME NEW a \in Attempts, RecordDenial(a), UNCHANGED passkeyVars, UNCHANGED shareVars
      PROVE  TypeOK'
  BY <1>4 DEF RecordDenial, SetAttempt, RecordAudit, passkeyVars, shareVars
<1>5. ASSUME NEW a \in Attempts, StoreSession(a), UNCHANGED passkeyVars, UNCHANGED shareVars
      PROVE  TypeOK'
  BY <1>5 DEF StoreSession, SetAttempt, Open, OpenLost, Insert, SetCookies, passkeyVars, shareVars
<1>6. ASSUME NEW a \in Attempts, ForgetDenial(a), UNCHANGED passkeyVars, UNCHANGED shareVars
      PROVE  TypeOK'
  BY <1>6 DEF ForgetDenial, passkeyVars, shareVars
<1>7. ASSUME NEW a \in Attempts, FailAttempt(a), UNCHANGED passkeyVars, UNCHANGED shareVars
      PROVE  TypeOK'
  BY <1>7 DEF FailAttempt, SetAttempt, Checking, passkeyVars, shareVars
<1>8. ASSUME NEW r \in Requests, Arrive(r), UNCHANGED passkeyVars, UNCHANGED shareVars
      PROVE  TypeOK'
  BY <1>8 DEF Arrive, Doom, passkeyVars, shareVars
<1>9. ASSUME NEW r \in Requests, CheckCSRF(r), UNCHANGED passkeyVars, UNCHANGED shareVars
      PROVE  TypeOK'
  BY <1>9 DEF CheckCSRF, Pass, SetRequest, Live, passkeyVars, shareVars
<1>10. ASSUME NEW r \in Requests, Authenticate(r), UNCHANGED passkeyVars, UNCHANGED shareVars
      PROVE  TypeOK'
  BY <1>10 DEF Authenticate, Pass, SetRequest, Live, passkeyVars, shareVars
<1>11. ASSUME NEW r \in Requests, Logout(r), UNCHANGED passkeyVars, UNCHANGED shareVars
      PROVE  TypeOK'
  BY <1>11 DEF Logout, Handles, Revoke, Answer, SetRequest, passkeyVars, shareVars
<1>12. ASSUME NEW r \in Requests, RevokeSessionByID(r), UNCHANGED passkeyVars, UNCHANGED shareVars
      PROVE  TypeOK'
  BY <1>12 DEF RevokeSessionByID, Handles, Revoke, Answer, SetRequest, passkeyVars, shareVars
<1>13. ASSUME NEW r \in Requests, RevokeOtherSessions(r), UNCHANGED passkeyVars, UNCHANGED shareVars
      PROVE  TypeOK'
  BY <1>13 DEF RevokeOtherSessions, Handles, Revoke, Others, Answer, SetRequest, passkeyVars, shareVars
<1>14. ASSUME NEW r \in Requests, FailRequest(r), UNCHANGED passkeyVars, UNCHANGED shareVars
      PROVE  TypeOK'
  BY <1>14 DEF FailRequest, SetRequest, passkeyVars, shareVars
<1>15. ASSUME NEW c \in Ceremonies, ExpireCeremony(c), UNCHANGED shareVars
      PROVE  TypeOK'
  BY <1>15 DEF ExpireCeremony, sessionVars, shareVars
<1>16. ASSUME NEW c \in Ceremonies, BeginPasskeyLogin(c), UNCHANGED shareVars
      PROVE  TypeOK'
  BY <1>16 DEF BeginPasskeyLogin, StoreCeremony, sessionVars, shareVars
<1>17. ASSUME NEW f \in Finishes, TakeLogin(f), UNCHANGED shareVars
      PROVE  TypeOK'
  BY <1>17 DEF TakeLogin, Takeable, Take, SetFinish, shareVars
<1>18. ASSUME NEW f \in Finishes, CheckAssertion(f), UNCHANGED shareVars
      PROVE  TypeOK'
  BY <1>18 DEF CheckAssertion, Known, SetFinish, shareVars
<1>19. ASSUME NEW f \in Finishes, UpdatePasskey(f), UNCHANGED shareVars
      PROVE  TypeOK'
  BY <1>19 DEF UpdatePasskey, Known, Unlocked, SetFinish, shareVars
<1>20. ASSUME NEW f \in Finishes, CommitLogin(f), UNCHANGED shareVars
      PROVE  TypeOK'
  BY <1>20 DEF CommitLogin, Open, OpenLost, Insert, SetCookies, SetFinish, Unlock, shareVars
<1>21. ASSUME NEW f \in Finishes, FailFinish(f), UNCHANGED shareVars
      PROVE  TypeOK'
  BY <1>21 DEF FailFinish, SetFinish, Unlock, shareVars
<1>22. ASSUME NEW r \in Requests, BeginPasskeyRegistration(r), UNCHANGED shareVars
      PROVE  TypeOK'
  BY <1>22 DEF BeginPasskeyRegistration, Handles, Answer, SetRequest, StoreCeremony, shareVars
<1>23. ASSUME NEW r \in Requests, TakeRegistration(r), UNCHANGED shareVars
      PROVE  TypeOK'
  BY <1>23 DEF TakeRegistration, Handles, Takeable, Take, SetRequest, shareVars
<1>24. ASSUME NEW r \in Requests, StorePasskey(r), UNCHANGED shareVars
      PROVE  TypeOK'
  BY <1>24 DEF StorePasskey, DoomInv, Known, Answer, SetRequest, shareVars
<1>25. ASSUME NEW r \in Requests, DeletePasskey(r), UNCHANGED shareVars
      PROVE  TypeOK'
  BY <1>25 DEF DeletePasskey, Handles, Unlocked, Known, Answer, SetRequest, shareVars
<1>26. ASSUME NEW x \in Shares, ExpireShare(x), UNCHANGED passkeyVars
      PROVE  TypeOK'
  BY <1>26 DEF ExpireShare, sessionVars, passkeyVars
<1>27. ASSUME NEW k \in Redeems, FindShare(k), UNCHANGED passkeyVars
      PROVE  TypeOK'
  BY <1>27 DEF FindShare, SetRedeem, Redeemable, sessionVars, passkeyVars
<1>28. ASSUME NEW k \in Redeems, CountUse(k), UNCHANGED passkeyVars
      PROVE  TypeOK'
  BY <1>28 DEF CountUse, SetRedeem, sessionVars, passkeyVars
<1>29. ASSUME NEW k \in Redeems, CreateShareSession(k), UNCHANGED passkeyVars
      PROVE  TypeOK'
  BY <1>29 DEF CreateShareSession, SetRedeem, sessionVars, passkeyVars
<1>30. ASSUME NEW r \in Requests, CreateShare(r), UNCHANGED passkeyVars
      PROVE  TypeOK'
  BY <1>30 DEF CreateShare, Handles, Answer, SetRequest, passkeyVars
<1>31. ASSUME NEW r \in Requests, RevokeShare(r), UNCHANGED passkeyVars
      PROVE  TypeOK'
  BY <1>31 DEF RevokeShare, Handles, Answer, SetRequest, passkeyVars
<1>32. ASSUME UNCHANGED vars
      PROVE  TypeOK'
  BY <1>32 DEF vars, sessionVars, passkeyVars, shareVars
<1>33. QED
  BY <1>1, <1>2, <1>3, <1>4, <1>5, <1>6, <1>7, <1>8, <1>9, <1>10, <1>11, <1>12, <1>13, <1>14,
     <1>15, <1>16, <1>17, <1>18, <1>19, <1>20, <1>21, <1>22, <1>23, <1>24, <1>25, <1>26, <1>27,
     <1>28, <1>29, <1>30, <1>31, <1>32 DEF Next, SessionStep, LoginStep, SessionHandler,
     PasskeyStep, FinishStep, PasskeyHandler, ShareStep, RedeemStep

-----------------------------------------------------------------------------
(***************************************************************************)
(* Who may change what.                                                    *)
(***************************************************************************)

(* Attempts and denials move in a login only. *)
LEMMA AttemptFrame ==
  ASSUME [Next]_vars
  PROVE  \/ UNCHANGED <<attempt, denials>>
         \/ \E a \in Attempts : CountFailures(a) \/ LoginStep(a) \/ ForgetDenial(a) \/ FailAttempt(a)
BY DEF Next, vars, SessionStep, PasskeyStep, ShareStep, sessionVars, passkeyVars, shareVars,
   ExpireSession, Arrive, SessionHandler, CheckCSRF, Authenticate, Pass, Logout, RevokeSessionByID,
   RevokeOtherSessions, FailRequest, Answer, SetRequest, ExpireCeremony, BeginPasskeyLogin,
   TakeLogin, FinishStep, CheckAssertion, UpdatePasskey, CommitLogin, FailFinish, SetFinish,
   PasskeyHandler, BeginPasskeyRegistration, TakeRegistration, StorePasskey, DeletePasskey,
   ExpireShare, FindShare, RedeemStep, CountUse, CreateShareSession, SetRedeem, CreateShare,
   RevokeShare

(* Passkey logins move by themselves, and so does the row lock. *)
LEMMA FinishFrame ==
  ASSUME [Next]_vars
  PROVE  \/ UNCHANGED <<finish, rowLock>>
         \/ \E f \in Finishes : TakeLogin(f) \/ FinishStep(f) \/ FailFinish(f)
BY DEF Next, vars, SessionStep, PasskeyStep, ShareStep, passkeyVars, ExpireCeremony,
   BeginPasskeyLogin, PasskeyHandler, BeginPasskeyRegistration, TakeRegistration, StorePasskey,
   DeletePasskey

(* Redemptions move by themselves, and they alone count uses. *)
LEMMA RedeemFrame ==
  ASSUME [Next]_vars
  PROVE  \/ UNCHANGED <<uses, redeem>>
         \/ \E k \in Redeems : FindShare(k) \/ RedeemStep(k)
BY DEF Next, vars, SessionStep, PasskeyStep, ShareStep, shareVars, ExpireShare, CreateShare, RevokeShare

(* A session is stored by a login, and ended by time or by a request. *)
LEMMA SessionFrame ==
  ASSUME [Next]_vars
  PROVE  \/ UNCHANGED session
         \/ \E a \in Attempts : StoreSession(a)
         \/ \E f \in Finishes : CommitLogin(f)
         \/ \E s \in Sessions : ExpireSession(s)
         \/ \E r \in Requests : Logout(r) \/ RevokeSessionByID(r) \/ RevokeOtherSessions(r)
BY DEF Next, vars, SessionStep, PasskeyStep, ShareStep, sessionVars, Arrive, CountFailures,
   LoginStep, CheckPassword, RecordDenial, ForgetDenial, FailAttempt, SessionHandler, CheckCSRF,
   Authenticate, Pass, FailRequest, ExpireCeremony, BeginPasskeyLogin, TakeLogin, FinishStep,
   CheckAssertion, UpdatePasskey, FailFinish, PasskeyHandler, BeginPasskeyRegistration,
   TakeRegistration, StorePasskey, DeletePasskey, ExpireShare, FindShare, RedeemStep, CountUse,
   CreateShareSession, SetRedeem, CreateShare, RevokeShare

(* A request moves when it arrives, is let in, is handled or fails. *)
Handler(r) == SessionHandler(r) \/ PasskeyHandler(r) \/ CreateShare(r) \/ RevokeShare(r)

LEMMA RequestFrame ==
  ASSUME TypeOK, [Next]_vars, NEW r \in Requests
  PROVE  \/ request'[r] = request[r] /\ doomed'[r] = doomed[r] /\ (r \in late' <=> r \in late)
         \/ Arrive(r)
         \/ (Handler(r) \/ FailRequest(r)) /\ UNCHANGED <<late, doomed>>
<1> DEFINE G == \/ request'[r] = request[r] /\ doomed'[r] = doomed[r] /\ (r \in late' <=> r \in late)
                \/ Arrive(r)
                \/ (Handler(r) \/ FailRequest(r)) /\ UNCHANGED <<late, doomed>>
<1> USE DEF Handler, TypeOK, SessionsTypeOK, sessionVars, SetRequest, SetAttempt, SetFinish, SetRedeem
<1>1. ASSUME NEW q \in Requests, Arrive(q)
      PROVE  G
  BY <1>1 DEF Arrive
<1>2. ASSUME NEW q \in Requests, SessionHandler(q)
      PROVE  G
  BY <1>2 DEF SessionHandler, CheckCSRF, Authenticate, Pass, Logout, RevokeSessionByID,
     RevokeOtherSessions, Answer
<1>3. ASSUME NEW q \in Requests, FailRequest(q)
      PROVE  G
  BY <1>3 DEF FailRequest
<1>4. ASSUME NEW q \in Requests, PasskeyHandler(q)
      PROVE  G
  BY <1>4 DEF PasskeyHandler, BeginPasskeyRegistration, TakeRegistration, StorePasskey, DeletePasskey, Answer
<1>5. ASSUME NEW q \in Requests, CreateShare(q) \/ RevokeShare(q)
      PROVE  G
  BY <1>5 DEF CreateShare, RevokeShare, Answer
<1>6. ASSUME NEW a \in Attempts, CountFailures(a) \/ LoginStep(a) \/ ForgetDenial(a) \/ FailAttempt(a)
      PROVE  G
  BY <1>6 DEF CountFailures, LoginStep, CheckPassword, RecordDenial, StoreSession, ForgetDenial, FailAttempt
<1>7. ASSUME NEW f \in Finishes, TakeLogin(f) \/ FinishStep(f) \/ FailFinish(f)
      PROVE  G
  BY <1>7 DEF TakeLogin, FinishStep, CheckAssertion, UpdatePasskey, CommitLogin, FailFinish
<1>8. ASSUME UNCHANGED sessionVars
      PROVE  G
  BY <1>8
<1>9. ASSUME NEW s \in Sessions, ExpireSession(s)
      PROVE  G
  BY <1>9 DEF ExpireSession
<1>10. QED
  <2>1. CASE SessionStep
    BY <1>1, <1>2, <1>3, <1>6, <1>9, <2>1 DEF SessionStep
  <2>2. CASE PasskeyStep
    BY <1>4, <1>7, <1>8, <2>2 DEF PasskeyStep, ExpireCeremony, BeginPasskeyLogin
  <2>3. CASE ShareStep
    BY <1>5, <1>8, <2>3 DEF ShareStep, ExpireShare, FindShare, RedeemStep, CountUse, CreateShareSession
  <2>4. CASE UNCHANGED vars
    BY <1>8, <2>4 DEF vars
  <2>5. QED
    BY <2>1, <2>2, <2>3, <2>4 DEF Next

-----------------------------------------------------------------------------
(***************************************************************************)
(* Sessions.                                                               *)
(***************************************************************************)

(* A session ends for good, and its own login alone stores it. *)
LEMMA SessionMoves ==
  ASSUME TypeOK, OriginInv, [Next]_vars, NEW s \in Sessions
  PROVE  \/ session'[s] = session[s]
         \/ session[s] \in {"live", "expired"} /\ session'[s] \in {"expired", "revoked"}
         \/ /\ session[s] = "absent" /\ session'[s] = "live"
            /\ (s \in Attempts /\ StoreSession(s)) \/ (s \in Finishes /\ CommitLogin(s))
<1> USE DEF TypeOK, SessionsTypeOK
<1>1. ASSUME NEW a \in Attempts, StoreSession(a), s = a
      PROVE  session[s] = "absent" /\ session'[s] = "live"
  BY <1>1 DEF StoreSession, Open, OpenLost, Insert, OriginInv, Present
<1>2. ASSUME NEW f \in Finishes, CommitLogin(f), s = f
      PROVE  session[s] = "absent" /\ session'[s] = "live"
  BY <1>2 DEF CommitLogin, Open, OpenLost, Insert, OriginInv, Present
<1>3. ASSUME NEW a \in Attempts, StoreSession(a), s # a
      PROVE  session'[s] = session[s]
  BY <1>3 DEF StoreSession, Open, OpenLost, Insert
<1>4. ASSUME NEW f \in Finishes, CommitLogin(f), s # f
      PROVE  session'[s] = session[s]
  BY <1>4 DEF CommitLogin, Open, OpenLost, Insert
<1>5. ASSUME NEW q \in Sessions, ExpireSession(q)
      PROVE  session'[s] = session[s] \/ (session[s] = "live" /\ session'[s] = "expired")
  BY <1>5 DEF ExpireSession
<1>6. ASSUME NEW r \in Requests, Logout(r) \/ RevokeSessionByID(r) \/ RevokeOtherSessions(r)
      PROVE  session'[s] = session[s] \/ (session[s] \in {"live", "expired"} /\ session'[s] = "revoked")
  BY <1>6 DEF Logout, RevokeSessionByID, RevokeOtherSessions, Revoke, Present
<1>7. QED
  BY <1>1, <1>2, <1>3, <1>4, <1>5, <1>6, SessionFrame

(* A login that has stored its session does nothing more. *)
LEMMA AttemptStays ==
  ASSUME TypeOK, [Next]_vars, NEW a \in Attempts, attempt[a] \in {"in", "lost"}
  PROVE  attempt'[a] = attempt[a]
<1> USE DEF TypeOK, SessionsTypeOK
<1>1. ASSUME NEW b \in Attempts, CountFailures(b) \/ LoginStep(b) \/ ForgetDenial(b) \/ FailAttempt(b)
      PROVE  attempt'[a] = attempt[a]
  BY <1>1 DEF CountFailures, LoginStep, CheckPassword, RecordDenial, StoreSession, ForgetDenial,
              FailAttempt, SetAttempt, Checking
<1>2. QED
  BY <1>1, AttemptFrame

LEMMA FinishStays ==
  ASSUME TypeOK, [Next]_vars, NEW f \in Finishes, finish[f] \in {"in", "lost"}
  PROVE  finish'[f] = finish[f]
<1> USE DEF TypeOK, PasskeysTypeOK
<1>1. ASSUME NEW g \in Finishes, TakeLogin(g) \/ FinishStep(g) \/ FailFinish(g)
      PROVE  finish'[f] = finish[f]
  BY <1>1 DEF TakeLogin, FinishStep, CheckAssertion, UpdatePasskey, CommitLogin, FailFinish,
              SetFinish, FinishInside
<1>2. QED
  BY <1>1, FinishFrame

LEMMA OriginStep ==
  ASSUME TypeOK, OriginInv, [Next]_vars
  PROVE  OriginInv'
<1>1. SUFFICES ASSUME NEW s \in Sessions, session'[s] # "absent"
               PROVE  \/ s \in Attempts /\ attempt'[s] \in {"in", "lost"}
                      \/ s \in Finishes /\ finish'[s] \in {"in", "lost"}
  BY DEF OriginInv, Present
<1>2. CASE s \in Attempts /\ StoreSession(s)
  BY <1>2 DEF TypeOK, SessionsTypeOK, StoreSession, SetAttempt
<1>3. CASE s \in Finishes /\ CommitLogin(s)
  BY <1>3 DEF TypeOK, PasskeysTypeOK, CommitLogin, SetFinish
<1>4. CASE session[s] # "absent"
  <2>1. \/ s \in Attempts /\ attempt[s] \in {"in", "lost"}
        \/ s \in Finishes /\ finish[s] \in {"in", "lost"}
    BY <1>4 DEF OriginInv, Present
  <2>2. QED
    BY <2>1, AttemptStays, FinishStays
<1>5. QED
  BY <1>1, <1>2, <1>3, <1>4, SessionMoves

-----------------------------------------------------------------------------
(***************************************************************************)
(* Requests.                                                               *)
(***************************************************************************)

(* What was over when a request was sent is over, so the two statements    *)
(* that let requests in refuse it.                                         *)
LEMMA LateStep ==
  ASSUME TypeOK, OriginInv, LateInv, DoomInv, [Next]_vars
  PROVE  LateInv'
<1>1. SUFFICES ASSUME NEW r \in late'
               PROVE  /\ session'[SessionOf[r]] \in {"expired", "revoked"}
                      /\ request'[r] \in {"arrived", "refused", "failed"}
  BY DEF LateInv
<1>2. r \in Requests /\ SessionOf[r] \in Sessions
  BY <1>1, TypeStep DEF TypeOK, SessionsTypeOK
<1>3. CASE r \notin late
  <2>1. Arrive(r)
    BY <1>1, <1>2, <1>3, RequestFrame
  <2>2. QED
    BY <1>1, <1>2, <1>3, <2>1 DEF Arrive, TypeOK, SessionsTypeOK, Present
<1>4. CASE r \in late
  <2>1. session'[SessionOf[r]] \in {"expired", "revoked"}
    BY <1>2, <1>4, SessionMoves DEF LateInv
  <2>2. request[r] \in {"arrived", "refused", "failed"} /\ ~Live(SessionOf[r])
    BY <1>4 DEF LateInv, Live
  <2>3. ASSUME Handler(r) \/ FailRequest(r)
        PROVE  request'[r] \in {"arrived", "refused", "failed"}
    BY <1>2, <2>2, <2>3 DEF Handler, SessionHandler, PasskeyHandler, CheckCSRF, Authenticate, Pass,
       Logout, RevokeSessionByID, RevokeOtherSessions, BeginPasskeyRegistration, TakeRegistration,
       StorePasskey, DeletePasskey, CreateShare, RevokeShare, Handles, FailRequest, SetRequest,
       TypeOK, SessionsTypeOK
  <2>4. QED
    BY <1>2, <2>1, <2>2, <2>3, RequestFrame DEF Arrive
<1>5. QED
  BY <1>3, <1>4

(* A request that a handler answers "done" has revoked what it doomed. *)
LEMMA HandlerDooms ==
  ASSUME TypeOK, DoomInv, NEW r \in Requests, Handler(r) \/ FailRequest(r)
  PROVE  /\ request'[r] = "done" => \A s \in doomed[r] : session'[s] # "live"
         /\ request'[r] = "taken" => OpOf[r] = "finishRegistration"
<1> USE DEF TypeOK, SessionsTypeOK, Handles, Answer, SetRequest
<1>1. CASE FailRequest(r) \/ CheckCSRF(r) \/ Authenticate(r)
  BY <1>1 DEF FailRequest, CheckCSRF, Authenticate, Pass
<1>2. CASE Logout(r)
  BY <1>2 DEF Logout, DoomInv
<1>3. CASE RevokeSessionByID(r)
  BY <1>3 DEF RevokeSessionByID, Revoke, DoomInv
<1>4. CASE RevokeOtherSessions(r)
  <2>1. OpOf[r] = "revokeOthers" /\ request'[r] # "taken"
    BY <1>4 DEF RevokeOtherSessions
  <2>2. \A s \in doomed[r] : s \in Sessions /\ s \in Others(r) \cap Present
    BY <2>1 DEF Others, DoomInv, Present
  <2>3. QED
    BY <1>4, <2>1, <2>2 DEF RevokeOtherSessions, Revoke
<1>5. CASE BeginPasskeyRegistration(r)
  BY <1>5 DEF BeginPasskeyRegistration, DoomInv
<1>6. CASE TakeRegistration(r)
  BY <1>6 DEF TakeRegistration, DoomInv
<1>7. CASE StorePasskey(r)
  BY <1>7 DEF StorePasskey, DoomInv
<1>8. CASE DeletePasskey(r)
  BY <1>8 DEF DeletePasskey, DoomInv
<1>9. CASE CreateShare(r) \/ RevokeShare(r)
  BY <1>9 DEF CreateShare, RevokeShare, DoomInv
<1>10. QED
  BY <1>1, <1>2, <1>3, <1>4, <1>5, <1>6, <1>7, <1>8, <1>9 DEF Handler, SessionHandler, PasskeyHandler

(* A session once stored that is not live is never live again, so what a   *)
(* revocation has ended stays so.                                          *)
LEMMA DoomStep ==
  ASSUME TypeOK, OriginInv, DoomInv, [Next]_vars
  PROVE  DoomInv'
<1>1. SUFFICES ASSUME NEW r \in Requests
               PROVE  /\ request'[r] = "done" => \A s \in doomed'[r] : session'[s] # "live"
                      /\ OpOf[r] \notin {"revokeSession", "revokeOthers"} => doomed'[r] = {}
                      /\ OpOf[r] = "revokeSession" => doomed'[r] \subseteq {TargetOf[r]}
                      /\ OpOf[r] = "revokeOthers" => SessionOf[r] \notin doomed'[r]
                      /\ request'[r] = "taken" => OpOf[r] = "finishRegistration"
  BY DEF DoomInv, RevokedOut
<1>2. CASE request'[r] = request[r] /\ doomed'[r] = doomed[r]
  <2>1. ASSUME request[r] = "done", NEW s \in doomed[r]
        PROVE  session'[s] # "live"
    <3>1. s \in Sessions /\ session[s] \notin {"absent", "live"}
      BY <2>1 DEF DoomInv, RevokedOut, TypeOK, SessionsTypeOK, Present
    <3>2. QED
      BY <3>1, SessionMoves
  <2>2. QED
    BY <1>2, <2>1 DEF DoomInv
<1>3. CASE Arrive(r)
  BY <1>3 DEF Arrive, Doom, TypeOK, SessionsTypeOK
<1>4. CASE (Handler(r) \/ FailRequest(r)) /\ UNCHANGED <<late, doomed>>
  BY <1>4, HandlerDooms DEF DoomInv
<1>5. QED
  BY <1>2, <1>3, <1>4, RequestFrame

-----------------------------------------------------------------------------
(***************************************************************************)
(* Ceremonies and passkeys.                                                *)
(***************************************************************************)

(* A ceremony that is gone is never stored again. *)
LEMMA GoneStays ==
  ASSUME TypeOK, [Next]_vars, NEW c \in Ceremonies, ceremony[c] = "gone"
  PROVE  ceremony'[c] = "gone"
<1> USE DEF TypeOK, PasskeysTypeOK, passkeyVars, StoreCeremony, Take
<1>1. ASSUME NEW d \in Ceremonies, ExpireCeremony(d) \/ BeginPasskeyLogin(d)
      PROVE  ceremony'[c] = "gone"
  BY <1>1 DEF ExpireCeremony, BeginPasskeyLogin
<1>2. ASSUME NEW f \in Finishes, TakeLogin(f) \/ FinishStep(f) \/ FailFinish(f)
      PROVE  ceremony'[c] = "gone"
  BY <1>2 DEF TakeLogin, FinishStep, CheckAssertion, UpdatePasskey, CommitLogin, FailFinish
<1>3. ASSUME NEW r \in Requests, PasskeyHandler(r)
      PROVE  ceremony'[c] = "gone"
  BY <1>3 DEF PasskeyHandler, BeginPasskeyRegistration, TakeRegistration, StorePasskey,
              DeletePasskey, Handles
<1>4. QED
  BY <1>1, <1>2, <1>3 DEF Next, SessionStep, PasskeyStep, ShareStep, vars

(* Taking a ceremony removes it, so of the finishes that name it one goes on. *)
LEMMA CeremonyStep ==
  ASSUME TypeOK, CeremonyInv, [Next]_vars
  PROVE  CeremonyInv'
<1> USE DEF Used, FinishInside
<1>1. \A f \in Finishes : CeremonyOf[f] \in Ceremonies
  OBVIOUS
<1>2. ASSUME \A f \in Finishes : Used(f)' => Used(f)
      PROVE  CeremonyInv'
  BY <1>1, <1>2, GoneStays DEF CeremonyInv
<1>3. CASE UNCHANGED finish
  BY <1>2, <1>3
<1>4. ASSUME NEW f \in Finishes, FinishStep(f) \/ FailFinish(f)
      PROVE  CeremonyInv'
  <2>1. \A g \in Finishes : Used(g)' => Used(g)
    BY <1>4 DEF FinishStep, CheckAssertion, UpdatePasskey, CommitLogin, FailFinish, SetFinish,
                TypeOK, PasskeysTypeOK
  <2>2. QED
    BY <1>2, <2>1
<1>5. ASSUME NEW f \in Finishes, TakeLogin(f)
      PROVE  CeremonyInv'
  <2>1. CASE Takeable(CeremonyOf[f], TRUE)
    <3>1. ceremony[CeremonyOf[f]] # "gone" /\ ceremony'[CeremonyOf[f]] = "gone"
      BY <1>1, <1>5, <2>1 DEF TakeLogin, Takeable, Take, TypeOK, PasskeysTypeOK
    <3>2. \A g \in Finishes : Used(g)' => Used(g) \/ g = f
      BY <1>5, <2>1 DEF TakeLogin, SetFinish, TypeOK, PasskeysTypeOK
    <3>3. \A g \in Finishes : Used(g) => CeremonyOf[g] # CeremonyOf[f] /\ ceremony'[CeremonyOf[g]] = "gone"
      BY <1>1, <3>1, GoneStays DEF CeremonyInv
    <3>4. QED
      BY <3>1, <3>2, <3>3 DEF CeremonyInv
  <2>2. CASE ~Takeable(CeremonyOf[f], TRUE)
    <3>1. \A g \in Finishes : Used(g)' => Used(g)
      BY <1>5, <2>2 DEF TakeLogin, SetFinish, TypeOK, PasskeysTypeOK
    <3>2. QED
      BY <1>2, <3>1
  <2>3. QED
    BY <2>1, <2>2
<1>6. QED
  BY <1>3, <1>4, <1>5, FinishFrame

(* Nobody deletes, or logs in with, a passkey whose row is locked. *)
LEMMA LockStep ==
  ASSUME TypeOK, LockInv, [Next]_vars
  PROVE  LockInv'
<1> USE DEF TypeOK, PasskeysTypeOK
<1>1. CASE UNCHANGED <<finish, rowLock>>
  <2>1. ASSUME NEW r \in Requests, PasskeyHandler(r)
        PROVE  LockInv'
    <3>1. \/ stored \subseteq stored'
          \/ DeletePasskey(r)
      BY <2>1 DEF PasskeyHandler, BeginPasskeyRegistration, TakeRegistration, StorePasskey
    <3>2. CASE stored \subseteq stored'
      BY <1>1, <3>2 DEF LockInv
    <3>3. CASE DeletePasskey(r)
      <4>1. rowLock[TargetOf[r]] \notin Finishes /\ stored' = stored \ {TargetOf[r]}
        BY <3>3 DEF DeletePasskey, Unlocked
      <4>2. \A f \in Finishes : finish[f] = "updated" => PasskeyOf[f] # TargetOf[r]
        BY <4>1 DEF LockInv
      <4>3. QED
        BY <1>1, <4>1, <4>2 DEF LockInv
    <3>4. QED
      BY <3>1, <3>2, <3>3
  <2>2. CASE UNCHANGED stored
    BY <1>1, <2>2 DEF LockInv
  <2>3. ASSUME NEW f \in Finishes, TakeLogin(f) \/ FinishStep(f) \/ FailFinish(f)
        PROVE  UNCHANGED stored
    BY <2>3 DEF TakeLogin, FinishStep, CheckAssertion, UpdatePasskey, CommitLogin, FailFinish
  <2>4. QED
    BY <2>1, <2>2, <2>3 DEF Next, SessionStep, PasskeyStep, ShareStep, ExpireCeremony,
                            BeginPasskeyLogin, passkeyVars, vars
<1>2. ASSUME NEW f \in Finishes, TakeLogin(f) \/ CheckAssertion(f)
      PROVE  LockInv'
  <2>1. /\ UNCHANGED <<rowLock, stored>> /\ finish[f] \in {"idle", "taken"}
        /\ \E where \in {"taken", "checked", "denied"} : finish' = [finish EXCEPT ![f] = where]
    BY <1>2 DEF TakeLogin, CheckAssertion, SetFinish
  <2>2. \A g \in Finishes : finish'[g] = "updated" <=> finish[g] = "updated"
    BY <2>1
  <2>3. QED
    BY <2>1, <2>2 DEF LockInv
<1>3. ASSUME NEW f \in Finishes, UpdatePasskey(f)
      PROVE  LockInv'
  <2>1. CASE PasskeyOf[f] \in stored
    <3>1. rowLock[PasskeyOf[f]] \notin Finishes /\ stored' = stored
      BY <1>3 DEF UpdatePasskey, Unlocked
    <3>2. /\ rowLock' = [rowLock EXCEPT ![PasskeyOf[f]] = f]
          /\ finish' = [finish EXCEPT ![f] = "updated"]
      BY <1>3, <2>1 DEF UpdatePasskey, Known, SetFinish
    <3>3. ASSUME NEW g \in Finishes, finish'[g] = "updated"
          PROVE  rowLock'[PasskeyOf[g]] = g /\ PasskeyOf[g] \in stored
      BY <2>1, <3>1, <3>2, <3>3 DEF LockInv
    <3>4. ASSUME NEW g \in Finishes, NEW p \in Passkeys, rowLock'[p] = g
          PROVE  finish'[g] = "updated" /\ PasskeyOf[g] = p
      BY <3>2, <3>4 DEF LockInv
    <3>5. QED
      BY <3>1, <3>3, <3>4 DEF LockInv
  <2>2. CASE PasskeyOf[f] \notin stored
    <3>1. /\ UNCHANGED <<rowLock, stored>> /\ finish[f] = "checked"
          /\ finish' = [finish EXCEPT ![f] = "denied"]
      BY <1>3, <2>2 DEF UpdatePasskey, Known, SetFinish
    <3>2. \A g \in Finishes : finish'[g] = "updated" <=> finish[g] = "updated"
      BY <3>1
    <3>3. QED
      BY <3>1, <3>2 DEF LockInv
  <2>3. QED
    BY <2>1, <2>2
<1>4. ASSUME NEW f \in Finishes, CommitLogin(f) \/ FailFinish(f)
      PROVE  LockInv'
  BY <1>4 DEF LockInv, CommitLogin, FailFinish, Unlock, SetFinish
<1>5. QED
  BY <1>1, <1>2, <1>3, <1>4, FinishFrame DEF FinishStep

-----------------------------------------------------------------------------
(***************************************************************************)
(* Limits.                                                                 *)
(***************************************************************************)

LEMMA AddOne ==
  ASSUME NEW S, IsFiniteSet(S), NEW x
  PROVE  /\ IsFiniteSet(S \cup {x}) /\ Cardinality(S \cup {x}) \in Nat
         /\ Cardinality(S \cup {x}) =< Cardinality(S) + 1
<1>1. Cardinality(S) \in Nat
  BY FS_CardinalityType
<1>2. IsFiniteSet(S \cup {x}) /\ (Cardinality(S \cup {x}) = Cardinality(S) \/ Cardinality(S \cup {x}) = Cardinality(S) + 1)
  <2>1. CASE x \in S
    BY <2>1, FS_AddElement
  <2>2. CASE x \notin S
    BY <2>2, FS_AddElement
  <2>3. QED
    BY <2>1, <2>2
<1>3. QED
  BY <1>1, <1>2

LEMMA UnionSize ==
  ASSUME NEW S, NEW T, IsFiniteSet(S), IsFiniteSet(T)
  PROVE  /\ IsFiniteSet(S \cup T) /\ Cardinality(S \cup T) \in Nat
         /\ Cardinality(S \cup T) =< Cardinality(S) + Cardinality(T)
<1>1. /\ IsFiniteSet(S \cup T)
      /\ Cardinality(S \cup T) = Cardinality(S) + Cardinality(T) - Cardinality(S \cap T)
  BY FS_Union
<1>2. IsFiniteSet(S \cap T)
  BY FS_Subset
<1>3. /\ Cardinality(S) \in Nat /\ Cardinality(T) \in Nat /\ Cardinality(S \cap T) \in Nat
      /\ Cardinality(S \cup T) \in Nat
  BY <1>1, <1>2, FS_CardinalityType
<1>4. QED
  BY <1>1, <1>3

LEMMA AttemptsFinite == ASSUME NEW S, S \subseteq Attempts PROVE IsFiniteSet(S) /\ Cardinality(S) \in Nat
  BY FS_Subset, FS_CardinalityType

(* Only a login that has counted fewer than Limit failures joins those     *)
(* that are counted or being checked, and then fewer than Serving others   *)
(* are being checked.                                                      *)
LEMMA Joins ==
  ASSUME TypeOK, [Next]_vars
  PROVE  \/ (denials \cup Checking)' \subseteq denials \cup Checking
         \/ \E a \in Attempts :
              /\ Cardinality(Failures(a)) < Limit /\ Cardinality(Checking) < Serving
              /\ denials' = denials /\ Checking' = Checking \cup {a}
<1> USE DEF TypeOK, SessionsTypeOK, Checking, SetAttempt
<1>1. ASSUME NEW a \in Attempts, CountFailures(a)
      PROVE  \/ (denials \cup Checking)' \subseteq denials \cup Checking
             \/ /\ Cardinality(Failures(a)) < Limit /\ Cardinality(Checking) < Serving
                /\ denials' = denials /\ Checking' = Checking \cup {a}
  <2>1. CASE Cardinality(Failures(a)) < Limit
    <3>1. Cardinality(Checking) < Serving /\ denials' = denials
      BY <1>1 DEF CountFailures
    <3>2. Checking' = Checking \cup {a}
      BY <1>1, <2>1 DEF CountFailures
    <3>3. QED
      BY <2>1, <3>1, <3>2
  <2>2. CASE ~(Cardinality(Failures(a)) < Limit)
    BY <1>1, <2>2 DEF CountFailures
  <2>3. QED
    BY <2>1, <2>2
<1>2. ASSUME NEW a \in Attempts, LoginStep(a) \/ ForgetDenial(a) \/ FailAttempt(a)
      PROVE  (denials \cup Checking)' \subseteq denials \cup Checking
  BY <1>2 DEF LoginStep, CheckPassword, RecordDenial, RecordAudit, StoreSession, ForgetDenial, FailAttempt
<1>3. QED
  BY <1>1, <1>2, AttemptFrame

(* The denials of one name, or of one address, in any set of them. *)
LEMMA FewJoin ==
  ASSUME TypeOK, NEW a \in Attempts, NEW S, S \subseteq Failures(a) \cup Checking \cup {a},
         Cardinality(Failures(a)) < Limit, Cardinality(Checking) < Serving
  PROVE  Cardinality(S) < Limit + Serving
<1>1. /\ Failures(a) \subseteq Attempts /\ Checking \subseteq Attempts
  BY DEF TypeOK, SessionsTypeOK, Failures, Checking
<1>2. /\ IsFiniteSet(Failures(a)) /\ Cardinality(Failures(a)) \in Nat
      /\ IsFiniteSet(Checking) /\ Cardinality(Checking) \in Nat
  BY <1>1, AttemptsFinite
<1>3. IsFiniteSet(Checking \cup {a}) /\ Cardinality(Checking \cup {a}) \in Nat
      /\ Cardinality(Checking \cup {a}) =< Cardinality(Checking) + 1
  BY <1>2, AddOne
<1>4. /\ IsFiniteSet(Failures(a) \cup (Checking \cup {a}))
      /\ Cardinality(Failures(a) \cup (Checking \cup {a})) =< Cardinality(Failures(a)) + Cardinality(Checking \cup {a})
  BY <1>2, <1>3, UnionSize
<1>5. Cardinality(S) =< Cardinality(Failures(a) \cup (Checking \cup {a})) /\ Cardinality(S) \in Nat
  BY <1>4, FS_Subset, FS_CardinalityType
<1>6. Cardinality(Failures(a) \cup (Checking \cup {a})) \in Nat
  BY <1>4, FS_CardinalityType
<1>7. QED
  BY <1>2, <1>3, <1>4, <1>5, <1>6

LEMMA LimitStep ==
  ASSUME TypeOK, LimitHolds, [Next]_vars
  PROVE  LimitHolds'
<1> DEFINE Of(n) == {a \in denials \cup Checking : NameOf[a] = n}
           From(i) == {a \in denials \cup Checking : AddressOf[a] = i}
<1>0. /\ Limit \in Nat /\ Serving \in Nat
      /\ \A n \in Names : Cardinality(Of(n)) < Limit + Serving
      /\ \A i \in Addresses : Cardinality(From(i)) < Limit + Serving
  BY DEF LimitHolds
<1>1. denials \cup Checking \subseteq Attempts
  BY DEF TypeOK, SessionsTypeOK, Checking
<1>2. \A n \in Names : IsFiniteSet(Of(n)) /\ Cardinality(Of(n)) \in Nat
  BY <1>1, AttemptsFinite
<1>3. \A i \in Addresses : IsFiniteSet(From(i)) /\ Cardinality(From(i)) \in Nat
  BY <1>1, AttemptsFinite
<1>4. /\ \A n \in Names : \A S \in SUBSET Of(n) : Cardinality(S) < Limit + Serving
      /\ \A i \in Addresses : \A S \in SUBSET From(i) : Cardinality(S) < Limit + Serving
  <2>1. ASSUME NEW n \in Names, NEW S \in SUBSET Of(n)
        PROVE  Cardinality(S) < Limit + Serving
    <3>1. Cardinality(S) =< Cardinality(Of(n)) /\ Cardinality(S) \in Nat
      BY <1>2, <2>1, FS_Subset, FS_CardinalityType
    <3> HIDE DEF Of
    <3>2. QED
      BY <1>0, <1>2, <3>1
  <2>2. ASSUME NEW i \in Addresses, NEW S \in SUBSET From(i)
        PROVE  Cardinality(S) < Limit + Serving
    <3>1. Cardinality(S) =< Cardinality(From(i)) /\ Cardinality(S) \in Nat
      BY <1>3, <2>2, FS_Subset, FS_CardinalityType
    <3> HIDE DEF From
    <3>2. QED
      BY <1>0, <1>3, <3>1
  <2>3. QED
    BY <2>1, <2>2
<1>5. CASE (denials \cup Checking)' \subseteq denials \cup Checking
  <2>1. /\ \A n \in Names : {a \in (denials \cup Checking)' : NameOf[a] = n} \in SUBSET Of(n)
        /\ \A i \in Addresses : {a \in (denials \cup Checking)' : AddressOf[a] = i} \in SUBSET From(i)
    BY <1>5
  <2>2. QED
    BY <1>4, <2>1 DEF LimitHolds
<1>6. ASSUME NEW b \in Attempts, Cardinality(Failures(b)) < Limit, Cardinality(Checking) < Serving,
             denials' = denials, Checking' = Checking \cup {b}
      PROVE  LimitHolds'
  <2>1. ASSUME NEW n \in Names
        PROVE  Cardinality({a \in denials' \cup Checking' : NameOf[a] = n}) < Limit + Serving
    <3> DEFINE S == {a \in denials' \cup Checking' : NameOf[a] = n}
    <3>1. CASE NameOf[b] = n
      <4>1. S \subseteq Failures(b) \cup Checking \cup {b}
        BY <1>6, <3>1 DEF Failures
      <4> HIDE DEF S
      <4>2. QED
        BY <1>6, <4>1, FewJoin DEF S
    <3>2. CASE NameOf[b] # n
      <4>1. S \in SUBSET Of(n)
        BY <1>6, <3>2
      <4>2. QED
        BY <1>4, <4>1
    <3>3. QED
      BY <3>1, <3>2
  <2>2. ASSUME NEW i \in Addresses
        PROVE  Cardinality({a \in denials' \cup Checking' : AddressOf[a] = i}) < Limit + Serving
    <3> DEFINE S == {a \in denials' \cup Checking' : AddressOf[a] = i}
    <3>1. CASE AddressOf[b] = i
      <4>1. S \subseteq Failures(b) \cup Checking \cup {b}
        BY <1>6, <3>1 DEF Failures
      <4> HIDE DEF S
      <4>2. QED
        BY <1>6, <4>1, FewJoin DEF S
    <3>2. CASE AddressOf[b] # i
      <4>1. S \in SUBSET From(i)
        BY <1>6, <3>2
      <4>2. QED
        BY <1>4, <4>1
    <3>3. QED
      BY <3>1, <3>2
  <2>3. QED
    BY <2>1, <2>2 DEF LimitHolds
<1>7. QED
  BY <1>5, <1>6, Joins

(* What is between the look at a link and the count of its use. *)
Found(x) == {k \in Redeems : redeem[k] = "found" /\ ShareOf[k] = x}

LEMMA RedeemsFinite == ASSUME NEW S, S \subseteq Redeems PROVE IsFiniteSet(S) /\ Cardinality(S) \in Nat
  BY FS_Subset, FS_CardinalityType

(* A use is counted by a redemption that found one free; those that find   *)
(* one free at once are no more than are being served.                     *)
LEMMA UsesStep ==
  ASSUME TypeOK, UsesBounded, [Next]_vars
  PROVE  UsesBounded'
<1> USE DEF TypeOK, SharesTypeOK
<1>1. SUFFICES ASSUME NEW x \in Shares
               PROVE  uses'[x] + Cardinality(Found(x)') < MaxUses[x] + Serving
  BY DEF UsesBounded, Found
<1>2. /\ uses[x] + Cardinality(Found(x)) < MaxUses[x] + Serving
      /\ uses[x] \in Nat /\ MaxUses[x] \in Nat
      /\ IsFiniteSet(Found(x)) /\ Cardinality(Found(x)) \in Nat
  BY RedeemsFinite DEF UsesBounded, Found
<1>3. ASSUME uses'[x] = uses[x], Found(x)' \subseteq Found(x)
      PROVE  uses'[x] + Cardinality(Found(x)') < MaxUses[x] + Serving
  <2>1. Cardinality(Found(x)') =< Cardinality(Found(x)) /\ Cardinality(Found(x)') \in Nat
    BY <1>2, <1>3, FS_Subset, FS_CardinalityType
  <2>2. QED
    BY <1>2, <1>3, <2>1
<1>4. CASE UNCHANGED <<uses, redeem>>
  BY <1>3, <1>4 DEF Found
<1>5. ASSUME NEW k \in Redeems, FindShare(k)
      PROVE  uses'[x] + Cardinality(Found(x)') < MaxUses[x] + Serving
  <2>1. CASE Redeemable(ShareOf[k]) /\ ShareOf[k] = x
    <3>1. Found(x)' \subseteq Redeeming \cup {k} /\ Redeeming \subseteq Redeems
      BY <1>5 DEF FindShare, SetRedeem, Found, Redeeming
    <3>2. IsFiniteSet(Redeeming) /\ Cardinality(Redeeming) \in Nat
      BY <3>1, RedeemsFinite
    <3>3. IsFiniteSet(Redeeming \cup {k}) /\ Cardinality(Redeeming \cup {k}) =< Cardinality(Redeeming) + 1
      BY <3>2, AddOne
    <3>4. /\ Cardinality(Found(x)') =< Cardinality(Redeeming \cup {k})
          /\ Cardinality(Found(x)') \in Nat /\ Cardinality(Redeeming \cup {k}) \in Nat
      BY <3>1, <3>3, FS_Subset, FS_CardinalityType
    <3>5. Cardinality(Redeeming) < Serving /\ uses'[x] = uses[x] /\ uses[x] < MaxUses[x]
      BY <1>5, <2>1 DEF FindShare, Redeemable
    <3>6. QED
      BY <1>2, <3>2, <3>3, <3>4, <3>5
  <2>2. CASE ~(Redeemable(ShareOf[k]) /\ ShareOf[k] = x)
    BY <1>3, <1>5, <2>2 DEF FindShare, SetRedeem, Found
  <2>3. QED
    BY <2>1, <2>2
<1>6. ASSUME NEW k \in Redeems, CountUse(k)
      PROVE  uses'[x] + Cardinality(Found(x)') < MaxUses[x] + Serving
  <2>1. CASE ShareOf[k] = x
    <3>1. Found(x)' = Found(x) \ {k} /\ k \in Found(x)
      BY <1>6, <2>1 DEF CountUse, SetRedeem, Found
    <3>2. Cardinality(Found(x)') = Cardinality(Found(x)) - 1
      BY <1>2, <3>1, FS_RemoveElement
    <3>3. uses'[x] \in {uses[x], uses[x] + 1}
      BY <1>6, <2>1 DEF CountUse
    <3>4. QED
      BY <1>2, <3>2, <3>3
  <2>2. CASE ShareOf[k] # x
    BY <1>3, <1>6, <2>2 DEF CountUse, SetRedeem, Found
  <2>3. QED
    BY <2>1, <2>2
<1>7. ASSUME NEW k \in Redeems, CreateShareSession(k)
      PROVE  uses'[x] + Cardinality(Found(x)') < MaxUses[x] + Serving
  BY <1>3, <1>7 DEF CreateShareSession, SetRedeem, Found
<1>8. QED
  BY <1>4, <1>5, <1>6, <1>7, RedeemFrame DEF RedeemStep

-----------------------------------------------------------------------------
(***************************************************************************)
(* Theorems.                                                               *)
(***************************************************************************)

LEMMA InitInv == Init => IInv
<1> SUFFICES ASSUME NEW cast \in Casts, InitSessions(cast), InitPasskeys(cast), InitShares(cast)
             PROVE  IInv
  BY DEF Init
<1> USE DEF InitSessions, InitPasskeys, InitShares
<1>1. TypeOK
  BY DEF TypeOK, SessionsTypeOK, PasskeysTypeOK, SharesTypeOK, Present, RequestDone
<1>2. OriginInv /\ LateInv /\ DoomInv /\ CeremonyInv /\ LockInv
  BY DEF OriginInv, Present, LateInv, DoomInv, RevokedOut, CeremonyInv, Used, FinishInside, LockInv
<1>3. LimitHolds
  <2>1. denials \cup Checking = {}
    BY DEF Checking
  <2>2. /\ \A n \in Names : {a \in denials \cup Checking : NameOf[a] = n} = {}
        /\ \A i \in Addresses : {a \in denials \cup Checking : AddressOf[a] = i} = {}
    BY <2>1
  <2>3. Cardinality({}) = 0 /\ 0 < Limit + Serving
    BY FS_EmptySet
  <2>4. QED
    BY <2>2, <2>3 DEF LimitHolds
<1>4. UsesBounded
  <2>1. ASSUME NEW x \in Shares
        PROVE  uses[x] + Cardinality({k \in Redeems : redeem[k] = "found" /\ ShareOf[k] = x}) < MaxUses[x] + Serving
    <3> DEFINE S == {k \in Redeems : redeem[k] = "found" /\ ShareOf[k] = x}
    <3>1. S = {}
      OBVIOUS
    <3>2. uses[x] = 0 /\ MaxUses[x] \in Nat /\ Serving \in Nat \ {0}
      BY <2>1
    <3> HIDE DEF S
    <3>3. Cardinality(S) = 0
      BY <3>1, FS_EmptySet
    <3>4. QED
      BY <3>2, <3>3 DEF S
  <2>2. QED
    BY <2>1 DEF UsesBounded
<1>5. QED
  BY <1>1, <1>2, <1>3, <1>4 DEF IInv

(***************************************************************************)
(* The inductive invariant holds in every reachable state.                 *)
(***************************************************************************)
THEOREM Invariance == Spec => []IInv
<1>1. IInv /\ [Next]_vars => IInv'
  BY TypeStep, OriginStep, LateStep, DoomStep, CeremonyStep, LockStep, LimitStep, UsesStep DEF IInv
<1>2. QED
  BY InitInv, <1>1, PTL DEF Spec

(* Type correctness: a browser holds no cookies of a session that was not  *)
(* stored, and counts no denial of a login that was not denied.            *)
THEOREM TypeCorrect == Spec => []TypeOK
<1>1. IInv => TypeOK
  BY DEF IInv
<1>2. QED
  BY Invariance, <1>1, PTL

(* However many logins overlap, no name and no address has more denials    *)
(* in a window than the limit and those served at once (LoginWithPassword).*)
THEOREM LoginLimit == Spec => []LimitHolds
<1>1. IInv => LimitHolds
  BY DEF IInv
<1>2. QED
  BY Invariance, <1>1, PTL

(* A request sent after its session was over is served nothing, whatever   *)
(* happens between its two checks (requireSessionAndCSRF).                 *)
THEOREM LateRefused == Spec => []NoLateEffect
<1>1. IInv => NoLateEffect
  BY DEF IInv, LateInv, NoLateEffect, RequestInside, Served
<1>2. QED
  BY Invariance, <1>1, PTL

(* A session that an answered revocation was about is never live again     *)
(* (RevokeSession, RevokeSessionByID, RevokeOtherSessions).                *)
THEOREM RevokedStaysOut == Spec => []RevokedOut
<1>1. IInv => RevokedOut
  BY DEF IInv, DoomInv
<1>2. QED
  BY Invariance, <1>1, PTL

(* A ceremony makes one session at most (takePasskeyCeremony).             *)
THEOREM OneSessionPerCeremony == Spec => []CeremonyOnce
<1>1. ASSUME IInv
      PROVE  CeremonyOnce
  <2>1. \A f \in Finishes : session[f] # "absent" => Used(f)
    BY <1>1 DEF IInv, OriginInv, Present, Used
  <2>2. QED
    BY <1>1, <2>1 DEF IInv, CeremonyInv, CeremonyOnce
<1>2. QED
  BY Invariance, <1>1, PTL

(* The uses counted of a link pass its maximum by less than what is        *)
(* redeemed at once (RedeemShare, IncrementShareUse).                      *)
THEOREM LinkUsesBounded == Spec => []UsesBounded
<1>1. IInv => UsesBounded
  BY DEF IInv
<1>2. QED
  BY Invariance, <1>1, PTL

(* A passkey login stores a session only while its passkey is registered   *)
(* (FinishPasskeyLogin, whose update holds the row that DeletePasskey      *)
(* would remove).                                                          *)
THEOREM DeletedPasskeyStaysOut == Spec => DeletedStaysOut
<1>1. ASSUME IInv, [Next]_vars
      PROVE  [\A f \in Finishes : session[f] = "absent" /\ session'[f] # "absent"
                => PasskeyOf[f] \in stored']_<<sessionVars, passkeyVars>>
  <2>1. SUFFICES ASSUME NEW f \in Finishes, session[f] = "absent", session'[f] # "absent"
                 PROVE  PasskeyOf[f] \in stored'
    OBVIOUS
  <2>2. CommitLogin(f)
    BY <1>1, <2>1, SessionMoves DEF IInv
  <2>3. QED
    BY <1>1, <2>2 DEF IInv, LockInv, CommitLogin
<1>2. QED
  BY Invariance, <1>1, PTL DEF Spec, DeletedStaysOut

(* The row of a passkey is held only by a login that has updated it and    *)
(* has its commit or its failure before it, either of which gives the row  *)
(* back: no deletion and no other login waits for a transaction that is    *)
(* over (the deferred Rollback of FinishPasskeyLogin).                     *)
THEOREM RowsGivenBack == Spec => []LockInv
<1>1. IInv => LockInv
  BY DEF IInv
<1>2. QED
  BY Invariance, <1>1, PTL

-----------------------------------------------------------------------------
(***************************************************************************)
(* The refinement of AccessSpec: what each step is to sessions and to the  *)
(* requests they carry.                                                    *)
(***************************************************************************)
standing == [s \in Sessions |-> StandingOf(session[s])]
phase == [r \in Requests |-> PhaseOf(request[r])]

LEMMA StandingMoves ==
  ASSUME TypeOK, NEW gone, session' = [s \in Sessions |-> IF s \in gone \cap Present THEN "revoked" ELSE session[s]]
  PROVE  Access!Withdraw(gone)
<1>1. \A s \in Sessions : s \in Present <=> StandingOf(session[s]) # "absent"
  BY DEF TypeOK, SessionsTypeOK, Present, StandingOf
<1>2. StandingOf("revoked") = "over"
  BY DEF StandingOf
<1>3. \A s \in Sessions :
        StandingOf(session'[s]) = IF s \in gone /\ s \in Present THEN "over" ELSE StandingOf(session[s])
  BY <1>2
<1>4. QED
  BY <1>1, <1>3 DEF Access!Withdraw

LEMMA PhaseMoves ==
  ASSUME TypeOK, NEW r \in Requests, NEW where, request' = [request EXCEPT ![r] = where]
  PROVE  phase' = [phase EXCEPT ![r] = PhaseOf(where)]
<1>1. request \in [Requests -> {"away", "idle", "arrived", "csrf"} \cup RequestInside \cup RequestDone]
  BY DEF TypeOK, SessionsTypeOK
<1>2. request'[r] = where /\ \A q \in Requests \ {r} : request'[q] = request[q]
  BY <1>1
<1>3. /\ PhaseOf(request'[r]) = PhaseOf(where)
      /\ \A q \in Requests \ {r} : PhaseOf(request'[q]) = PhaseOf(request[q])
  BY <1>2
<1>4. phase' = [q \in Requests |-> PhaseOf(request'[q])]
  BY DEF phase
<1>5. QED
  BY <1>3, <1>4 DEF phase

LEMMA NoMove ==
  ASSUME UNCHANGED <<session, request>>
  PROVE  UNCHANGED Access!accessVars
  BY DEF Access!accessVars

LEMMA PhaseNames ==
  /\ PhaseOf("away") = "waiting" /\ PhaseOf("idle") = "waiting"
  /\ PhaseOf("arrived") = "asked" /\ PhaseOf("csrf") = "asked"
  /\ PhaseOf("admitted") = "allowed" /\ PhaseOf("taken") = "allowed"
  /\ PhaseOf("done") = "served" /\ PhaseOf("missing") = "served"
  /\ PhaseOf("refused") = "ended" /\ PhaseOf("failed") = "ended"
  BY DEF PhaseOf, RequestInside, Served

(* A request is answered, or fails, with an effect that is its own. *)
LEMMA Acts ==
  ASSUME TypeOK, NEW r \in Requests, request[r] \in {"admitted", "taken"},
         Access!Effect(r), Answer(r, "done") \/ Answer(r, "missing")
  PROVE  Access!Next
<1>1. PICK where \in {"done", "missing", "failed"} : request' = [request EXCEPT ![r] = where]
  BY DEF Answer, SetRequest
<1>2. phase[r] = "allowed" /\ PhaseOf(where) \in {"served", "ended"}
  BY PhaseNames DEF phase
<1>3. phase' = [phase EXCEPT ![r] = PhaseOf(where)]
  BY <1>1, PhaseMoves
<1>4. Access!Act(r)
  BY <1>2, <1>3, Zenon DEF Access!Act, Access!Move, phase
<1>5. QED
  BY <1>4 DEF Access!Next

LEMMA Ends ==
  ASSUME TypeOK, NEW r \in Requests, request[r] \in {"arrived", "csrf", "admitted", "taken"},
         NEW where \in {"refused", "failed"}, SetRequest(r, where), UNCHANGED session
  PROVE  Access!Next
<1>1. phase[r] \in {"asked", "allowed"} /\ PhaseOf(where) = "ended"
  BY PhaseNames DEF phase
<1>2. phase' = [phase EXCEPT ![r] = PhaseOf(where)]
  BY PhaseMoves DEF SetRequest
<1>3. Access!End(r)
  BY <1>1, <1>2 DEF Access!End, Access!Move, phase
<1>4. QED
  BY <1>3 DEF Access!Next

(* A request is held back, or goes on within what it is already allowed. *)
LEMMA Stutters ==
  ASSUME TypeOK, NEW r \in Requests, NEW where, SetRequest(r, where), UNCHANGED session,
         PhaseOf(where) = PhaseOf(request[r])
  PROVE  UNCHANGED Access!accessVars
<1>1. phase' = [phase EXCEPT ![r] = PhaseOf(request[r])]
  BY PhaseMoves DEF SetRequest
<1>2. phase' = phase
  BY <1>1 DEF phase
<1>3. QED
  BY <1>2 DEF Access!accessVars, phase

LEMMA Arrives ==
  ASSUME TypeOK, NEW r \in Requests, Arrive(r)
  PROVE  Access!Next
<1>1. SessionOf[r] \in Present /\ request[r] = "idle"
  BY DEF Arrive, TypeOK, SessionsTypeOK
<1>2. standing[SessionOf[r]] # "absent"
  BY <1>1 DEF standing, StandingOf, Present
<1>3. phase[r] = "waiting" /\ PhaseOf("arrived") = "asked"
  BY <1>1, PhaseNames DEF phase
<1>4. phase' = [phase EXCEPT ![r] = "asked"]
  BY <1>3, PhaseMoves DEF Arrive
<1>5. Access!Ask(r)
  BY <1>2, <1>3, <1>4 DEF Arrive, Access!Ask, Access!Move, phase, standing
<1>6. QED
  BY <1>5 DEF Access!Next

LEMMA LetsIn ==
  ASSUME TypeOK, NEW r \in Requests, CheckCSRF(r) \/ Authenticate(r)
  PROVE  [Access!Next]_(Access!accessVars)
<1>1. CASE ~Live(SessionOf[r])
  <2>1. SetRequest(r, "refused") /\ UNCHANGED session /\ request[r] \in {"arrived", "csrf"}
    BY <1>1 DEF CheckCSRF, Authenticate, Pass
  <2>2. QED
    BY <2>1, Ends
<1>2. CASE Live(SessionOf[r]) /\ CheckCSRF(r)
  <2>1. SetRequest(r, "csrf") /\ UNCHANGED session /\ request[r] = "arrived"
    BY <1>2 DEF CheckCSRF, Pass
  <2>2. QED
    BY <2>1, PhaseNames, Stutters
<1>3. CASE Live(SessionOf[r]) /\ Authenticate(r)
  <2>1. /\ request[r] = "csrf" /\ request' = [request EXCEPT ![r] = "admitted"]
        /\ session' = session /\ session[SessionOf[r]] = "live"
    BY <1>3 DEF Authenticate, Pass, SetRequest, Live
  <2>2. phase[r] = "asked" /\ PhaseOf("admitted") = "allowed"
    BY <2>1, PhaseNames DEF phase
  <2>3. phase' = [phase EXCEPT ![r] = "allowed"]
    BY <2>1, <2>2, PhaseMoves
  <2>4. standing[SessionOf[r]] = "live"
    BY <2>1 DEF standing, StandingOf
  <2>5. Access!Allow(r)
    BY <2>1, <2>2, <2>3, <2>4 DEF Access!Allow, Access!Move, phase, standing
  <2>6. QED
    BY <2>5 DEF Access!Next
<1>4. QED
  BY <1>1, <1>2, <1>3

LEMMA Revokes ==
  ASSUME TypeOK, NEW r \in Requests, Logout(r) \/ RevokeSessionByID(r) \/ RevokeOtherSessions(r)
  PROVE  Access!Next
<1>1. request[r] \in {"admitted", "taken"}
  BY DEF Logout, RevokeSessionByID, RevokeOtherSessions, Handles
<1>2. CASE Logout(r)
  <2>1. Revoke({SessionOf[r]}) \/ UNCHANGED session
    BY <1>2 DEF Logout
  <2>2. Access!Withdraw({SessionOf[r]}) \/ UNCHANGED session
    BY <2>1, StandingMoves DEF Revoke
  <2>3. Access!Effect(r)
    BY <1>2, <2>2 DEF Logout, Handles, Access!Effect
  <2>4. Answer(r, "done")
    BY <1>2 DEF Logout, Answer
  <2>5. QED
    BY <1>1, <2>3, <2>4, Acts
<1>3. CASE RevokeSessionByID(r)
  <2>1. Access!Withdraw({TargetOf[r]})
    BY <1>3, StandingMoves DEF RevokeSessionByID, Revoke
  <2>2. Access!Effect(r)
    BY <1>3, <2>1 DEF RevokeSessionByID, Handles, Access!Effect
  <2>3. Answer(r, "done") \/ Answer(r, "missing")
    BY <1>3 DEF RevokeSessionByID
  <2>4. QED
    BY <1>1, <2>2, <2>3, Acts
<1>4. CASE RevokeOtherSessions(r)
  <2>1. session' = [s \in Sessions |-> IF s \in (Sessions \ {SessionOf[r]}) \cap Present
                                         THEN "revoked" ELSE session[s]]
    BY <1>4 DEF RevokeOtherSessions, Revoke, Others, Present
  <2>2. Access!Withdraw(Sessions \ {SessionOf[r]})
    BY <2>1, StandingMoves
  <2>3. Access!Effect(r)
    BY <1>4, <2>2 DEF RevokeOtherSessions, Handles, Access!Effect
  <2>4. Answer(r, "done")
    BY <1>4 DEF RevokeOtherSessions
  <2>5. QED
    BY <1>1, <2>3, <2>4, Acts
<1>5. QED
  BY <1>2, <1>3, <1>4

(* The handlers of passkeys and links leave sessions alone.                *)
LEMMA HandlesOther ==
  ASSUME TypeOK, DoomInv, NEW r \in Requests, PasskeyHandler(r) \/ CreateShare(r) \/ RevokeShare(r)
  PROVE  [Access!Next]_(Access!accessVars)
<1>1. /\ UNCHANGED session
      /\ OpOf[r] \notin {"logout", "revokeSession", "revokeOthers"}
      /\ request[r] \in {"admitted", "taken"}
  BY DEF PasskeyHandler, BeginPasskeyRegistration, TakeRegistration, StorePasskey, DeletePasskey,
         CreateShare, RevokeShare, Handles, DoomInv
<1>2. Access!Effect(r)
  BY <1>1 DEF Access!Effect
<1>3. \/ SetRequest(r, "taken") /\ request[r] = "admitted"
      \/ Answer(r, "done") \/ Answer(r, "missing")
  BY DEF PasskeyHandler, BeginPasskeyRegistration, TakeRegistration, StorePasskey, DeletePasskey,
         CreateShare, RevokeShare, Handles, Answer
<1>4. CASE SetRequest(r, "taken") /\ request[r] = "admitted"
  BY <1>1, <1>4, PhaseNames, Stutters
<1>5. CASE Answer(r, "done") \/ Answer(r, "missing")
  BY <1>1, <1>2, <1>5, Acts
<1>6. QED
  BY <1>3, <1>4, <1>5

LEMMA Grants ==
  ASSUME TypeOK, OriginInv, [Next]_vars, NEW s \in Attempts \cup Finishes,
         \/ s \in Attempts /\ StoreSession(s)
         \/ s \in Finishes /\ CommitLogin(s)
  PROVE  Access!Next
<1>1. s \in Sessions /\ session' = [session EXCEPT ![s] = "live"] /\ UNCHANGED request
  BY DEF StoreSession, CommitLogin, Open, OpenLost, Insert, SetAttempt, SetFinish
<1>2. session[s] = "absent"
  <2>1. CASE s \in Attempts /\ StoreSession(s)
    BY <2>1 DEF StoreSession, TypeOK, SessionsTypeOK, OriginInv, Present
  <2>2. CASE s \in Finishes /\ CommitLogin(s)
    BY <2>2 DEF CommitLogin, TypeOK, PasskeysTypeOK, SessionsTypeOK, OriginInv, Present
  <2>3. QED
    BY <2>1, <2>2
<1>3. StandingOf("absent") = "absent" /\ StandingOf("live") = "live"
  BY DEF StandingOf
<1>4. session'[s] = "live" /\ \A q \in Sessions \ {s} : session'[q] = session[q]
  BY <1>1 DEF TypeOK, SessionsTypeOK
<1>5. /\ StandingOf(session[s]) = "absent" /\ StandingOf(session'[s]) = "live"
      /\ \A q \in Sessions \ {s} : StandingOf(session'[q]) = StandingOf(session[q])
  BY <1>2, <1>3, <1>4
<1>6. Access!Grant(s)
  BY <1>1, <1>5 DEF Access!Grant
<1>7. QED
  BY <1>1, <1>6 DEF Access!Next

LEMMA Expires ==
  ASSUME TypeOK, NEW s \in Sessions, ExpireSession(s)
  PROVE  Access!Next
<1>1. /\ session[s] = "live" /\ session'[s] = "expired" /\ UNCHANGED request
      /\ \A q \in Sessions \ {s} : session'[q] = session[q]
  BY DEF ExpireSession, TypeOK, SessionsTypeOK
<1>2. StandingOf("expired") = "over" /\ StandingOf("live") = "live"
  BY DEF StandingOf
<1>3. /\ StandingOf(session[s]) = "live" /\ StandingOf(session'[s]) = "over"
      /\ \A q \in Sessions \ {s} : StandingOf(session'[q]) = StandingOf(session[q])
  BY <1>1, <1>2
<1>4. Access!Expire(s)
  BY <1>1, <1>3 DEF Access!Expire
<1>5. QED
  BY <1>4 DEF Access!Next

LEMMA AccessStep ==
  ASSUME TypeOK, OriginInv, DoomInv, [Next]_vars
  PROVE  [Access!Next]_(Access!accessVars)
<1>1. ASSUME NEW r \in Requests, Arrive(r) \/ Handler(r)
      PROVE  [Access!Next]_(Access!accessVars)
  BY <1>1, Arrives, LetsIn, Revokes, HandlesOther DEF Handler, SessionHandler
<1>2. ASSUME NEW r \in Requests, FailRequest(r)
      PROVE  [Access!Next]_(Access!accessVars)
  BY <1>2, Ends DEF FailRequest, RequestInside
<1>3. ASSUME NEW s \in Sessions, ExpireSession(s)
      PROVE  [Access!Next]_(Access!accessVars)
  BY <1>3, Expires
<1>4. ASSUME NEW a \in Attempts,
             CountFailures(a) \/ LoginStep(a) \/ ForgetDenial(a) \/ FailAttempt(a)
      PROVE  [Access!Next]_(Access!accessVars)
  <2>1. CASE StoreSession(a)
    BY <2>1, Grants
  <2>2. CASE ~StoreSession(a)
    <3>1. UNCHANGED <<session, request>>
      BY <1>4, <2>2 DEF CountFailures, LoginStep, CheckPassword, RecordDenial, ForgetDenial,
                        FailAttempt, SetAttempt
    <3>2. QED
      BY <3>1, NoMove
  <2>3. QED
    BY <2>1, <2>2
<1>5. ASSUME NEW f \in Finishes, TakeLogin(f) \/ FinishStep(f) \/ FailFinish(f)
      PROVE  [Access!Next]_(Access!accessVars)
  <2>1. CASE CommitLogin(f)
    BY <2>1, Grants
  <2>2. CASE ~CommitLogin(f)
    <3>1. UNCHANGED <<session, request>>
      BY <1>5, <2>2 DEF TakeLogin, FinishStep, CheckAssertion, UpdatePasskey, FailFinish, SetFinish
    <3>2. QED
      BY <3>1, NoMove
  <2>3. QED
    BY <2>1, <2>2
<1>6. ASSUME UNCHANGED sessionVars
      PROVE  [Access!Next]_(Access!accessVars)
  BY <1>6, NoMove DEF sessionVars
<1>7. QED
  <2>1. CASE SessionStep
    BY <1>1, <1>2, <1>3, <1>4, <2>1 DEF SessionStep, Handler
  <2>2. CASE PasskeyStep
    BY <1>1, <1>5, <1>6, <2>2 DEF PasskeyStep, Handler, ExpireCeremony, BeginPasskeyLogin
  <2>3. CASE ShareStep
    BY <1>1, <1>6, <2>3 DEF ShareStep, Handler, ExpireShare, FindShare, RedeemStep, CountUse,
                            CreateShareSession, SetRedeem
  <2>4. CASE UNCHANGED vars
    BY <1>6, <2>4 DEF vars
  <2>5. QED
    BY <2>1, <2>2, <2>3, <2>4 DEF Next

LEMMA AccessInit == Init => Access!Init
<1> SUFFICES ASSUME Init
             PROVE  Access!Init
  OBVIOUS
<1>1. /\ session = [s \in Sessions |-> "absent"]
      /\ \A r \in Requests : request[r] \in {"idle", "away"}
  BY DEF Init, InitSessions
<1>2. StandingOf("absent") = "absent"
  BY DEF StandingOf
<1>3. \A s \in Sessions : StandingOf(session[s]) = "absent"
  BY <1>1, <1>2
<1>4. \A r \in Requests : PhaseOf(request[r]) = "waiting"
  BY <1>1, PhaseNames
<1>5. QED
  BY <1>3, <1>4 DEF Access!Init

(* Each request with a session is allowed at one instant of it, and does   *)
(* to sessions at one instant what it was sent for; nothing else ends one  *)
(* and nothing revives one (requireSessionAndCSRF and the handlers).       *)
THEOREM RefinesAccessSpec == Spec => ImplementsAccessSpec
<1>1. IInv /\ [Next]_vars => [Access!Next]_(Access!accessVars)
  BY AccessStep DEF IInv
<1>2. QED
  BY Invariance, AccessInit, <1>1, PTL DEF Spec, ImplementsAccessSpec, Access!Spec
=============================================================================
