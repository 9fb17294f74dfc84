----------------------------- MODULE AccessTokens ----------------------------
(***************************************************************************)
(* How a long-lived credential becomes a request that a service accepts.   *)
(*                                                                         *)
(* apps/iam authenticates an API key (or a session) and signs a short-     *)
(* lived token; services/telegram-bridge caches the token it is given;     *)
(* Traefik asks for one per request (ForwardAuth) and forwards it; Drop    *)
(* checks the token with packages/go-sdk/identity and never asks IAM.      *)
(*                                                                         *)
(* Revocation, expiry, the clocks of IAM and of the service, the signing   *)
(* key and the cache all decide what is accepted, each at its own moment.  *)
(* Time is kept as ages that grow with Tick up to Cap, past which nothing  *)
(* distinguishes them, so the model has no last instant.                   *)
(***************************************************************************)
EXTENDS Integers, FiniteSets

CONSTANTS
  Keys,           \* API keys
  Session,        \* the owner's browser session, as a credential
  Edge,           \* requests Traefik authorizes, one at a time each
  Bridge,         \* the Telegram bridge's uploads, one at a time
  CredOf,         \* [Callers -> Keys \cup {Session}]
  Scopes,         \* [Keys -> sets of permissions], fixed when a key is made
  Malformed,      \* scopes CreateAPIKey accepts and the signer refuses
  Create, Root,   \* drop.item.create, system.root
  Kids,           \* signing key ids
  TTL,            \* life of a token (2 minutes)
  Margin,         \* the bridge drops a token this long before it ends (30 s)
  ExchangeTime,   \* the bridge's timeout for an exchange (10 s)
  HandlerTime,    \* WriteTimeout of IAM (30 s)
  SendTime,       \* bound of the model: a token reaches the service in this
  ClockSkew,      \* tolerance of the verifier (15 s)
  Skew, Leads,    \* how far IAM's clock may be ahead of the services'
  MaxFaults       \* bound of the model: lost calls, restarts

Callers == Edge \cup {Bridge}
Cap == TTL + Skew

ASSUME CredentialAssumption ==
  /\ Session \notin Keys /\ Bridge \notin Edge
  /\ CredOf \in [Callers -> Keys \cup {Session}] /\ CredOf[Bridge] \in Keys

ASSUME TimeAssumption ==
  /\ {TTL, Margin, ExchangeTime, HandlerTime, SendTime, ClockSkew, Skew, MaxFaults} \subseteq Nat
  /\ Leads \subseteq -Skew..Skew /\ Skew <= ClockSkew
  /\ ExchangeTime <= HandlerTime
  /\ ExchangeTime + SendTime + Skew <= Margin
  /\ HandlerTime + SendTime + Skew < TTL

VARIABLES
  lead,      \* IAM's clock minus the services', fixed
  keyState,  \* api_keys: absent, active, over (revoked or expired)
  session,   \* is the owner's session live?
  idleFor,   \* [Keys -> age of the last moment the key was active]
  signer,    \* the key IAM signs with
  trusted,   \* the keys Drop fetched when it started
  stage,     \* progress of each caller's request
  timer,     \* how long it has been in the exchange, or on its way
  token,     \* the token each caller holds; the bridge's is its cache
  kept,      \* age of the bridge's cache entry
  answer,    \* what each caller was told by the request that just ended
  faults

authority == <<lead, keyState, session, idleFor, signer, trusted>>
tokenVars == <<stage, timer, token, kept, answer>>
vars == <<authority, tokenVars, faults>>

NoToken == [kid |-> "none", perms |-> {}, age |-> 0]
Older(n) == IF n < Cap THEN n + 1 ELSE Cap

-----------------------------------------------------------------------------
(***************************************************************************)
(* Bugs this code could have; each stands for a definition further down.   *)
(***************************************************************************)

(* Fresh until the token's very end. *)
FreshToTheEnd == token[Bridge] # NoToken /\ kept < TTL

(* Fresh for as long as there is a token. *)
FreshForEver == token[Bridge] # NoToken

(* Receive with one deadline for the exchange and the request after it. *)
ReceiveKeepsTimer(c) ==
  /\ stage[c] = "issued"
  /\ stage' = [stage EXCEPT ![c] = "sent"]
  /\ UNCHANGED <<authority, timer, token, kept, answer, faults>>

(* Authentic without revoked_at IS NULL. *)
AuthenticWhenMade(c) == IF CredOf[c] = Session THEN session ELSE keyState[CredOf[c]] # "absent"

-----------------------------------------------------------------------------

Init ==
  /\ lead \in Leads
  /\ keyState = [k \in Keys |-> "absent"] /\ session = TRUE
  /\ idleFor = [k \in Keys |-> 0]
  /\ signer \in Kids /\ trusted = {signer}
  /\ stage = [c \in Callers |-> "idle"]
  /\ timer = [c \in Callers |-> 0]
  /\ token = [c \in Callers |-> NoToken] /\ kept = 0
  /\ answer = [c \in Callers |-> "none"]
  /\ faults = 0

InExchange(c) == stage[c] \in {"asked", "granted", "issued"}

(* A request past its limit has timed out, which is a fault. *)
Limit(c) ==
  IF InExchange(c) THEN IF c = Bridge THEN ExchangeTime ELSE HandlerTime
  ELSE SendTime

Tick ==
  /\ \A c \in Callers : stage[c] # "idle" => timer[c] < Limit(c)
  /\ idleFor' = [k \in Keys |-> IF keyState[k] = "over" THEN Older(idleFor[k]) ELSE 0]
  /\ timer' = [c \in Callers |-> IF stage[c] = "idle" THEN 0 ELSE timer[c] + 1]
  /\ token' = [c \in Callers |->
                 IF token[c] = NoToken THEN NoToken ELSE [token[c] EXCEPT !.age = Older(@)]]
  /\ kept' = IF token[Bridge] = NoToken \/ InExchange(Bridge) THEN 0 ELSE Older(kept)
  /\ UNCHANGED <<lead, keyState, session, signer, trusted, stage, answer, faults>>

-----------------------------------------------------------------------------
(***************************************************************************)
(* The owner.                                                              *)
(***************************************************************************)

CreateAPIKey(k) ==
  /\ keyState[k] = "absent" /\ session
  /\ keyState' = [keyState EXCEPT ![k] = "active"]
  /\ UNCHANGED <<lead, session, idleFor, signer, trusted, tokenVars, faults>>

RevokeAPIKey(k) ==
  /\ keyState[k] = "active" /\ session
  /\ keyState' = [keyState EXCEPT ![k] = "over"]
  /\ UNCHANGED <<lead, session, idleFor, signer, trusted, tokenVars, faults>>

(* expires_at passes. *)
ExpireAPIKey(k) ==
  /\ keyState[k] = "active"
  /\ keyState' = [keyState EXCEPT ![k] = "over"]
  /\ UNCHANGED <<lead, session, idleFor, signer, trusted, tokenVars, faults>>

Logout ==
  /\ session
  /\ session' = FALSE
  /\ UNCHANGED <<lead, keyState, idleFor, signer, trusted, tokenVars, faults>>

-----------------------------------------------------------------------------
(***************************************************************************)
(* A request on its way.                                                   *)
(***************************************************************************)

Enter(c, where) ==
  /\ stage' = [stage EXCEPT ![c] = where]
  /\ answer' = [answer EXCEPT ![c] = "none"]

End(c, what) ==
  /\ stage' = [stage EXCEPT ![c] = "idle"]
  /\ timer' = [timer EXCEPT ![c] = 0]
  /\ answer' = [answer EXCEPT ![c] = what]

Forget(c) ==
  /\ token' = [token EXCEPT ![c] = NoToken]
  /\ kept' = IF c = Bridge THEN 0 ELSE kept

(* The bridge's Token: is the cached token good for Margin more? *)
Fresh == token[Bridge] # NoToken /\ kept + Margin < TTL

(* A cached token that is not fresh never is again: it counts as forgotten. *)
Ask(c) ==
  /\ stage[c] = "idle"
  /\ c = Bridge => ~Fresh
  /\ Enter(c, "asked")
  /\ Forget(c)
  /\ UNCHANGED <<authority, timer, faults>>

Reuse ==
  /\ stage[Bridge] = "idle"
  /\ Fresh
  /\ Enter(Bridge, "sent")
  /\ UNCHANGED <<authority, timer, token, kept, faults>>

(* One UPDATE ... WHERE revoked_at IS NULL AND expires_at > now(). *)
Authentic(c) == IF CredOf[c] = Session THEN session ELSE keyState[CredOf[c]] = "active"

Authenticate(c) ==
  /\ stage[c] = "asked"
  /\ IF Authentic(c) THEN Enter(c, "granted") /\ UNCHANGED timer
                     ELSE End(c, "unauthenticated")
  /\ UNCHANGED <<authority, token, kept, faults>>

(* A key's token carries all of its scopes, whatever the exchange asked    *)
(* for; the edge asks for a session's token with no permissions at all.    *)
Granted(c) == IF CredOf[c] = Session THEN {} ELSE Scopes[CredOf[c]]

(* Signer.Issue refuses an empty set and a malformed name. *)
Signable(P) == P # {} /\ P \cap Malformed = {}

(* The token is signed and on its way to the caller: nothing looks at the  *)
(* credential again.                                                       *)
Issue(c) ==
  /\ stage[c] = "granted"
  /\ IF Signable(Granted(c))
       THEN /\ Enter(c, "issued") /\ UNCHANGED timer
            /\ token' = [token EXCEPT ![c] = [kid |-> signer, perms |-> Granted(c), age |-> 0]]
       ELSE End(c, "forbidden") /\ UNCHANGED token
  /\ UNCHANGED <<authority, kept, faults>>

(* Traefik copies the token to the request it forwards; the bridge caches  *)
(* it, if it permits what the bridge is for, and makes its request.        *)
Receive(c) ==
  /\ stage[c] = "issued"
  /\ IF c = Bridge /\ Create \notin token[c].perms
       THEN End(c, "unusable") /\ Forget(c)
       ELSE Enter(c, "sent") /\ timer' = [timer EXCEPT ![c] = 0] /\ UNCHANGED <<token, kept>>
  /\ UNCHANGED <<authority, faults>>

(* identity.Verify: a known signing key, exp after now, iat not ahead.     *)
Acceptable(t) ==
  /\ t.kid \in trusted
  /\ t.age < TTL + lead
  /\ lead <= t.age + ClockSkew

Allowed(t) == t.perms \cap {Create, Root} # {}

(* Drop's authenticate; a refusal leaves the bridge's cache as it is.      *)
Verify(c) ==
  /\ stage[c] = "sent"
  /\ End(c, IF ~Acceptable(token[c]) THEN "invalid_token"
            ELSE IF ~Allowed(token[c]) THEN "insufficient" ELSE "accepted")
  /\ IF c = Bridge THEN UNCHANGED <<token, kept>> ELSE Forget(c)
  /\ UNCHANGED <<authority, faults>>

-----------------------------------------------------------------------------
(***************************************************************************)
(* Faults.                                                                 *)
(***************************************************************************)

Fault == faults < MaxFaults /\ faults' = faults + 1

(* A call fails, times out, or its caller is restarted. *)
Lose(c) ==
  /\ stage[c] # "idle"
  /\ End(c, "lost")
  /\ Forget(c) \/ (c = Bridge /\ ~InExchange(c) /\ UNCHANGED <<token, kept>>)
  /\ Fault
  /\ UNCHANGED authority

(* IAM restarts with another signing key. *)
RotateSigner ==
  /\ signer' \in Kids \ {signer}
  /\ \A c \in Callers : stage[c] \notin {"asked", "granted"}
  /\ Fault
  /\ UNCHANGED <<lead, keyState, session, idleFor, trusted, tokenVars>>

(* Drop restarts and fetches the JWKS: the one time it does. *)
RestartDrop ==
  /\ trusted' = {signer}
  /\ \A c \in Callers : stage[c] # "sent"
  /\ Fault
  /\ UNCHANGED <<lead, keyState, session, idleFor, signer, tokenVars>>

Owner ==
  \/ \E k \in Keys : CreateAPIKey(k) \/ RevokeAPIKey(k) \/ ExpireAPIKey(k)
  \/ Logout

Progress(c) == Authenticate(c) \/ Issue(c) \/ Receive(c) \/ Verify(c)

Next ==
  \/ Tick
  \/ Owner
  \/ \E c \in Callers : Ask(c) \/ Progress(c) \/ Lose(c)
  \/ Reuse
  \/ RotateSigner \/ RestartDrop

Spec == Init /\ [][Next]_vars

(***************************************************************************)
(* Time passes, requests move on, and the bridge keeps trying, as its loop *)
(* does while a message fails.  Nobody has to restart Drop.                *)
(***************************************************************************)
FairSpec ==
  /\ Spec
  /\ WF_vars(Tick)
  /\ \A c \in Callers : WF_vars(Progress(c))
  /\ WF_vars(Ask(Bridge) \/ Reuse)

-----------------------------------------------------------------------------

Tokens ==
  [kid : Kids, perms : {P \in {Scopes[k] : k \in Keys} : P \cap Malformed = {}}, age : 0..Cap]
    \cup {NoToken}

TypeOK ==
  /\ lead \in Leads /\ session \in BOOLEAN
  /\ keyState \in [Keys -> {"absent", "active", "over"}]
  /\ idleFor \in [Keys -> 0..Cap]
  /\ signer \in Kids /\ trusted \subseteq Kids
  /\ stage \in [Callers -> {"idle", "asked", "granted", "issued", "sent"}]
  /\ timer \in [Callers -> Nat] /\ \A c \in Callers : timer[c] <= Limit(c)
  /\ token \in [Callers -> Tokens] /\ kept \in 0..Cap
  /\ answer \in [Callers -> {"none", "unauthenticated", "forbidden", "unusable",
                             "invalid_token", "insufficient", "accepted", "lost"}]
  /\ faults \in Nat

Answered(c, what) == stage[c] = "sent" /\ stage'[c] = "idle" /\ answer'[c] = what

(* Drop never asks IAM, so a revoked or expired key still opens doors for  *)
(* a while: but for less than the life of one token, although IAM takes    *)
(* its time between looking at the key and answering, and the bridge       *)
(* counts a token's life from when it arrived.                             *)
GrantInTime ==
  [][\A c \in Callers : Answered(c, "accepted") => idleFor[CredOf[c]] < TTL]_vars

(* The bridge stops using a token early enough, and the edge forwards one  *)
(* soon enough, that no token signed with a key Drop knows is refused for  *)
(* its age when it arrives, although the bridge counts its life from when  *)
(* it arrived and IAM's clock is not Drop's.                               *)
FreshOnArrival ==
  [][\A c \in Callers : Answered(c, "invalid_token") => token[c].kid \notin trusted]_vars

(* Once the key is good for good and Drop knows IAM's signing key, uploads *)
(* succeed again and again: a cached token signed with a key that was      *)
(* rotated away is refused only until it is no longer fresh.               *)
Usable == keyState[CredOf[Bridge]] = "active" /\ signer \in trusted
Recovers == <>[]Usable => []<>(answer[Bridge] = "accepted")

(* ADR 0012: the bridge's token carries only drop.item.create. *)
OnlyCreate == token[Bridge] # NoToken => token[Bridge].perms \subseteq {Create}

(* Architecture overview: IAM validates the browser session and returns a  *)
(* token, so a request with a live session is not turned away.             *)
SessionsPass ==
  \A c \in Edge : CredOf[c] = Session /\ session => answer[c] # "forbidden"

-----------------------------------------------------------------------------
(***************************************************************************)
(* The inductive invariant (proved in AccessTokensProofs).                 *)
(***************************************************************************)

HoldInv ==
  \A c \in Callers :
    /\ stage[c] \in {"issued", "sent"} => token[c] # NoToken
    /\ stage[c] \in {"asked", "granted"} => token[c] = NoToken
    /\ c # Bridge /\ stage[c] = "idle" => token[c] = NoToken
    /\ token[c] # NoToken => CredOf[c] \in Keys
    /\ stage[c] = "idle" => timer[c] = 0

(* No token is older, and no key has been over for longer, than the time   *)
(* its request or its cache entry accounts for.                            *)
Accounted(c, n) ==
  /\ InExchange(c) => n <= timer[c]
  /\ stage[c] = "sent" => n + SendTime + Skew < TTL + timer[c]
  /\ c = Bridge /\ ~InExchange(c) => n <= kept + ExchangeTime

AgeInv ==
  \A c \in Callers : token[c] # NoToken => Accounted(c, token[c].age)

GrantInv ==
  /\ \A k \in Keys : keyState[k] # "over" => idleFor[k] = 0
  /\ \A c \in Callers :
       (stage[c] = "granted" /\ CredOf[c] \in Keys) \/ token[c] # NoToken
         => Accounted(c, idleFor[CredOf[c]])

IInv == TypeOK /\ HoldInv /\ AgeInv /\ GrantInv
=============================================================================
