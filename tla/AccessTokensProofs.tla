------------------------- MODULE AccessTokensProofs -------------------------
(***************************************************************************)
(* Proofs about AccessTokens, for every set of keys and edge requests, and *)
(* all times and clock differences the assumptions admit.  IInv accounts   *)
(* for the age of each token, and for how long its key has been over, by   *)
(* the time its request has been in the exchange or under way, or by the   *)
(* age of the bridge's cache entry; the two action properties follow.      *)
(***************************************************************************)
EXTENDS AccessTokens, TLAPS

(* The limits of a request are times. *)
LEMMA LimitNat ==
  \A c : Limit(c) \in Nat
BY TimeAssumption DEF Limit

(* Initially nobody holds a token. *)
LEMMA InitIInv ==
  Init => IInv
<1> SUFFICES ASSUME Init PROVE IInv
  OBVIOUS
<1>1. TypeOK
  BY TimeAssumption, LimitNat DEF TypeOK, Init, Tokens, Cap
<1>2. HoldInv
  BY DEF Init, HoldInv
<1>3. AgeInv /\ GrantInv
  BY DEF Init, AgeInv, GrantInv
<1> QED
  BY <1>1, <1>2, <1>3 DEF IInv

-----------------------------------------------------------------------------
(***************************************************************************)
(* Time: tokens, dead keys, requests and the cache entry age together.     *)
(***************************************************************************)

(* What has been accounted for still is one instant later. *)
LEMMA TickIInv ==
  IInv /\ Tick => IInv'
<1> SUFFICES ASSUME IInv, Tick PROVE IInv'
  OBVIOUS
<1> USE DEF IInv
<1>0. TTL \in Nat /\ TTL > 0 /\ Skew \in Nat /\ SendTime \in Nat /\ ExchangeTime \in Nat
      /\ SendTime + Skew < TTL
  BY TimeAssumption
<1>1. Cap \in Nat /\ Cap > 0
  BY <1>0 DEF Cap
<1>2. \A n \in 0..Cap : Older(n) \in 0..Cap /\ Older(n) <= n + 1 /\ Older(n) > 0
  BY <1>1 DEF Older
<1>3. \A c \in Callers : Limit(c)' = Limit(c) /\ (InExchange(c)' <=> InExchange(c))
  BY DEF Tick, Limit, InExchange
<1>4. \A c \in Callers : token[c] # NoToken =>
        /\ token[c] \in [kid : Kids, perms : {P \in {Scopes[k] : k \in Keys} : P \cap Malformed = {}}, age : 0..Cap]
        /\ token'[c] = [token[c] EXCEPT !.age = Older(@)]
  BY DEF TypeOK, Tokens, Tick
<1>5. \A c \in Callers : token[c] = NoToken => token'[c] = NoToken
  BY DEF Tick
<1>6. \A c \in Callers : token[c] # NoToken =>
        /\ token'[c] \in Tokens /\ token'[c] # NoToken
        /\ token[c].age \in 0..Cap /\ token'[c].age = Older(token[c].age)
  <2> SUFFICES ASSUME NEW c \in Callers, token[c] # NoToken
               PROVE  /\ token'[c] \in Tokens /\ token'[c] # NoToken
                      /\ token[c].age \in 0..Cap /\ token'[c].age = Older(token[c].age)
    OBVIOUS
  <2> DEFINE P == {p \in {Scopes[k] : k \in Keys} : p \cap Malformed = {}}
             T == [kid : Kids, perms : P, age : 0..Cap]
  <2>1. token[c] \in T /\ token'[c] = [token[c] EXCEPT !.age = Older(@)]
    BY <1>4
  <2>2. T \subseteq Tokens
    BY DEF Tokens
  <2> HIDE DEF P
  <2>3. token[c].age \in 0..Cap /\ token'[c].age = Older(token[c].age) /\ token'[c] \in T
    BY <1>2, <2>1
  <2>4. token'[c].age # NoToken.age
    BY <1>2, <2>3 DEF NoToken
  <2> QED
    BY <2>2, <2>3, <2>4
<1>7. TypeOK'
  <2>0. timer' \in [Callers -> Nat]
    BY DEF TypeOK, Tick
  <2>1. idleFor' \in [Keys -> 0..Cap]
    BY <1>1, <1>2 DEF TypeOK, Tick
  <2>2. \A c \in Callers : timer'[c] <= Limit(c)'
    <3> SUFFICES ASSUME NEW c \in Callers PROVE timer'[c] <= Limit(c)'
      OBVIOUS
    <3>1. Limit(c) \in Nat /\ timer[c] \in Nat /\ timer[c] <= Limit(c) /\ Limit(c)' = Limit(c)
      BY <1>3, LimitNat DEF TypeOK
    <3>2. timer'[c] = IF stage[c] = "idle" THEN 0 ELSE timer[c] + 1
      BY DEF Tick
    <3>3. stage[c] # "idle" => timer[c] < Limit(c)
      BY DEF Tick
    <3> QED
      BY <3>1, <3>2, <3>3
  <2>3. token' \in [Callers -> Tokens]
    <3>1. \A c \in Callers : token'[c] \in Tokens
      BY <1>5, <1>6 DEF Tokens
    <3>2. token' = [c \in Callers |-> token'[c]]
      BY DEF Tick
    <3> QED
      BY <3>1, <3>2
  <2>4. kept' \in 0..Cap
    BY <1>1, <1>2 DEF TypeOK, Tick
  <2> QED
    BY <2>0, <2>1, <2>2, <2>3, <2>4 DEF TypeOK, Tick
<1>8. HoldInv'
  BY <1>5, <1>6 DEF HoldInv, Tick
<1>9. \A c \in Callers, n \in 0..Cap, m \in Nat :
        \/ stage[c] = "granted"
        \/ token[c] # NoToken /\ stage[c] \notin {"asked", "granted"}
        => (Accounted(c, n) /\ m <= Older(n) =>
             /\ InExchange(c) => m <= timer'[c]
             /\ stage[c] = "sent" => m + SendTime + Skew < TTL + timer'[c]
             /\ c = Bridge /\ ~InExchange(c) => m <= kept' + ExchangeTime)
  <2> SUFFICES ASSUME NEW c \in Callers, NEW n \in 0..Cap, NEW m \in Nat,
                      \/ stage[c] = "granted"
                      \/ token[c] # NoToken /\ stage[c] \notin {"asked", "granted"},
                      Accounted(c, n), m <= Older(n)
               PROVE  /\ InExchange(c) => m <= timer'[c]
                      /\ stage[c] = "sent" => m + SendTime + Skew < TTL + timer'[c]
                      /\ c = Bridge /\ ~InExchange(c) => m <= kept' + ExchangeTime
    OBVIOUS
  <2>1. m \in Nat /\ n \in Nat /\ m <= n + 1 /\ timer[c] \in Nat /\ kept \in 0..Cap
    BY <1>1, <1>2, LimitNat DEF TypeOK
  <2>2. stage[c] # "idle" => timer'[c] = timer[c] + 1
    BY DEF Tick
  <2>3. InExchange(c) => m <= timer'[c]
    BY <2>1, <2>2 DEF Accounted, InExchange
  <2>4. stage[c] = "sent" => m + SendTime + Skew < TTL + timer'[c]
    BY <1>0, <2>1, <2>2 DEF Accounted
  <2>5. ASSUME c = Bridge, ~InExchange(c) PROVE m <= kept' + ExchangeTime
    <3>1. kept' = Older(kept)
      BY <2>5 DEF Tick, InExchange
    <3>2. n <= kept + ExchangeTime
      BY <2>5 DEF Accounted
    <3> QED
      BY <1>0, <1>1, <2>1, <3>1, <3>2 DEF Older
  <2> QED
    BY <2>3, <2>4, <2>5
<1>10. AgeInv'
  <2> SUFFICES ASSUME NEW c \in Callers, token'[c] # NoToken
               PROVE  Accounted(c, token[c].age)'
    BY DEF AgeInv
  <2>1. token[c] # NoToken /\ stage[c] \notin {"asked", "granted"}
    BY <1>5 DEF HoldInv
  <2>2. Accounted(c, token[c].age)
    BY <2>1 DEF AgeInv
  <2>3. /\ token[c].age \in 0..Cap /\ token'[c].age \in Nat
        /\ token'[c].age <= Older(token[c].age)
    BY <1>1, <1>2, <1>6, <2>1
  <2>4. stage' = stage
    BY DEF Tick
  <2> QED
    BY <1>3, <1>9, <2>1, <2>2, <2>3, <2>4 DEF Accounted
<1>11. GrantInv'
  <2>1. \A k \in Keys : keyState'[k] # "over" => idleFor'[k] = 0
    BY DEF Tick
  <2>2. ASSUME NEW c \in Callers,
               (stage'[c] = "granted" /\ CredOf[c] \in Keys) \/ token'[c] # NoToken
        PROVE  Accounted(c, idleFor[CredOf[c]])'
    <3>1. /\ stage' = stage
          /\ \/ stage[c] = "granted"
             \/ token[c] # NoToken /\ stage[c] \notin {"asked", "granted"}
      BY <1>5, <2>2 DEF HoldInv, Tick
    <3>2. CredOf[c] \in Keys
      BY <1>5, <2>2 DEF HoldInv
    <3>3. Accounted(c, idleFor[CredOf[c]])
      BY <1>5, <2>2, <3>1 DEF GrantInv
    <3>4. idleFor[CredOf[c]] \in 0..Cap /\ idleFor'[CredOf[c]] \in Nat
      BY <1>1, <1>7, <3>2 DEF TypeOK
    <3>5. idleFor'[CredOf[c]] <= Older(idleFor[CredOf[c]])
      BY <1>1, <1>2, <3>2, <3>4 DEF Tick
    <3> QED
      BY <1>3, <1>9, <3>1, <3>3, <3>4, <3>5 DEF Accounted
  <2> QED
    BY <2>1, <2>2 DEF GrantInv
<1> QED
  BY <1>7, <1>8, <1>10, <1>11

-----------------------------------------------------------------------------
(***************************************************************************)
(* The owner and the restarts touch no request.                            *)
(***************************************************************************)

(* Steps that leave requests, tokens and the ages of keys alone. *)
LEMMA QuietIInv ==
  ASSUME IInv, UNCHANGED <<lead, idleFor, tokenVars>>,
         session' \in BOOLEAN, keyState' \in [Keys -> {"absent", "active", "over"}],
         \A k \in Keys : keyState'[k] # "over" => keyState[k] # "over",
         signer' \in Kids, trusted' \subseteq Kids, faults' \in Nat
  PROVE  IInv'
<1> USE DEF IInv, tokenVars
<1>1. TypeOK'
  BY DEF TypeOK, Limit, InExchange
<1>2. HoldInv' /\ AgeInv'
  BY DEF HoldInv, AgeInv, Accounted, InExchange
<1>3. GrantInv'
  BY DEF GrantInv, Accounted, InExchange
<1> QED
  BY <1>1, <1>2, <1>3

(* What the owner does. *)
LEMMA OwnerIInv ==
  IInv /\ Owner => IInv'
<1> SUFFICES ASSUME IInv, Owner PROVE IInv'
  OBVIOUS
<1>1. /\ UNCHANGED <<lead, idleFor, signer, trusted, faults>> /\ UNCHANGED tokenVars
      /\ session' \in BOOLEAN /\ keyState' \in [Keys -> {"absent", "active", "over"}]
      /\ \A k \in Keys : keyState'[k] # "over" => keyState[k] # "over"
  BY DEF IInv, TypeOK, Owner, CreateAPIKey, RevokeAPIKey, ExpireAPIKey, Logout
<1>2. signer \in Kids /\ trusted \subseteq Kids /\ faults \in Nat
  BY DEF IInv, TypeOK
<1> QED
  BY <1>1, <1>2, QuietIInv

(* IAM restarts with another key; Drop restarts and fetches it. *)
LEMMA RestartIInv ==
  IInv /\ (RotateSigner \/ RestartDrop) => IInv'
<1> SUFFICES ASSUME IInv, RotateSigner \/ RestartDrop PROVE IInv'
  OBVIOUS
<1>1. /\ UNCHANGED <<lead, idleFor, keyState, session>> /\ UNCHANGED tokenVars
      /\ signer' \in Kids /\ trusted' \subseteq Kids /\ faults' \in Nat
  BY DEF IInv, TypeOK, RotateSigner, RestartDrop, Fault
<1>2. session \in BOOLEAN /\ keyState \in [Keys -> {"absent", "active", "over"}]
  BY DEF IInv, TypeOK
<1> QED
  BY <1>1, <1>2, QuietIInv

-----------------------------------------------------------------------------
(***************************************************************************)
(* A step of one caller's request.                                         *)
(***************************************************************************)

(* Nobody else's request changes. *)
OnlyOf(c) ==
  /\ stage' \in [Callers -> {"idle", "asked", "granted", "issued", "sent"}]
  /\ timer' \in [Callers -> Nat] /\ token' \in [Callers -> Tokens]
  /\ answer' \in [Callers -> {"none", "unauthenticated", "forbidden", "unusable",
                              "invalid_token", "insufficient", "accepted", "lost"}]
  /\ \A d \in Callers \ {c} :
       stage'[d] = stage[d] /\ timer'[d] = timer[d] /\ token'[d] = token[d]

(* What one caller does touches the cache only when it is the bridge: it   *)
(* is enough to account for that caller.                                   *)
LEMMA CallerIInv ==
  ASSUME IInv, UNCHANGED authority, NEW c \in Callers, OnlyOf(c),
         kept' \in 0..Cap, c # Bridge => kept' = kept, faults' \in Nat,
         timer'[c] <= Limit(c)',
         stage'[c] \in {"issued", "sent"} => token'[c] # NoToken,
         stage'[c] \in {"asked", "granted"} => token'[c] = NoToken,
         c # Bridge /\ stage'[c] = "idle" => token'[c] = NoToken,
         token'[c] # NoToken => CredOf[c] \in Keys,
         stage'[c] = "idle" => timer'[c] = 0,
         token'[c] # NoToken => Accounted(c, token[c].age)',
         (stage'[c] = "granted" /\ CredOf[c] \in Keys) \/ token'[c] # NoToken
           => Accounted(c, idleFor[CredOf[c]])'
  PROVE  IInv'
<1> USE DEF IInv, authority
<1>1. \A d \in Callers \ {c} :
        stage'[d] = stage[d] /\ timer'[d] = timer[d] /\ token'[d] = token[d]
  BY DEF OnlyOf
<1>2. \A d \in Callers \ {c} : Limit(d)' = Limit(d) /\ (InExchange(d)' <=> InExchange(d))
  BY <1>1 DEF Limit, InExchange
<1>3. TypeOK'
  <2>1. timer' \in [Callers -> Nat] /\ \A d \in Callers : timer'[d] <= Limit(d)'
    BY <1>1, <1>2 DEF TypeOK, OnlyOf
  <2> QED
    BY <2>1 DEF TypeOK, OnlyOf
<1>4. HoldInv'
  BY <1>1 DEF HoldInv
<1>5. AgeInv'
  <2> SUFFICES ASSUME NEW d \in Callers, token'[d] # NoToken
               PROVE  Accounted(d, token[d].age)'
    BY DEF AgeInv
  <2>1. CASE d = c
    BY <2>1
  <2>2. CASE d # c
    BY <2>2, <1>1, <1>2 DEF AgeInv, Accounted
  <2> QED
    BY <2>1, <2>2
<1>6. GrantInv'
  <2> SUFFICES ASSUME NEW d \in Callers,
                      (stage'[d] = "granted" /\ CredOf[d] \in Keys) \/ token'[d] # NoToken
               PROVE  Accounted(d, idleFor[CredOf[d]])'
    BY DEF GrantInv
  <2>1. CASE d = c
    BY <2>1
  <2>2. CASE d # c
    BY <2>2, <1>1, <1>2 DEF GrantInv, Accounted
  <2> QED
    BY <2>1, <2>2
<1> QED
  BY <1>3, <1>4, <1>5, <1>6

(* A request begins: with an exchange, or with the fresh token in cache.   *)
LEMMA BeginIInv ==
  ASSUME IInv, NEW c \in Callers, Ask(c) \/ (c = Bridge /\ Reuse)
  PROVE  IInv'
<1> USE DEF IInv
<1>0. /\ stage[c] = "idle" /\ timer[c] = 0 /\ faults' \in Nat
      /\ timer' = [timer EXCEPT ![c] = 0] /\ UNCHANGED authority
      /\ answer' = [answer EXCEPT ![c] = "none"]
  BY DEF Ask, Reuse, Enter, TypeOK, HoldInv
<1>1. 0 \in 0..Cap /\ NoToken \in Tokens /\ Limit(c)' \in Nat
  BY TimeAssumption DEF Cap, Tokens, Limit
<1>2. CASE Ask(c)
  <2>1. /\ stage' = [stage EXCEPT ![c] = "asked"] /\ token' = [token EXCEPT ![c] = NoToken]
        /\ kept' \in 0..Cap /\ (c # Bridge => kept' = kept)
    BY <1>1, <1>2 DEF Ask, Enter, Forget, TypeOK
  <2>2. OnlyOf(c) /\ stage'[c] = "asked" /\ timer'[c] = 0 /\ token'[c] = NoToken
    BY <1>0, <1>1, <2>1 DEF OnlyOf, TypeOK
  <2>3. timer'[c] <= Limit(c)'
    BY <1>1, <2>2
  <2> QED
    BY <1>0, <2>1, <2>2, <2>3, CallerIInv
<1>3. CASE c = Bridge /\ Reuse
  <2>1. /\ stage' = [stage EXCEPT ![c] = "sent"] /\ stage'[c] = "sent"
        /\ timer'[c] = 0 /\ token[c] # NoToken /\ token[c] \in Tokens
        /\ token' = [token EXCEPT ![c] = token[c]]
        /\ kept' = kept /\ kept \in 0..Cap /\ UNCHANGED idleFor
    BY <1>0, <1>3 DEF Reuse, Enter, Fresh, TypeOK, authority
  <2>2. kept + Margin < TTL /\ ~InExchange(c)
    BY <1>0, <1>3 DEF Reuse, Fresh, InExchange
  <2>3. CredOf[c] \in Keys
    BY <2>1 DEF HoldInv
  <2>4. token[c].age \in Nat /\ idleFor[CredOf[c]] \in Nat
    <3>1. token[c].age \in 0..Cap
      BY <2>1 DEF Tokens
    <3> QED
      BY <1>1, <2>3, <3>1, TimeAssumption DEF TypeOK, Cap
  <2>5. \A m \in Nat : Accounted(c, m) => m + SendTime + Skew < TTL /\ m <= kept + ExchangeTime
    BY <1>3, <2>1, <2>2, TimeAssumption DEF Accounted, Cap
  <2>6. Accounted(c, token[c].age) /\ Accounted(c, idleFor[CredOf[c]])
    BY <2>1 DEF AgeInv, GrantInv
  <2>7. Accounted(c, token[c].age)' /\ Accounted(c, idleFor[CredOf[c]])'
    <3>1. /\ token'[c].age = token[c].age /\ idleFor'[CredOf[c]] = idleFor[CredOf[c]]
          /\ TTL + timer'[c] = TTL /\ ~InExchange(c)' /\ kept' = kept
      BY <2>1, TimeAssumption DEF InExchange
    <3> QED
      BY <2>4, <2>5, <2>6, <3>1 DEF Accounted
  <2>8. OnlyOf(c) /\ token'[c] = token[c]
    BY <1>0, <2>1 DEF OnlyOf, TypeOK
  <2>9. timer'[c] <= Limit(c)'
    BY <1>1, <2>1
  <2> QED
    BY <1>0, <2>1, <2>3, <2>7, <2>8, <2>9, CallerIInv
<1> QED
  BY <1>2, <1>3

(* IAM looks at the credential, then signs: a key that is good now has     *)
(* been over for no time at all, and the token is new.                     *)
LEMMA ExchangeIInv ==
  ASSUME IInv, NEW c \in Callers, Authenticate(c) \/ Issue(c)
  PROVE  IInv'
<1> USE DEF IInv
<1>0. /\ stage[c] \in {"asked", "granted"} /\ token[c] = NoToken /\ faults' \in Nat
      /\ timer[c] \in Nat /\ timer[c] <= Limit(c) /\ kept' = kept /\ kept \in 0..Cap
      /\ UNCHANGED authority
  BY DEF Authenticate, Issue, TypeOK, HoldInv
<1>1. NoToken \in Tokens /\ Limit(c)' \in Nat
  BY LimitNat, TimeAssumption DEF Tokens, Limit
<1>2. CASE Authenticate(c) /\ Authentic(c)
  <2>1. /\ stage' = [stage EXCEPT ![c] = "granted"] /\ stage'[c] = "granted"
        /\ timer' = [timer EXCEPT ![c] = timer[c]] /\ timer'[c] = timer[c]
        /\ token' = [token EXCEPT ![c] = NoToken]
        /\ answer' = [answer EXCEPT ![c] = "none"]
    BY <1>0, <1>2 DEF Authenticate, Enter, TypeOK
  <2>2. Limit(c)' = Limit(c)
    BY <1>2, <2>1 DEF Limit, InExchange, Authenticate
  <2>3. CredOf[c] \in Keys => Accounted(c, idleFor[CredOf[c]])'
    BY <1>0, <1>2, <2>1, CredentialAssumption
       DEF Authentic, Accounted, InExchange, GrantInv, authority
  <2>4. OnlyOf(c) /\ token'[c] = NoToken
    BY <1>0, <1>1, <2>1 DEF OnlyOf, TypeOK
  <2>5. timer'[c] <= Limit(c)'
    BY <1>0, <2>1, <2>2
  <2> QED
    BY <1>0, <2>1, <2>3, <2>4, <2>5, CallerIInv
<1>3. CASE Issue(c) /\ Signable(Granted(c))
  <2> DEFINE t == [kid |-> signer, perms |-> Granted(c), age |-> 0]
  <2>1. /\ stage' = [stage EXCEPT ![c] = "issued"] /\ stage'[c] = "issued"
        /\ timer' = [timer EXCEPT ![c] = timer[c]] /\ timer'[c] = timer[c]
        /\ token' = [token EXCEPT ![c] = t] /\ token'[c] = t
        /\ answer' = [answer EXCEPT ![c] = "none"] /\ stage[c] = "granted"
    BY <1>0, <1>3 DEF Issue, Enter, TypeOK
  <2>2. Limit(c)' = Limit(c)
    BY <2>1 DEF Limit, InExchange
  <2>3. CredOf[c] \in Keys
    BY <1>3, CredentialAssumption DEF Signable, Granted
  <2>4. t \in Tokens /\ t # NoToken
    <3>1. t.perms # {} /\ NoToken.perms = {}
      BY <1>3 DEF Signable, NoToken
    <3>2. Granted(c) \in {P \in {Scopes[k] : k \in Keys} : P \cap Malformed = {}}
      BY <1>3, <2>3, CredentialAssumption DEF Signable, Granted
    <3>3. 0 \in 0..Cap /\ signer \in Kids
      BY TimeAssumption DEF Cap, TypeOK
    <3> QED
      BY <3>1, <3>2, <3>3 DEF Tokens
  <2>5. Accounted(c, idleFor[CredOf[c]])
    BY <2>1, <2>3 DEF GrantInv
  <2>6. Accounted(c, idleFor[CredOf[c]])' /\ Accounted(c, token[c].age)'
    BY <1>0, <2>1, <2>5 DEF Accounted, InExchange, authority
  <2> HIDE DEF t
  <2>7. OnlyOf(c)
    BY <1>0, <2>1, <2>4 DEF OnlyOf, TypeOK
  <2>8. timer'[c] <= Limit(c)'
    BY <1>0, <2>1, <2>2
  <2> QED
    BY <1>0, <2>1, <2>3, <2>4, <2>6, <2>7, <2>8, CallerIInv
<1>4. CASE \/ Authenticate(c) /\ ~Authentic(c)
           \/ Issue(c) /\ ~Signable(Granted(c))
  <2>1. PICK a \in {"unauthenticated", "forbidden"} :
          /\ stage' = [stage EXCEPT ![c] = "idle"] /\ timer' = [timer EXCEPT ![c] = 0]
          /\ answer' = [answer EXCEPT ![c] = a]
    BY <1>4 DEF Authenticate, Issue, End
  <2>2. token' = [token EXCEPT ![c] = NoToken]
    BY <1>0, <1>4 DEF Authenticate, Issue, TypeOK
  <2>3. OnlyOf(c) /\ stage'[c] = "idle" /\ timer'[c] = 0 /\ token'[c] = NoToken
    BY <1>0, <1>1, <2>1, <2>2 DEF OnlyOf, TypeOK
  <2>4. timer'[c] <= Limit(c)'
    BY <1>1, <2>3
  <2> QED
    BY <1>0, <2>3, <2>4, CallerIInv
<1> QED
  BY <1>2, <1>3, <1>4

(* A request ends; the bridge may keep its token when the service had it.  *)
LEMMA EndIInv ==
  ASSUME IInv, NEW c \in Callers, UNCHANGED authority, faults' \in Nat,
         NEW what \in {"unauthenticated", "forbidden", "unusable",
                       "invalid_token", "insufficient", "accepted", "lost"},
         End(c, what),
         Forget(c) \/ (c = Bridge /\ stage[c] = "sent" /\ UNCHANGED <<token, kept>>)
  PROVE  IInv'
<1> USE DEF IInv
<1>1. /\ stage' = [stage EXCEPT ![c] = "idle"] /\ stage'[c] = "idle"
      /\ timer' = [timer EXCEPT ![c] = 0] /\ answer' = [answer EXCEPT ![c] = what]
      /\ timer'[c] = 0 /\ timer'[c] <= Limit(c)' /\ 0 \in 0..Cap /\ NoToken \in Tokens
  BY TimeAssumption DEF End, Limit, Cap, Tokens, TypeOK
<1>2. CASE Forget(c)
  <2>1. /\ token' = [token EXCEPT ![c] = NoToken]
        /\ kept' \in 0..Cap /\ (c # Bridge => kept' = kept)
    BY <1>1, <1>2 DEF Forget, TypeOK
  <2>2. OnlyOf(c) /\ token'[c] = NoToken
    BY <1>1, <2>1 DEF OnlyOf, TypeOK
  <2> QED
    BY <1>1, <2>1, <2>2, CallerIInv
<1>3. CASE c = Bridge /\ stage[c] = "sent" /\ UNCHANGED <<token, kept>>
  <2>1. /\ token' = [token EXCEPT ![c] = token[c]] /\ token[c] \in Tokens
        /\ token[c] # NoToken /\ kept' = kept /\ kept \in 0..Cap
    BY <1>3 DEF TypeOK, HoldInv
  <2>2. CredOf[c] \in Keys
    BY <2>1 DEF HoldInv
  <2>3. Accounted(c, token[c].age) /\ Accounted(c, idleFor[CredOf[c]])
    BY <2>1 DEF AgeInv, GrantInv
  <2>4. Accounted(c, token[c].age)' /\ Accounted(c, idleFor[CredOf[c]])'
    BY <1>1, <1>3, <2>3 DEF Accounted, InExchange, authority
  <2>5. OnlyOf(c)
    BY <1>1, <2>1 DEF OnlyOf, TypeOK
  <2> QED
    BY <1>1, <1>3, <2>1, <2>2, <2>4, <2>5, CallerIInv
<1> QED
  BY <1>2, <1>3

(* The token arrives: it took less than the exchange may take.             *)
LEMMA ReceiveIInv ==
  ASSUME IInv, NEW c \in Callers, Receive(c)
  PROVE  IInv'
<1> USE DEF IInv
<1>1. stage[c] = "issued" /\ UNCHANGED authority /\ faults' \in Nat
  BY DEF Receive, TypeOK
<1>2. CASE c = Bridge /\ Create \notin token[c].perms
  BY <1>1, <1>2, EndIInv DEF Receive
<1>3. CASE ~(c = Bridge /\ Create \notin token[c].perms)
  <2>1. /\ stage' = [stage EXCEPT ![c] = "sent"] /\ stage'[c] = "sent"
        /\ timer' = [timer EXCEPT ![c] = 0] /\ timer'[c] = 0
        /\ answer' = [answer EXCEPT ![c] = "none"]
        /\ token' = [token EXCEPT ![c] = token[c]] /\ token'[c] = token[c]
        /\ token[c] \in Tokens /\ token[c] # NoToken /\ kept' = kept /\ kept \in 0..Cap
    BY <1>1, <1>3 DEF Receive, Enter, TypeOK, HoldInv
  <2>2. CredOf[c] \in Keys /\ timer'[c] <= Limit(c)'
    BY <2>1, LimitNat, TimeAssumption DEF HoldInv, Limit
  <2>3. token[c].age \in Nat /\ idleFor[CredOf[c]] \in Nat
    <3>1. token[c].age \in 0..Cap
      BY <2>1 DEF Tokens
    <3> QED
      BY <2>2, <3>1, TimeAssumption DEF TypeOK, Cap
  <2>4. Accounted(c, token[c].age) /\ Accounted(c, idleFor[CredOf[c]])
    BY <2>1 DEF AgeInv, GrantInv
  <2>5. timer[c] \in Nat /\ timer[c] <= IF c = Bridge THEN ExchangeTime ELSE HandlerTime
    BY <1>1 DEF TypeOK, Limit, InExchange
  <2>6. \A m \in Nat : Accounted(c, m) =>
          m + SendTime + Skew < TTL /\ (c = Bridge => m <= kept + ExchangeTime)
    BY <1>1, <2>1, <2>5, TimeAssumption DEF Accounted, InExchange, Cap
  <2>7. Accounted(c, token[c].age)' /\ Accounted(c, idleFor[CredOf[c]])'
    <3>1. /\ idleFor'[CredOf[c]] = idleFor[CredOf[c]]
          /\ TTL + timer'[c] = TTL /\ ~InExchange(c)'
      BY <1>1, <2>1, TimeAssumption DEF InExchange, authority
    <3> QED
      BY <2>1, <2>3, <2>4, <2>6, <3>1 DEF Accounted
  <2>8. OnlyOf(c)
    BY <2>1 DEF OnlyOf, TypeOK
  <2> QED
    BY <1>1, <2>1, <2>2, <2>7, <2>8, CallerIInv
<1> QED
  BY <1>2, <1>3

(* Drop answers. *)
LEMMA VerifyIInv ==
  ASSUME IInv, NEW c \in Callers, Verify(c)
  PROVE  IInv'
<1>1. UNCHANGED authority /\ faults' \in Nat
  BY DEF Verify, IInv, TypeOK
<1>2. PICK what \in {"invalid_token", "insufficient", "accepted"} : End(c, what)
  BY DEF Verify
<1>3. Forget(c) \/ (c = Bridge /\ stage[c] = "sent" /\ UNCHANGED <<token, kept>>)
  BY DEF Verify
<1> QED
  BY <1>1, <1>2, <1>3, EndIInv

(* A call is lost. *)
LEMMA LoseIInv ==
  ASSUME IInv, NEW c \in Callers, Lose(c)
  PROVE  IInv'
<1>1. UNCHANGED authority /\ faults' \in Nat
  BY DEF Lose, Fault, IInv, TypeOK
<1>2. End(c, "lost")
  BY DEF Lose
<1>3. Forget(c) \/ (c = Bridge /\ stage[c] = "sent" /\ UNCHANGED <<token, kept>>)
  BY DEF Lose, InExchange, IInv, TypeOK
<1> QED
  BY <1>1, <1>2, <1>3, EndIInv

-----------------------------------------------------------------------------

(* Every step preserves the inductive invariant. *)
LEMMA NextIInv ==
  IInv /\ [Next]_vars => IInv'
<1> SUFFICES ASSUME IInv, [Next]_vars PROVE IInv'
  OBVIOUS
<1>1. CASE Tick
  BY <1>1, TickIInv
<1>2. CASE Owner
  BY <1>2, OwnerIInv
<1>3. ASSUME NEW c \in Callers, Ask(c) PROVE IInv'
  BY <1>3, BeginIInv
<1>4. ASSUME NEW c \in Callers, Progress(c) PROVE IInv'
  BY <1>4, ExchangeIInv, ReceiveIInv, VerifyIInv DEF Progress
<1>5. ASSUME NEW c \in Callers, Lose(c) PROVE IInv'
  BY <1>5, LoseIInv
<1>6. CASE Reuse
  <2>1. Bridge \in Callers
    BY DEF Callers
  <2> QED
    BY <1>6, <2>1, BeginIInv
<1>7. CASE RotateSigner \/ RestartDrop
  BY <1>7, RestartIInv
<1>8. CASE UNCHANGED vars
  <2>1. /\ UNCHANGED <<lead, idleFor, keyState, session, signer, trusted, faults>>
        /\ UNCHANGED tokenVars
    BY <1>8 DEF vars, authority
  <2>2. /\ session \in BOOLEAN /\ keyState \in [Keys -> {"absent", "active", "over"}]
        /\ signer \in Kids /\ trusted \subseteq Kids /\ faults \in Nat
    BY DEF IInv, TypeOK
  <2> QED
    BY <2>1, <2>2, QuietIInv
<1> QED
  BY <1>1, <1>2, <1>3, <1>4, <1>5, <1>6, <1>7, <1>8 DEF Next

(* IInv holds in every reachable state. *)
THEOREM Invariance ==
  Spec => []IInv
<1>1. Init => IInv
  BY InitIInv
<1>2. IInv /\ [Next]_vars => IInv'
  BY NextIInv
<1> QED
  BY <1>1, <1>2, PTL DEF Spec

(* The state is well formed, and no token carries a refused permission.    *)
THEOREM TypeCorrect ==
  Spec => []TypeOK
<1>1. IInv => TypeOK
  BY DEF IInv
<1> QED
  BY <1>1, Invariance, PTL

-----------------------------------------------------------------------------

(* A token that is under way is younger, and its key has been over for     *)
(* less, than the clocks' difference short of a token's life.              *)
LEMMA UnderWay ==
  ASSUME IInv, NEW c \in Callers, stage[c] = "sent"
  PROVE  /\ token[c].age \in Nat /\ token[c].age + Skew < TTL
         /\ idleFor[CredOf[c]] \in Nat /\ idleFor[CredOf[c]] + Skew < TTL
<1> USE DEF IInv
<1>1. token[c] # NoToken /\ token[c] \in Tokens /\ CredOf[c] \in Keys
  BY DEF TypeOK, HoldInv
<1>2. Accounted(c, token[c].age) /\ Accounted(c, idleFor[CredOf[c]])
  BY <1>1 DEF AgeInv, GrantInv
<1>3. timer[c] \in Nat /\ timer[c] <= SendTime
  BY DEF TypeOK, Limit, InExchange
<1>4. token[c].age \in 0..Cap
  BY <1>1 DEF Tokens
<1>5. \A m \in 0..Cap : Accounted(c, m) => m \in Nat /\ m + Skew < TTL
  BY <1>3, TimeAssumption DEF Accounted, Cap
<1>6. idleFor[CredOf[c]] \in 0..Cap
  BY <1>1 DEF TypeOK
<1> QED
  BY <1>2, <1>4, <1>5, <1>6

(* Only Verify tells a caller that its token is not valid. *)
LEMMA WhoRefuses ==
  ASSUME TypeOK, [Next]_vars, NEW c \in Callers, Answered(c, "invalid_token")
  PROVE  Verify(c)
<1> USE DEF Answered, TypeOK
<1>1. ~Tick /\ ~Owner /\ ~RotateSigner /\ ~RestartDrop /\ ~UNCHANGED vars
  BY DEF Tick, Owner, CreateAPIKey, RevokeAPIKey, ExpireAPIKey, Logout, RotateSigner,
         RestartDrop, tokenVars, vars
<1>2. ~Reuse
  BY DEF Reuse, Enter
<1>3. \A d \in Callers : ~Ask(d) /\ ~Authenticate(d) /\ ~Issue(d) /\ ~Receive(d) /\ ~Lose(d)
  BY DEF Ask, Authenticate, Issue, Receive, Lose, Enter, End
<1>4. \A d \in Callers : Verify(d) => d = c
  BY DEF Verify, End
<1> QED
  BY <1>1, <1>2, <1>3, <1>4 DEF Next, Progress

(* A revoked or expired key is accepted for less than one token's life.    *)
THEOREM RevocationTakesHold ==
  Spec => GrantInTime
<1>1. IInv /\ [Next]_vars =>
        [\A c \in Callers : Answered(c, "accepted") => idleFor[CredOf[c]] < TTL]_vars
  <2>1. ASSUME IInv, NEW c \in Callers, Answered(c, "accepted")
        PROVE  idleFor[CredOf[c]] < TTL
    BY <2>1, UnderWay, TimeAssumption DEF Answered
  <2> QED
    BY <2>1
<1> QED
  BY <1>1, Invariance, PTL DEF Spec, GrantInTime

(* A token of a known signing key is never refused for its age.            *)
THEOREM ArrivesFresh ==
  Spec => FreshOnArrival
<1>1. IInv /\ [Next]_vars =>
        [\A c \in Callers : Answered(c, "invalid_token") => token[c].kid \notin trusted]_vars
  <2>1. ASSUME IInv, [Next]_vars, NEW c \in Callers, Answered(c, "invalid_token")
        PROVE  token[c].kid \notin trusted
    <3>1. Verify(c) /\ stage[c] = "sent"
      BY <2>1, WhoRefuses DEF IInv, Answered
    <3>2. ~Acceptable(token[c])
      BY <2>1, <3>1 DEF Verify, End, Answered, IInv, TypeOK
    <3>3. lead \in Int /\ -Skew <= lead /\ lead <= ClockSkew
      BY <2>1, TimeAssumption DEF IInv, TypeOK
    <3>4. token[c].age \in Nat /\ token[c].age + Skew < TTL
      BY <2>1, <3>1, UnderWay
    <3>5. token[c].age < TTL + lead /\ lead <= token[c].age + ClockSkew
      BY <3>3, <3>4, TimeAssumption
    <3> QED
      BY <3>2, <3>5 DEF Acceptable
  <2> QED
    BY <2>1
<1> QED
  BY <1>1, Invariance, PTL DEF Spec, FreshOnArrival
=============================================================================
