-------------------------- MODULE BridgedDropProofs --------------------------
(***************************************************************************)
(* Theorems about BridgedDrop.                                             *)
(***************************************************************************)
EXTENDS BridgedDrop, TLAPS

BP == INSTANCE TelegramBridgeProofs WITH shelf <- [m \in Updates |-> View(m)]

LEMMA BPAssumption == BP!UpdateAssumption
  BY BridgedAssumption DEF Updates, BP!UpdateAssumption, BP!Kinds, BP!Updates

LEMMA SameInit == Bridge!Init <=> BP!Init
  BY DEF Bridge!Init, Bridge!Updates, Bridge!vars, Bridge!bridgeVars,
         Bridge!dropVars, BP!Init, BP!Updates, BP!vars, BP!bridgeVars,
         BP!dropVars

LEMMA SameNext == Bridge!Next <=> BP!Next
  BY DEF Bridge!Send, Bridge!Start, Bridge!Poll, Bridge!Confirm,
         Bridge!Batch, Bridge!Done, Bridge!Retry, Bridge!GoTo,
         Bridge!Dispatch, Bridge!Fetch, Bridge!StoreItem, Bridge!Create,
         Bridge!CreateGone, Bridge!Reply, Bridge!ServeOrphan, Bridge!Expire,
         Bridge!Revive, Bridge!Remove, Bridge!Fault, Bridge!Orphan,
         Bridge!PollLost, Bridge!CallFails, Bridge!Crash, Bridge!BridgeStep,
         Bridge!DropStep, Bridge!Next, Bridge!vars, Bridge!bridgeVars,
         Bridge!dropVars, Bridge!Updates, Bridge!Forwarded, BP!Send,
         BP!Start, BP!Poll, BP!Confirm, BP!Batch, BP!Done, BP!Retry,
         BP!GoTo, BP!Dispatch, BP!Fetch, BP!StoreItem, BP!Create,
         BP!CreateGone, BP!Reply, BP!ServeOrphan, BP!Expire, BP!Revive,
         BP!Remove, BP!Fault, BP!Orphan, BP!PollLost, BP!CallFails,
         BP!Crash, BP!BridgeStep, BP!DropStep, BP!Next, BP!vars,
         BP!bridgeVars, BP!dropVars, BP!Updates, BP!Forwarded

LEMMA SameStep == [Bridge!Next]_(Bridge!vars) <=> [BP!Next]_(BP!vars)
  BY SameNext DEF Bridge!vars, Bridge!bridgeVars, Bridge!dropVars, BP!vars, BP!bridgeVars, BP!dropVars

LEMMA SameSpec == Bridge!Spec <=> BP!Spec
  BY SameInit, SameStep, PTL DEF Bridge!Spec, BP!Spec

-----------------------------------------------------------------------------
(* What a step of Drop does to its table and to what the bridge sees of it. *)

USE BridgedAssumption

LEMMA PostFacts ==
  ASSUME KeyInv, NEW i \in Items, Drop!Post(i)
  PROVE  /\ KeyInv'
         /\ i \notin DOMAIN shelf
         /\ KeyOf[i] \in Keys => keys[KeyOf[i]] = NoItem
         /\ KeyOf[i] \in Keys => keys'[KeyOf[i]] = i
         /\ \A k \in Keys : k # KeyOf[i] => keys'[k] = keys[k]
         /\ \A j \in DOMAIN shelf : shelf'[j] = shelf[j]
         /\ clock' = clock
<1>1. PICK e \in Drop!Expiries :
        shelf' = [j \in DOMAIN shelf \cup {i} |-> IF j = i THEN e ELSE shelf[j]]
  BY DEF Drop!Post
<1>2. /\ i \notin DOMAIN shelf /\ clock' = clock
      /\ keys' = [k \in Keys |-> IF k = KeyOf[i] THEN i ELSE keys[k]]
      /\ KeyOf[i] # NoKey => keys[KeyOf[i]] = NoItem
  BY DEF Drop!Post
<1>3. e \in Nat
  BY DEF KeyInv, Drop!Expiries
<1>4. DOMAIN shelf' = DOMAIN shelf \cup {i}
  BY <1>1
<1>5. shelf' \in [DOMAIN shelf' -> Nat] /\ \A j \in DOMAIN shelf : shelf'[j] = shelf[j]
  BY <1>1, <1>2, <1>3 DEF KeyInv
<1>6. keys' \in [Keys -> DOMAIN shelf' \cup {NoItem}]
  BY <1>2, <1>4 DEF KeyInv
<1>7. \A k \in Keys : keys'[k] # NoItem => KeyOf[keys'[k]] = k
  BY <1>2 DEF KeyInv
<1>8. ASSUME NEW j \in DOMAIN shelf', KeyOf[j] \in Keys
      PROVE  keys'[KeyOf[j]] = j
  <2>1. CASE j = i
    BY <1>2, <1>8, <2>1
  <2>2. CASE j # i
    BY <1>2, <1>4, <1>8, <2>2 DEF KeyInv
  <2>3. QED
    BY <2>1, <2>2
<1>9. KeyInv'
  BY <1>2, <1>4, <1>5, <1>6, <1>7, <1>8 DEF KeyInv
<1>10. QED
  BY <1>2, <1>5, <1>9

LEMMA RemoveFacts ==
  ASSUME KeyInv, NEW i \in Items, Drop!Remove(i)
  PROVE  /\ KeyInv'
         /\ i \in DOMAIN shelf /\ clock' = clock
         /\ keys' = [k \in Keys |-> IF keys[k] = i THEN NoItem ELSE keys[k]]
         /\ \A j \in DOMAIN shelf : j # i => shelf'[j] = shelf[j]
<1>1. /\ i \in DOMAIN shelf /\ clock' = clock
      /\ shelf' = [j \in DOMAIN shelf \ {i} |-> shelf[j]]
      /\ keys' = [k \in Keys |-> IF keys[k] = i THEN NoItem ELSE keys[k]]
  BY DEF Drop!Remove
<1>2. DOMAIN shelf' = DOMAIN shelf \ {i} /\ \A j \in DOMAIN shelf : j # i => shelf'[j] = shelf[j]
  BY <1>1
<1>3. shelf' \in [DOMAIN shelf' -> Nat]
  BY <1>1, <1>2 DEF KeyInv
<1>4. keys' \in [Keys -> DOMAIN shelf' \cup {NoItem}]
  BY <1>1, <1>2 DEF KeyInv
<1>5. \A k \in Keys : keys'[k] # NoItem => KeyOf[keys'[k]] = k
  BY <1>1 DEF KeyInv
<1>6. \A j \in DOMAIN shelf' : KeyOf[j] \in Keys => keys'[KeyOf[j]] = j
  BY <1>1, <1>2 DEF KeyInv
<1>7. KeyInv'
  BY <1>1, <1>2, <1>3, <1>4, <1>5, <1>6 DEF KeyInv
<1>8. QED
  BY <1>1, <1>2, <1>7

LEMMA ExtendFacts ==
  ASSUME KeyInv, NEW i \in Items, Drop!Extend(i)
  PROVE  /\ KeyInv' /\ keys' = keys /\ clock' = clock
         /\ \A j \in DOMAIN shelf : j # i => shelf'[j] = shelf[j]
<1>1. PICK e \in Drop!Expiries : shelf' = [shelf EXCEPT ![i] = e]
  BY DEF Drop!Extend
<1>2. e \in Nat
  BY DEF KeyInv, Drop!Expiries
<1>3. /\ i \in DOMAIN shelf /\ keys' = keys /\ clock' = clock
      /\ DOMAIN shelf' = DOMAIN shelf /\ shelf' \in [DOMAIN shelf -> Nat]
      /\ \A j \in DOMAIN shelf : j # i => shelf'[j] = shelf[j]
  BY <1>1, <1>2 DEF KeyInv, Drop!Extend
<1>4. KeyInv'
  BY <1>3 DEF KeyInv
<1>5. QED
  BY <1>3, <1>4

LEMMA TickFacts ==
  ASSUME KeyInv, Drop!Tick
  PROVE  KeyInv' /\ shelf' = shelf /\ keys' = keys /\ clock' = clock + 1
  BY DEF KeyInv, Drop!Tick

-----------------------------------------------------------------------------
(* The bridge's view of Drop.                                              *)

LEMMA ViewFacts ==
  ASSUME KeyInv, NEW m \in Updates
  PROVE  /\ View(m) \in {"none", "live", "expired"}
         /\ View(m) = "none" <=> Holder(m) = NoItem
         /\ Holder(m) # NoItem => Holder(m) \in DOMAIN shelf /\ KeyOf[Holder(m)] = KeyFor[m]
         /\ KeyFor[m] \in Keys /\ KeyFor[m] # NoKey
  BY DEF KeyInv, View, Holder

(* The view of a message changes only with its key, its holder or time.    *)
LEMMA ViewStays ==
  ASSUME KeyInv, NEW m \in Updates, Holder(m)' = Holder(m), clock' = clock,
         Holder(m) # NoItem => shelf'[Holder(m)] = shelf[Holder(m)]
  PROVE  View(m)' = View(m)
  BY DEF View, Holder

LEMMA ServeStores ==
  ASSUME KeyInv, NEW m \in Updates, Serve(m)
  PROVE  KeyInv' /\ Bridge!StoreItem(m) /\ [Drop!Next]_(Drop!specVars)
<1>1. CASE Holder(m) = NoItem
  <2>1. PICK i \in Items : KeyOf[i] = KeyFor[m] /\ Drop!Post(i)
    BY <1>1 DEF Serve
  <2>2. /\ KeyInv' /\ KeyFor[m] \in Keys /\ i \notin DOMAIN shelf
        /\ keys'[KeyFor[m]] = i
        /\ \A k \in Keys : k # KeyFor[m] => keys'[k] = keys[k]
        /\ \A j \in DOMAIN shelf : shelf'[j] = shelf[j]
        /\ clock' = clock
    <3>1. KeyFor[m] \in Keys
      BY ViewFacts
    <3>2. QED
      BY <2>1, <3>1, PostFacts
  <2>3. View(m)' \in {"live", "expired"}
    BY <2>1, <2>2 DEF View, Holder
  <2>4. ASSUME NEW n \in Updates, n # m
        PROVE  View(n)' = View(n)
    <3>1. KeyFor[n] \in Keys /\ KeyFor[n] # KeyFor[m]
      BY <2>4
    <3>2. Holder(n)' = Holder(n)
      BY <2>2, <3>1 DEF Holder
    <3>3. Holder(n) # NoItem => Holder(n) \in DOMAIN shelf
      BY ViewFacts
    <3>4. QED
      BY <2>2, <3>2, <3>3, ViewStays
  <2>5. [n \in Updates |-> View(n)'] = [[n \in Updates |-> View(n)] EXCEPT ![m] = View(m)']
    BY <2>4
  <2>6. [n \in Updates |-> View(n)][m] = "none"
    BY <1>1, ViewFacts
  <2>7. made' = [made EXCEPT ![m] = @ + 1]
    BY <1>1 DEF Serve
  <2>8. Bridge!StoreItem(m)
    BY <2>3, <2>5, <2>6, <2>7, Zenon DEF Bridge!StoreItem
  <2>9. Drop!Next
    BY <2>1 DEF Drop!Next
  <2>10. QED
    BY <2>2, <2>8, <2>9
<1>2. CASE Holder(m) # NoItem
  <2>1. UNCHANGED <<shelf, keys, late, clock, made>>
    BY <1>2 DEF Serve, dropVars
  <2>2. KeyInv' /\ \A n \in Updates : View(n)' = View(n)
    BY <2>1 DEF KeyInv, View, Holder
  <2>3. [n \in Updates |-> View(n)]' = [n \in Updates |-> View(n)]
    BY <2>2
  <2>4. [n \in Updates |-> View(n)][m] # "none"
    BY <1>2, ViewFacts
  <2>5. Bridge!StoreItem(m)
    BY <2>1, <2>3, <2>4 DEF Bridge!StoreItem
  <2>6. QED
    BY <2>1, <2>2, <2>5 DEF Drop!specVars
<1>3. QED
  BY <1>1, <1>2

LEMMA UnseenStays ==
  ASSUME UNCHANGED dropVars
  PROVE  /\ KeyInv => KeyInv'
         /\ [n \in Updates |-> View(n)]' = [n \in Updates |-> View(n)]
         /\ UNCHANGED Drop!specVars
<1>1. UNCHANGED <<shelf, keys, late, clock>>
  BY DEF dropVars
<1>2. \A n \in Updates : View(n)' = View(n)
  BY <1>1 DEF View, Holder
<1>3. QED
  BY <1>1, <1>2 DEF KeyInv, Drop!specVars

-----------------------------------------------------------------------------
(* Every step of the composition is a step of both parts, or none of one.  *)

LEMMA InstanceVars ==
  ASSUME UNCHANGED bridgeVars, [n \in Updates |-> View(n)]' = [n \in Updates |-> View(n)]
  PROVE  UNCHANGED Bridge!vars
  BY DEF bridgeVars, Bridge!vars, Bridge!bridgeVars, Bridge!dropVars

(* A change of the view of one message alone. *)
LEMMA OneView ==
  ASSUME NEW m \in Updates, \A n \in Updates : n # m => View(n)' = View(n)
  PROVE  [n \in Updates |-> View(n)]' = [[n \in Updates |-> View(n)] EXCEPT ![m] = View(m)']
  OBVIOUS

LEMMA SeenStep ==
  ASSUME Bridge!DropStep
  PROVE  [Bridge!Next]_(Bridge!vars)
  BY DEF Bridge!Next

LEMMA ExpireStep ==
  ASSUME NEW gone \in SUBSET Updates, UNCHANGED bridgeVars,
         \A m \in gone : View(m) = "live" /\ View(m)' = "expired",
         \A m \in Updates \ gone : View(m)' = View(m)
  PROVE  Bridge!DropStep
<1>1. [n \in Updates |-> View(n)]' =
        [n \in Updates |-> IF n \in gone THEN "expired" ELSE [k \in Updates |-> View(k)][n]]
  OBVIOUS
<1>2. \A m \in gone : [n \in Updates |-> View(n)][m] = "live"
  OBVIOUS
<1>3. Bridge!Expire(gone)
  BY <1>1, <1>2 DEF Bridge!Expire, Bridge!Updates, Updates, Bridge!bridgeVars, bridgeVars
<1>4. QED
  BY <1>3 DEF Bridge!DropStep, Bridge!Updates, Updates

LEMMA CreateStep ==
  ASSUME KeyInv, BP!IInv, Create
  PROVE  KeyInv' /\ [Bridge!Next]_(Bridge!vars) /\ [Drop!Next]_(Drop!specVars)
<1>1. next \in Updates
  BY BP!InHand, BPAssumption DEF Create, BP!Updates, Updates
<1>2. KeyInv' /\ Bridge!StoreItem(next) /\ [Drop!Next]_(Drop!specVars)
  BY <1>1, ServeStores DEF Create
<1>3. [n \in Updates |-> View(n)][next] # "expired"
  BY <1>1 DEF Create
<1>4. Bridge!Create
  BY <1>2, <1>3 DEF Create, Bridge!Create
<1>5. QED
  BY <1>2, <1>4 DEF Bridge!Next, Bridge!BridgeStep

LEMMA OrphanStep ==
  ASSUME KeyInv, NEW m \in Updates, ServeOrphan(m)
  PROVE  KeyInv' /\ [Bridge!Next]_(Bridge!vars) /\ [Drop!Next]_(Drop!specVars)
<1>1. CASE Serve(m)
  <2>1. KeyInv' /\ Bridge!StoreItem(m) /\ [Drop!Next]_(Drop!specVars)
    BY <1>1, ServeStores
  <2>2. Bridge!ServeOrphan(m)
    BY <2>1 DEF ServeOrphan, Bridge!ServeOrphan, Bridge!bridgeVars
  <2>3. QED
    BY <2>1, <2>2, SeenStep DEF Bridge!DropStep, Bridge!Updates, Updates
<1>2. CASE UNCHANGED <<dropVars, made>>
  <2>1. /\ KeyInv' /\ UNCHANGED Drop!specVars
        /\ [n \in Updates |-> View(n)]' = [n \in Updates |-> View(n)]
    BY <1>2, UnseenStays
  <2>2. Bridge!ServeOrphan(m)
    BY <1>2, <2>1 DEF ServeOrphan, Bridge!ServeOrphan, Bridge!bridgeVars
  <2>3. QED
    BY <2>1, <2>2, SeenStep DEF Bridge!DropStep, Bridge!Updates, Updates
<1>3. QED
  BY <1>1, <1>2 DEF ServeOrphan

LEMMA PostOtherStep ==
  ASSUME KeyInv, NEW i \in Items, PostOther(i)
  PROVE  KeyInv' /\ [Bridge!Next]_(Bridge!vars) /\ [Drop!Next]_(Drop!specVars)
<1>1. /\ KeyInv' /\ clock' = clock
      /\ \A k \in Keys : k # KeyOf[i] => keys'[k] = keys[k]
      /\ \A j \in DOMAIN shelf : shelf'[j] = shelf[j]
  BY PostFacts DEF PostOther
<1>2. ASSUME NEW n \in Updates
      PROVE  View(n)' = View(n)
  <2>1. Holder(n)' = Holder(n)
    BY <1>1 DEF PostOther, Holder
  <2>2. Holder(n) # NoItem => Holder(n) \in DOMAIN shelf
    BY ViewFacts
  <2>3. QED
    BY <1>1, <2>1, <2>2, ViewStays
<1>3. [n \in Updates |-> View(n)]' = [n \in Updates |-> View(n)]
  BY <1>2
<1>4. UNCHANGED Bridge!vars
  BY <1>3, InstanceVars DEF PostOther
<1>5. QED
  BY <1>1, <1>4 DEF PostOther, Drop!Next

LEMMA RemoveStep ==
  ASSUME KeyInv, NEW i \in Items, Remove(i)
  PROVE  KeyInv' /\ [Bridge!Next]_(Bridge!vars) /\ [Drop!Next]_(Drop!specVars)
<1>1. /\ KeyInv' /\ clock' = clock /\ i \in DOMAIN shelf
      /\ keys' = [k \in Keys |-> IF keys[k] = i THEN NoItem ELSE keys[k]]
      /\ \A j \in DOMAIN shelf : j # i => shelf'[j] = shelf[j]
  BY RemoveFacts DEF Remove
<1>2. ASSUME NEW n \in Updates, Holder(n) # i
      PROVE  View(n)' = View(n)
  <2>1. Holder(n)' = Holder(n)
    BY <1>1, <1>2 DEF Holder
  <2>2. Holder(n) # NoItem => Holder(n) \in DOMAIN shelf
    BY ViewFacts
  <2>3. QED
    BY <1>1, <1>2, <2>1, <2>2, ViewStays
<1>3. Drop!Next
  BY DEF Remove, Drop!Next
<1>4. CASE \E m \in Updates : Holder(m) = i
  <2>1. PICK m \in Updates : Holder(m) = i
    BY <1>4
  <2>2. i # NoItem /\ KeyOf[i] = KeyFor[m]
    BY <2>1, ViewFacts
  <2>3. ASSUME NEW n \in Updates, n # m
        PROVE  Holder(n) # i
    BY <2>2, <2>3, ViewFacts
  <2>4. View(m) # "none" /\ View(m)' = "none"
    BY <1>1, <2>1, <2>2 DEF View, Holder
  <2>5. [n \in Updates |-> View(n)]' = [[n \in Updates |-> View(n)] EXCEPT ![m] = "none"]
    BY <1>2, <2>3, <2>4, OneView
  <2>6. removed' = removed \cup {m}
    <3>1. {n \in Updates : Holder(n) = i} = {m}
      BY <2>1, <2>3
    <3>2. QED
      BY <3>1 DEF Remove
  <2>7. [n \in Updates |-> View(n)][m] # "none"
    BY <2>4
  <2>8. Bridge!Remove(m)
    BY <2>5, <2>6, <2>7 DEF Remove, Bridge!Remove, Bridge!bridgeVars
  <2>9. Bridge!DropStep
    BY <2>8 DEF Bridge!DropStep, Bridge!Updates, Updates
  <2>10. QED
    BY <1>1, <1>3, <2>9, SeenStep
<1>5. CASE \A m \in Updates : Holder(m) # i
  <2>1. [n \in Updates |-> View(n)]' = [n \in Updates |-> View(n)]
    BY <1>2, <1>5
  <2>2. {n \in Updates : Holder(n) = i} = {}
    BY <1>5
  <2>3. UNCHANGED bridgeVars
    BY <2>2 DEF Remove, bridgeVars
  <2>4. UNCHANGED Bridge!vars
    BY <2>1, <2>3, InstanceVars
  <2>5. QED
    BY <1>1, <1>3, <2>4
<1>6. QED
  BY <1>4, <1>5

LEMMA ExtendStep ==
  ASSUME KeyInv, NEW i \in Items, Extend(i)
  PROVE  KeyInv' /\ [Bridge!Next]_(Bridge!vars) /\ [Drop!Next]_(Drop!specVars)
<1>1. /\ KeyInv' /\ keys' = keys /\ clock' = clock /\ UNCHANGED bridgeVars
      /\ \A j \in DOMAIN shelf : j # i => shelf'[j] = shelf[j]
  BY ExtendFacts DEF Extend
<1>2. \A n \in Updates : Holder(n)' = Holder(n)
  BY <1>1 DEF Holder
<1>3. ASSUME NEW n \in Updates, Holder(n) # i
      PROVE  View(n)' = View(n)
  BY <1>1, <1>2, <1>3, ViewFacts, ViewStays
<1>4. Drop!Next
  BY DEF Extend, Drop!Next
<1>5. [Bridge!Next]_(Bridge!vars)
  <2>1. CASE \A n \in Updates : View(n)' = View(n)
    <3>1. [n \in Updates |-> View(n)]' = [n \in Updates |-> View(n)]
      BY <2>1
    <3>2. QED
      BY <1>1, <3>1, InstanceVars
  <2>2. CASE \E m \in Updates : View(m)' # View(m)
    <3>1. PICK m \in Updates : View(m)' # View(m)
      BY <2>2
    <3>2. Holder(m) = i /\ i # NoItem
      BY <1>2, <1>3, <3>1 DEF View, Holder
    <3>3. ASSUME NEW n \in Updates, n # m
          PROVE  View(n)' = View(n)
      <4>1. Holder(n) # i
        BY <3>2, <3>3, ViewFacts
      <4>2. QED
        BY <1>3, <4>1
    <3>4. View(m) \in {"live", "expired"} /\ View(m)' \in {"live", "expired"}
      BY <1>2, <3>2 DEF View
    <3>5. CASE View(m) = "live"
      <4>1. \A n \in {m} : View(n) = "live" /\ View(n)' = "expired"
        BY <3>1, <3>4, <3>5
      <4>2. \A n \in Updates \ {m} : View(n)' = View(n)
        BY <3>3
      <4>3. {m} \in SUBSET Updates
        OBVIOUS
      <4>4. Bridge!DropStep
        BY <1>1, <4>1, <4>2, <4>3, ExpireStep
      <4>5. QED
        BY <4>4, SeenStep
    <3>6. CASE View(m) = "expired"
      <4>1. View(m)' = "live"
        BY <3>1, <3>4, <3>6
      <4>2. [n \in Updates |-> View(n)]' = [[n \in Updates |-> View(n)] EXCEPT ![m] = "live"]
        BY <3>3, <4>1, OneView
      <4>3. [n \in Updates |-> View(n)][m] = "expired"
        BY <3>6
      <4>4. Bridge!Revive(m)
        BY <1>1, <4>2, <4>3 DEF bridgeVars, Bridge!Revive, Bridge!bridgeVars
      <4>5. Bridge!DropStep
        BY <4>4 DEF Bridge!DropStep, Bridge!Updates, Updates
      <4>6. QED
        BY <4>5, SeenStep
    <3>7. QED
      BY <3>4, <3>5, <3>6
  <2>3. QED
    BY <2>1, <2>2
<1>6. QED
  BY <1>1, <1>4, <1>5

LEMMA TickStep ==
  ASSUME KeyInv, Tick
  PROVE  KeyInv' /\ [Bridge!Next]_(Bridge!vars) /\ [Drop!Next]_(Drop!specVars)
<1> DEFINE gone == {m \in Updates : View(m) = "live" /\ View(m)' = "expired"}
<1>1. KeyInv' /\ shelf' = shelf /\ keys' = keys /\ clock' = clock + 1 /\ UNCHANGED bridgeVars
  BY TickFacts DEF Tick
<1>2. clock \in Nat /\ shelf \in [DOMAIN shelf -> Nat]
  BY DEF KeyInv
<1>3. ASSUME NEW m \in Updates \ gone
      PROVE  View(m)' = View(m)
  <2>1. CASE Holder(m) = NoItem
    BY <1>1, <2>1 DEF View, Holder
  <2>2. CASE Holder(m) # NoItem
    <3>1. Holder(m) \in DOMAIN shelf /\ shelf[Holder(m)] \in Nat /\ Holder(m)' = Holder(m)
      BY <1>1, <1>2, <2>2, ViewFacts DEF Holder
    <3>2. QED
      BY <1>1, <1>2, <1>3, <2>2, <3>1 DEF View
  <2>3. QED
    BY <2>1, <2>2
<1>4. Bridge!DropStep
  <2>1. gone \in SUBSET Updates
    OBVIOUS
  <2>2. \A m \in gone : View(m) = "live" /\ View(m)' = "expired"
    OBVIOUS
  <2>3. QED
    BY <1>1, <1>3, <2>1, <2>2, ExpireStep
<1>5. QED
  BY <1>1, <1>4, SeenStep DEF Tick, Drop!Next

LEMMA Steps ==
  ASSUME KeyInv, BP!IInv, [Next]_vars
  PROVE  KeyInv' /\ [Bridge!Next]_(Bridge!vars) /\ [Drop!Next]_(Drop!specVars)
<1>1. CASE Apart
  <2>1. KeyInv' /\ UNCHANGED Drop!specVars
    BY <1>1, UnseenStays DEF Apart
  <2>2. Bridge!Next
    BY <1>1 DEF Apart, Bridge!Next, Bridge!BridgeStep
  <2>3. QED
    BY <2>1, <2>2
<1>2. CASE UNCHANGED vars
  <2>1. UNCHANGED dropVars /\ UNCHANGED bridgeVars
    BY <1>2 DEF vars
  <2>2. QED
    BY <2>1, UnseenStays, InstanceVars
<1>3. QED
  BY <1>1, <1>2, CreateStep, OrphanStep, PostOtherStep, RemoveStep, ExtendStep, TickStep DEF Next

-----------------------------------------------------------------------------

LEMMA InitInv == Init => KeyInv /\ BP!IInv
<1> SUFFICES ASSUME Init
             PROVE  KeyInv /\ BP!IInv
  OBVIOUS
<1>1. shelf = [i \in {} |-> 0] /\ keys = [k \in Keys |-> NoItem] /\ clock = 0
  BY DEF Init, Drop!Init
<1>2. DOMAIN shelf = {} /\ shelf \in [DOMAIN shelf -> Nat]
  BY <1>1
<1>3. KeyInv
  BY <1>1, <1>2 DEF KeyInv
<1>4. BP!IInv
  BY SameInit, BP!InitInv, BPAssumption DEF Init
<1>5. QED
  BY <1>3, <1>4

LEMMA StepInv == KeyInv /\ BP!IInv /\ [Next]_vars => (KeyInv /\ BP!IInv)'
<1> SUFFICES ASSUME KeyInv, BP!IInv, [Next]_vars
             PROVE  KeyInv' /\ BP!IInv'
  OBVIOUS
<1>1. KeyInv' /\ [BP!Next]_(BP!vars)
  BY Steps, SameStep
<1>2. BP!IInv'
  BY <1>1, BP!Step, BPAssumption
<1>3. QED
  BY <1>1, <1>2

LEMMA Inductive == Spec => [](KeyInv /\ BP!IInv)
  BY InitInv, StepInv, PTL DEF Spec

(* Drop's key table and its shelf agree at every instant, with the bridge  *)
(* and other clients posting, deleting and patching (Create of store.go).  *)
THEOREM KeysHeld == Spec => []KeyInv
  BY Inductive, PTL

(* The bridge at work against Drop behaves as TelegramBridge says, Drop    *)
(* being what View shows of it: what that module assumes of Drop's answers *)
(* follows from Drop's keys, so its theorems hold of the two together.     *)
THEOREM RefinesBridge == Spec => ImplementsBridge
<1>1. Init => Bridge!Init
  BY DEF Init
<1>2. KeyInv /\ BP!IInv /\ [Next]_vars => [Bridge!Next]_(Bridge!vars)
  BY Steps
<1>3. QED
  BY <1>1, <1>2, Inductive, PTL DEF Spec, ImplementsBridge, Bridge!Spec

(* To Drop, the bridge is one client among others. *)
THEOREM RefinesDrop == Spec => Drop!Spec
<1>1. Init => Drop!Init
  BY DEF Init
<1>2. KeyInv /\ BP!IInv /\ [Next]_vars => [Drop!Next]_(Drop!specVars)
  BY Steps
<1>3. QED
  BY <1>1, <1>2, Inductive, PTL DEF Spec, Drop!Spec

(* Exactly once, end to end, for any stream of messages and any client of  *)
(* Drop: the offset of Run and the keys of Create together.                *)
THEOREM ExactlyOnce == Spec => []StoredOnce
<1>1. KeyInv /\ BP!IInv => StoredOnce
  <2> SUFFICES ASSUME KeyInv, BP!IInv, NEW m \in Updates,
                      m <= confirmed, Bridge!Forwarded(m), m \notin removed
               PROVE  \E i \in DOMAIN shelf :
                        /\ KeyOf[i] = KeyFor[m] /\ made[m] = 1
                        /\ \A j \in DOMAIN shelf : KeyOf[j] = KeyFor[m] => j = i
    BY DEF StoredOnce
  <2>1. made \in [Updates -> Nat] /\ confirmed \in Nat
    BY DEF BP!IInv, BP!TypeOK, BP!Updates, Updates
  <2>2. made[m] > 0
    <3>1. BP!Handled(confirmed + 1)
      BY DEF BP!IInv, BP!ProgressInv
    <3>2. m < confirmed + 1
      BY <2>1 DEF Updates
    <3>3. QED
      BY <3>1, <3>2 DEF BP!Handled, BP!Updates, Updates, BP!Forwarded, Bridge!Forwarded
  <2>3. /\ made[m] > 1 => m \in removed
        /\ made[m] > 0 /\ [n \in Updates |-> View(n)][m] = "none" => m \in removed
    BY DEF BP!IInv, BP!ItemInv, BP!Updates, Updates
  <2>4. made[m] = 1
    BY <2>1, <2>2, <2>3
  <2>5. Holder(m) # NoItem
    BY <2>2, <2>3, ViewFacts
  <2>6. Holder(m) \in DOMAIN shelf /\ KeyOf[Holder(m)] = KeyFor[m] /\ KeyFor[m] \in Keys
    BY <2>5, ViewFacts
  <2>7. \A j \in DOMAIN shelf : KeyOf[j] = KeyFor[m] => j = Holder(m)
    BY <2>6 DEF KeyInv, Holder
  <2>8. QED
    BY <2>4, <2>6, <2>7
<1>2. QED
  BY <1>1, Inductive, PTL
=============================================================================
