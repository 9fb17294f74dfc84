------------------------- MODULE TelegramBridgeProofs ------------------------
(***************************************************************************)
(* Theorems about TelegramBridge, for any stream of updates, batch size,   *)
(* acknowledgement mode and number of faults.                              *)
(***************************************************************************)
EXTENDS TelegramBridge, TLAPS

USE UpdateAssumption DEF Updates

LEMMA InitInv == Init => IInv
  BY DEF Init, IInv, TypeOK, ProgressInv, ItemInv, Handled

(* Items are never unmade, so what is handled stays handled. *)
LEMMA HandledStays ==
  ASSUME TypeOK, NEW k \in Nat, Handled(k), \A m \in Updates : made'[m] >= made[m], made' \in [Updates -> Nat]
  PROVE  Handled(k)'
  BY DEF Handled, TypeOK

(* An update in hand is one of those sent. *)
LEMMA InHand ==
  ASSUME IInv, pc \in {"handle", "fetch", "create", "reply"}
  PROVE  next \in Updates /\ next <= last /\ last <= Last /\ Handled(next)
  BY DEF IInv, TypeOK, ProgressInv

(* Serving a POST makes at most one item, and one exists afterwards. *)
LEMMA StoreItemFacts ==
  ASSUME IInv, NEW m \in Updates, StoreItem(m)
  PROVE  /\ made' \in [Updates -> Nat] /\ shelf' \in [Updates -> {"none", "live", "expired"}]
         /\ \A n \in Updates : made'[n] >= made[n]
         /\ \A n \in Updates : n # m => made'[n] = made[n] /\ shelf'[n] = shelf[n]
         /\ made'[m] > 0 /\ shelf'[m] # "none"
         /\ made'[m] > 1 => m \in removed
<1>1. made \in [Updates -> Nat] /\ shelf \in [Updates -> {"none", "live", "expired"}]
  BY DEF IInv, TypeOK
<1>2. /\ (made[m] > 0 /\ shelf[m] = "none") => m \in removed
      /\ made[m] = 0 => shelf[m] = "none"
      /\ made[m] > 1 => m \in removed
  BY DEF IInv, ItemInv
<1>3. CASE shelf[m] = "none"
  <2>1. PICK fresh \in {"live", "expired"} : shelf' = [shelf EXCEPT ![m] = fresh]
    BY <1>3 DEF StoreItem
  <2>8. made' = [made EXCEPT ![m] = @ + 1]
    BY <1>3 DEF StoreItem
  <2>2. made'[m] = made[m] + 1 /\ shelf'[m] # "none"
    BY <1>1, <2>1, <2>8
  <2>3. \A n \in Updates : n # m => made'[n] = made[n] /\ shelf'[n] = shelf[n]
    BY <1>1, <2>1, <2>8
  <2>4. made[m] \in Nat /\ made' \in [Updates -> Nat]
    BY <1>1, <2>8
  <2>5. shelf' \in [Updates -> {"none", "live", "expired"}]
    BY <1>1, <2>1
  <2>6. \A n \in Updates : made'[n] >= made[n]
    BY <1>1, <2>2, <2>3
  <2>7. made'[m] > 0 /\ (made'[m] > 1 => m \in removed)
    BY <1>2, <1>3, <2>2, <2>4
  <2>9. QED
    BY <2>2, <2>3, <2>4, <2>5, <2>6, <2>7
<1>4. CASE shelf[m] # "none"
  <2>1. made' = made /\ shelf' = shelf
    BY <1>4 DEF StoreItem
  <2>2. QED
    BY <1>1, <1>2, <1>4, <2>1
<1>5. QED
  BY <1>3, <1>4

(* Moving past an update whose work is done. *)
LEMMA DoneFacts ==
  ASSUME IInv, pc \in {"handle", "create", "reply"}, Done, UNCHANGED <<sent, confirmed>>,
         made' \in [Updates -> Nat], \A m \in Updates : made'[m] >= made[m],
         Forwarded(next) => made'[next] > 0
  PROVE  /\ ProgressInv'
         /\ pc' \in {"poll", "handle"} /\ offset' \in 0..(Last + 1) /\ next' \in 1..(Last + 1)
         /\ last' \in 0..Last
<1>1. next \in Updates /\ next <= last /\ last <= Last /\ Handled(next)
  BY InHand
<1>2. /\ made \in [Updates -> Nat] /\ last \in Nat /\ Last \in Nat /\ confirmed \in Nat
      /\ last <= sent /\ Handled(confirmed + 1)
  BY DEF IInv, TypeOK, ProgressInv
<1>3. \A m \in Updates : m < next /\ Forwarded(m) => made'[m] > 0
  BY <1>1, <1>2 DEF Handled
<1>4. \A m \in Updates : m < next + 1 /\ Forwarded(m) => made'[m] > 0
  BY <1>1, <1>3
<1>5. offset' = next + 1 /\ next' = next + 1 /\ last' = last
  BY DEF Done
<1>6. Handled(offset)' /\ Handled(next)'
  BY <1>4, <1>5 DEF Handled, Forwarded
<1>7. Handled(confirmed + 1)'
  BY <1>2 DEF Handled, Forwarded
<1>8. pc' = "poll" \/ (pc' = "handle" /\ next' <= last')
  BY <1>1, <1>2, <1>5 DEF Done
<1>9. ProgressInv'
  BY <1>2, <1>5, <1>6, <1>7, <1>8 DEF ProgressInv
<1>10. QED
  BY <1>1, <1>2, <1>5, <1>8, <1>9

(* Serving a POST of a message that all earlier ones precede. *)
LEMMA StoreItemKeeps ==
  ASSUME IInv, NEW m \in Updates, StoreItem(m), Handled(m),
         \A n \in Updates : orphans'[n] > 0 => orphans[n] > 0, removed' = removed
  PROVE  ItemInv'
<1>1. made \in [Updates -> Nat] /\ ItemInv
  BY DEF IInv, TypeOK
<1>2. /\ \A n \in Updates : made'[n] >= made[n]
      /\ made' \in [Updates -> Nat]
      /\ \A n \in Updates : n # m => made'[n] = made[n] /\ shelf'[n] = shelf[n]
      /\ made'[m] > 0 /\ shelf'[m] # "none"
      /\ made'[m] > 1 => m \in removed
  BY StoreItemFacts
<1>3. ASSUME NEW n \in Updates, Handled(n)
      PROVE  \A k \in Updates : k < n /\ Forwarded(k) => made'[k] > 0
  BY <1>1, <1>2, <1>3 DEF Handled
<1>4. ASSUME NEW n \in Updates, made'[n] > 0 \/ orphans'[n] > 0
      PROVE  Handled(n)
  <2>1. CASE n = m
    BY <2>1
  <2>2. CASE n # m
    BY <1>1, <1>2, <1>4, <2>2 DEF ItemInv
  <2>3. QED
    BY <2>1, <2>2
<1>5. ASSUME NEW n \in Updates
      PROVE  /\ made'[n] > 0 /\ shelf'[n] = "none" => n \in removed'
             /\ made'[n] = 0 => shelf'[n] = "none"
             /\ made'[n] > 1 => n \in removed'
  <2>1. CASE n = m
    BY <1>2, <2>1
  <2>2. CASE n # m
    BY <1>1, <1>2, <2>2 DEF ItemInv
  <2>3. QED
    BY <2>1, <2>2
<1>6. QED
  BY <1>3, <1>4, <1>5 DEF ItemInv, Handled, Forwarded

(* What the steps outside Drop need. *)
LEMMA ItemsStay ==
  ASSUME IInv, UNCHANGED <<shelf, made, removed>>,
         \A m \in Updates : orphans'[m] > 0 => orphans[m] > 0 \/ Handled(m)
  PROVE  ItemInv'
  BY DEF IInv, ItemInv, Handled, Forwarded

(* The end of a batch lies within what was sent. *)
LEMMA BatchEnd ==
  ASSUME NEW c \in Nat, NEW s \in Nat, NEW l, l = IF s < c + BatchLimit THEN s ELSE c + BatchLimit
  PROVE  l \in Nat /\ l <= s
  OBVIOUS

LEMMA Following == ASSUME NEW c \in Nat, c <= Last PROVE c + 1 \in 1..(Last + 1)
  OBVIOUS

(* Telegram forgets only updates that have been handled. *)
LEMMA ConfirmFacts ==
  ASSUME IInv, Confirm, UNCHANGED <<made, offset>>
  PROVE  confirmed' \in 0..Last /\ Handled(confirmed')  /\ Handled(confirmed' + 1)
         /\ (\A m \in Updates : m < confirmed' + 1 /\ Forwarded(m) => made'[m] > 0)
  BY DEF IInv, TypeOK, ProgressInv, Confirm, Handled

THEOREM Step == IInv /\ [Next]_vars => IInv'
<1> SUFFICES ASSUME IInv, [Next]_vars
             PROVE  IInv'
  OBVIOUS
<1>1. TypeOK /\ ProgressInv /\ ItemInv
  BY DEF IInv
<1>2. CASE Send
  BY <1>1, <1>2 DEF Send, bridgeVars, dropVars, IInv, TypeOK, ProgressInv, ItemInv, Handled, Forwarded
<1>3. CASE Start
  BY <1>1, <1>3 DEF Start, dropVars, IInv, TypeOK, ProgressInv, ItemInv, Handled, Forwarded
<1>4. CASE Poll
  <2>1. ItemInv'
    BY <1>4, ItemsStay DEF Poll, dropVars
  <2>2. /\ confirmed' \in 0..Last
        /\ \A m \in Updates : m < confirmed' + 1 /\ Forwarded(m) => made'[m] > 0
    BY <1>4, ConfirmFacts DEF Poll, dropVars
  <2>3. next' = confirmed' + 1 /\ last' \in 0..Last /\ last' <= sent'
    <3>1. sent' = sent /\ sent \in 0..Last /\ BatchLimit \in Nat /\ Last \in Nat
      BY <1>1, <1>4 DEF Poll, TypeOK
    <3>2. /\ next' = confirmed' + 1
          /\ last' = IF sent < confirmed' + BatchLimit THEN sent ELSE confirmed' + BatchLimit
      BY <1>4 DEF Poll, Batch
    <3>3. confirmed' \in Nat /\ sent \in Nat
      BY <2>2, <3>1
    <3>4. last' \in Nat /\ last' <= sent
      BY <3>2, <3>3, BatchEnd, Zenon
    <3>5. QED
      BY <3>1, <3>2, <3>4
  <2>4. pc' = "poll" \/ (pc' = "handle" /\ next' <= last')
    BY <1>4 DEF Poll
  <2>5. TypeOK'
    <3>1. confirmed' \in Nat /\ confirmed' <= Last /\ Last \in Nat
      BY <2>2
    <3>2. next' \in 1..(Last + 1)
      BY <2>3, <3>1, Following, Zenon
    <3>3. UNCHANGED <<sent, offset, shelf, orphans, made, removed, faults>>
      BY <1>4 DEF Poll, dropVars
    <3>4. QED
      BY <1>1, <2>2, <2>3, <2>4, <3>2, <3>3 DEF TypeOK
  <2>6. ProgressInv'
    BY <1>1, <1>4, <2>2, <2>3, <2>4 DEF Poll, ProgressInv, Handled, Forwarded, dropVars
  <2>7. QED
    BY <2>1, <2>5, <2>6 DEF IInv
<1>5. CASE Dispatch
  <2>1. next \in Updates /\ next <= last /\ Handled(next) /\ KindOf[next] \in Kinds
    BY <1>5, InHand DEF Dispatch
  <2>2. ItemInv'
    BY <1>5, ItemsStay DEF Dispatch, dropVars
  <2>3. CASE Done
    <3>1. KindOf[next] = "silent"
      BY <1>1, <1>5, <2>1, <2>3 DEF Dispatch, Done, GoTo, TypeOK
    <3>2. made' \in [Updates -> Nat] /\ \A m \in Updates : made'[m] >= made[m]
      BY <1>1, <1>5 DEF Dispatch, dropVars, TypeOK
    <3>3. /\ ProgressInv'
          /\ pc' \in {"poll", "handle"} /\ offset' \in 0..(Last + 1)
          /\ next' \in 1..(Last + 1) /\ last' \in 0..Last
      BY <1>5, <2>3, <3>1, <3>2, DoneFacts DEF Dispatch, Forwarded
    <3>4. TypeOK'
      BY <1>1, <1>5, <3>3 DEF Dispatch, dropVars, TypeOK
    <3>5. QED
      BY <2>2, <3>3, <3>4 DEF IInv
  <2>4. ASSUME NEW where \in {"reply", "create", "fetch"}, GoTo(where),
               where = "fetch" => KindOf[next] \in {"file", "big"},
               where = "create" => Forwarded(next),
               where = "reply" => ~Forwarded(next)
        PROVE  IInv'
    <3>1. TypeOK'
      BY <1>1, <1>5, <2>4 DEF Dispatch, GoTo, dropVars, TypeOK
    <3>2. ProgressInv'
      BY <1>1, <1>5, <2>1, <2>4 DEF Dispatch, GoTo, dropVars, ProgressInv, Handled, Forwarded
    <3>3. QED
      BY <2>2, <3>1, <3>2 DEF IInv
  <2>5. CASE KindOf[next] = "notice"
    BY <1>5, <2>4, <2>5 DEF Dispatch, Forwarded
  <2>6. CASE KindOf[next] = "text"
    BY <1>5, <2>4, <2>6 DEF Dispatch, Forwarded
  <2>7. CASE KindOf[next] \in {"file", "big"}
    BY <1>5, <2>4, <2>7 DEF Dispatch, Forwarded
  <2>8. CASE KindOf[next] = "silent"
    BY <1>5, <2>3, <2>8 DEF Dispatch
  <2>9. QED
    BY <2>1, <2>5, <2>6, <2>7, <2>8 DEF Kinds
<1>6. CASE Fetch
  <2>1. next \in Updates /\ next <= last /\ Handled(next)
    BY <1>6, InHand DEF Fetch
  <2>2. ItemInv'
    BY <1>6, ItemsStay DEF Fetch, dropVars
  <2>3. TypeOK'
    BY <1>1, <1>6 DEF Fetch, GoTo, dropVars, TypeOK
  <2>4. ProgressInv'
    BY <1>1, <1>6, <2>1 DEF Fetch, GoTo, dropVars, ProgressInv, Handled, Forwarded
  <2>5. QED
    BY <2>2, <2>3, <2>4 DEF IInv
<1>7. CASE Create
  <2>1. next \in Updates /\ next <= last /\ Handled(next)
    BY <1>7, InHand DEF Create
  <2>2. ItemInv'
    BY <1>7, <2>1, StoreItemKeeps DEF Create
  <2>3. /\ made' \in [Updates -> Nat] /\ shelf' \in [Updates -> {"none", "live", "expired"}]
        /\ \A m \in Updates : made'[m] >= made[m]
        /\ made'[next] > 0
    BY <1>7, <2>1, StoreItemFacts DEF Create
  <2>4. CASE next \in Acked
    <3>1. GoTo("reply")
      BY <1>7, <2>4 DEF Create
    <3>2. TypeOK'
      BY <1>1, <1>7, <2>3, <3>1 DEF Create, GoTo, TypeOK
    <3>3. \A k \in Nat : Handled(k) => \A m \in Updates : m < k /\ Forwarded(m) => made'[m] > 0
      BY <1>1, <2>3 DEF Handled, TypeOK
    <3>4. offset \in Nat /\ confirmed \in Nat /\ next \in Nat
      BY <1>1 DEF TypeOK
    <3>5. UNCHANGED <<sent, confirmed, offset, next, last>> /\ pc' = "reply"
      BY <1>7, <3>1 DEF Create, GoTo
    <3>6. Handled(offset) /\ Handled(confirmed + 1) /\ last <= sent
      BY <1>1 DEF ProgressInv
    <3>7. Handled(offset)' /\ Handled(confirmed + 1)' /\ Handled(next)'
      <4>1. confirmed + 1 \in Nat
        BY <3>4
      <4>2. /\ \A m \in Updates : m < offset /\ Forwarded(m) => made'[m] > 0
            /\ \A m \in Updates : m < confirmed + 1 /\ Forwarded(m) => made'[m] > 0
            /\ \A m \in Updates : m < next /\ Forwarded(m) => made'[m] > 0
        BY <2>1, <3>3, <3>4, <3>6, <4>1
      <4>3. QED
        BY <3>5, <4>2 DEF Handled, Forwarded
    <3>8. ProgressInv'
      BY <2>1, <2>3, <3>5, <3>6, <3>7 DEF ProgressInv
    <3>9. QED
      BY <2>2, <3>2, <3>8 DEF IInv
  <2>5. CASE next \notin Acked
    <3>1. Done
      BY <1>7, <2>5 DEF Create
    <3>2. /\ ProgressInv'
          /\ pc' \in {"poll", "handle"} /\ offset' \in 0..(Last + 1)
          /\ next' \in 1..(Last + 1) /\ last' \in 0..Last
      BY <1>7, <2>3, <3>1, DoneFacts DEF Create
    <3>3. TypeOK'
      BY <1>1, <1>7, <2>3, <3>2 DEF Create, TypeOK
    <3>4. QED
      BY <2>2, <3>2, <3>3 DEF IInv
  <2>6. QED
    BY <2>4, <2>5
<1>8. CASE CreateGone
  <2>1. ItemInv'
    BY <1>8, ItemsStay DEF CreateGone, dropVars
  <2>2. QED
    BY <1>1, <1>8, <2>1 DEF CreateGone, Retry, dropVars, IInv, TypeOK, ProgressInv, Handled, Forwarded
<1>9. CASE Reply
  <2>1. ItemInv'
    BY <1>9, ItemsStay DEF Reply, dropVars
  <2>2. /\ made' \in [Updates -> Nat] /\ \A m \in Updates : made'[m] >= made[m]
        /\ Forwarded(next) => made'[next] > 0
    BY <1>1, <1>9 DEF Reply, dropVars, TypeOK, ProgressInv
  <2>3. /\ ProgressInv'
        /\ pc' \in {"poll", "handle"} /\ offset' \in 0..(Last + 1)
        /\ next' \in 1..(Last + 1) /\ last' \in 0..Last
    BY <1>9, <2>2, DoneFacts DEF Reply
  <2>4. TypeOK'
    BY <1>1, <1>9, <2>3 DEF Reply, dropVars, TypeOK
  <2>5. QED
    BY <2>1, <2>3, <2>4 DEF IInv
<1>10. ASSUME NEW m \in Updates, ServeOrphan(m)
       PROVE  IInv'
  <2>1. orphans \in [Updates -> Nat] /\ orphans[m] > 0 /\ Handled(m)
    BY <1>1, <1>10 DEF ServeOrphan, TypeOK, ItemInv
  <2>2. orphans' \in [Updates -> Nat] /\ \A n \in Updates : orphans'[n] > 0 => orphans[n] > 0
    BY <1>10, <2>1 DEF ServeOrphan
  <2>3. CASE StoreItem(m)
    <3>1. ItemInv'
      BY <1>10, <2>1, <2>2, <2>3, StoreItemKeeps DEF ServeOrphan
    <3>2. /\ made' \in [Updates -> Nat] /\ shelf' \in [Updates -> {"none", "live", "expired"}]
          /\ \A n \in Updates : made'[n] >= made[n]
      BY <2>3, StoreItemFacts
    <3>3. TypeOK'
      BY <1>1, <1>10, <2>2, <3>2 DEF ServeOrphan, bridgeVars, TypeOK
    <3>4. \A k \in Nat : Handled(k) => \A n \in Updates : n < k /\ Forwarded(n) => made'[n] > 0
      BY <1>1, <3>2 DEF Handled, TypeOK
    <3>5. offset \in Nat /\ confirmed \in Nat /\ next \in Nat /\ (next <= last => next \in Updates)
      BY <1>1 DEF TypeOK
    <3>6. UNCHANGED <<sent, confirmed, pc, offset, next, last>>
      BY <1>10 DEF ServeOrphan, bridgeVars
    <3>7. \A n \in Updates : made[n] > 0 => made'[n] > 0
      BY <1>1, <3>2 DEF TypeOK
    <3>8. ProgressInv'
      BY <1>1, <3>4, <3>5, <3>6, <3>7 DEF ProgressInv, Handled, Forwarded
    <3>9. QED
      BY <3>1, <3>3, <3>8 DEF IInv
  <2>4. CASE UNCHANGED <<shelf, made>>
    <3>1. ItemInv'
      BY <1>10, <2>2, <2>4, ItemsStay DEF ServeOrphan
    <3>2. QED
      BY <1>1, <1>10, <2>2, <2>4, <3>1 DEF ServeOrphan, bridgeVars, IInv, TypeOK, ProgressInv, Handled, Forwarded
  <2>5. QED
    BY <1>10, <2>3, <2>4 DEF ServeOrphan
<1>11. ASSUME NEW gone \in SUBSET Updates, Expire(gone)
       PROVE  IInv'
  BY <1>1, <1>11 DEF Expire, bridgeVars, IInv, TypeOK, ProgressInv, ItemInv, Handled, Forwarded
<1>12. ASSUME NEW m \in Updates, Remove(m)
       PROVE  IInv'
  BY <1>1, <1>12 DEF Remove, bridgeVars, IInv, TypeOK, ProgressInv, ItemInv, Handled, Forwarded
<1>19. ASSUME NEW m \in Updates, Revive(m)
       PROVE  IInv'
  BY <1>1, <1>19 DEF Revive, bridgeVars, IInv, TypeOK, ProgressInv, ItemInv, Handled, Forwarded
<1>13. CASE PollLost
  <2>1. ItemInv'
    BY <1>13, ItemsStay DEF PollLost, dropVars, bridgeVars
  <2>2. /\ confirmed' \in 0..Last
        /\ \A m \in Updates : m < confirmed' + 1 /\ Forwarded(m) => made'[m] > 0
    BY <1>13, ConfirmFacts DEF PollLost, dropVars, bridgeVars
  <2>3. UNCHANGED <<sent, pc, offset, next, last, shelf, orphans, made, removed>> /\ faults' = faults + 1
    BY <1>13 DEF PollLost, Fault, dropVars, bridgeVars
  <2>4. TypeOK'
    BY <1>1, <2>2, <2>3 DEF TypeOK
  <2>5. Handled(confirmed + 1)'
    BY <2>2 DEF Handled, Forwarded
  <2>6. ProgressInv'
    BY <1>1, <2>3, <2>5 DEF ProgressInv, Handled, Forwarded
  <2>7. QED
    BY <2>1, <2>4, <2>6 DEF IInv
<1>14. ASSUME Orphan, UNCHANGED <<shelf, made, removed>>
       PROVE  ItemInv' /\ orphans' \in [Updates -> Nat]
  <2>1. CASE pc = "create"
    <3>1. next \in Updates /\ Handled(next) /\ orphans \in [Updates -> Nat]
      BY <1>1, <2>1, InHand DEF TypeOK
    <3>2. orphans' = [orphans EXCEPT ![next] = @ + 1]
      BY <1>14, <2>1 DEF Orphan
    <3>3. \A m \in Updates : orphans'[m] > 0 => orphans[m] > 0 \/ Handled(m)
      BY <3>1, <3>2
    <3>4. QED
      BY <1>14, <3>1, <3>2, <3>3, ItemsStay
  <2>2. CASE pc # "create"
    <3>1. orphans' = orphans
      BY <1>14, <2>2 DEF Orphan
    <3>2. QED
      BY <1>1, <1>14, <3>1, ItemsStay DEF TypeOK
  <2>3. QED
    BY <2>1, <2>2
<1>15. CASE CallFails
  <2>1. ItemInv' /\ orphans' \in [Updates -> Nat]
    BY <1>14, <1>15 DEF CallFails
  <2>2. QED
    BY <1>1, <1>15, <2>1 DEF CallFails, Retry, Fault, IInv, TypeOK, ProgressInv, Handled, Forwarded
<1>16. CASE Crash
  <2>1. ItemInv' /\ orphans' \in [Updates -> Nat]
    BY <1>14, <1>16 DEF Crash
  <2>2. QED
    BY <1>1, <1>16, <2>1 DEF Crash, Fault, IInv, TypeOK, ProgressInv, Handled, Forwarded
<1>17. CASE UNCHANGED vars
  BY <1>1, <1>17 DEF vars, bridgeVars, dropVars, IInv, TypeOK, ProgressInv, ItemInv, Handled, Forwarded
<1>18. QED
  BY <1>2, <1>3, <1>4, <1>5, <1>6, <1>7, <1>8, <1>9, <1>10, <1>11, <1>12, <1>13, <1>15, <1>16, <1>17, <1>19
    DEF Next, BridgeStep, DropStep

(* The inductive invariant holds of every reachable state. *)
THEOREM Invariance == Spec => []IInv
  BY InitInv, Step, PTL DEF Spec

(* Every variable stays in its type. *)
THEOREM TypeCorrect == Spec => []TypeOK
<1>1. IInv => TypeOK
  BY DEF IInv
<1>2. QED
  BY <1>1, Invariance, PTL

(* At least once: no crash, lost answer or retry makes Telegram forget a   *)
(* message that has not become an item (the offset of Run).                *)
THEOREM AtLeastOnce == Spec => []NothingLost
<1>1. IInv => NothingLost
  BY DEF IInv, TypeOK, ProgressInv, Handled, NothingLost
<1>2. QED
  BY <1>1, Invariance, PTL

(* At most once, until a deletion: the idempotency key of the bridge.      *)
THEOREM AtMostOnce == Spec => []OnePerMessage
<1>1. IInv => OnePerMessage
  BY DEF IInv, ItemInv, OnePerMessage
<1>2. QED
  BY <1>1, Invariance, PTL

(* Messages become items in the order they were sent, across retries,      *)
(* restarts and POSTs served late (the break in Run).                      *)
THEOREM Ordered == Spec => []InOrder
<1>1. IInv => InOrder
  BY DEF IInv, ItemInv, Handled, InOrder
<1>2. QED
  BY <1>1, Invariance, PTL
=============================================================================
