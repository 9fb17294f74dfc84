----------------------------- MODULE BridgedDrop -----------------------------
(***************************************************************************)
(* The Telegram bridge working against Drop: the worker of TelegramBridge  *)
(* composed with the shelf, keys and clock of DropSpec, which DropStore    *)
(* implements.  What TelegramBridge assumes of Drop (an item holds the key *)
(* of its message until it is deleted, and a repeated POST finds it) is    *)
(* here a fact about Drop's own table, and the composition implements      *)
(* TelegramBridge as well as DropSpec.                                     *)
(***************************************************************************)
EXTENDS Naturals, FiniteSets

CONSTANTS
  Last, KindOf, Acked, BatchLimit, MaxFaults,                \* TelegramBridge
  Items, Keys, NoKey, NoItem, KeyOf, Size, MaxSize, Quota,   \* DropSpec
  MaxTTL, MaxClock,
  KeyFor   \* the Idempotency-Key the bridge derives from a message

Updates == 1..Last

(***************************************************************************)
(* A key names the bot, the chat and the message, so no two messages share *)
(* one.                                                                    *)
(***************************************************************************)
ASSUME BridgedAssumption ==
  /\ Last \in Nat /\ BatchLimit \in Nat \ {0} /\ MaxFaults \in Nat
  /\ KindOf \in [Updates -> {"text", "file", "big", "notice", "silent"}]
  /\ Acked \subseteq Updates
  /\ NoItem \notin Items /\ NoKey \notin Keys
  /\ KeyOf \in [Items -> Keys \cup {NoKey}]
  /\ MaxTTL \in Nat /\ MaxClock \in Nat
  /\ KeyFor \in [Updates -> Keys]
  /\ \A m, n \in Updates : KeyFor[m] = KeyFor[n] => m = n

VARIABLES
  sent, confirmed, pc, offset, next, last, orphans, made, removed, faults,
  shelf, keys, late, clock

bridgeVars == <<sent, confirmed, pc, offset, next, last, orphans, made, removed, faults>>
dropVars   == <<shelf, keys, late, clock>>
vars == <<bridgeVars, dropVars>>

Holder(m) == keys[KeyFor[m]]

(* What the bridge can tell of the item of a message by sending POSTs. *)
View(m) ==
  IF Holder(m) = NoItem THEN "none"
  ELSE IF shelf[Holder(m)] > clock THEN "live" ELSE "expired"

Drop   == INSTANCE DropSpec
Bridge == INSTANCE TelegramBridge WITH shelf <- [m \in Updates |-> View(m)]

-----------------------------------------------------------------------------
(***************************************************************************)
(* A bug this code could have, standing for Serve below: the POST carries  *)
(* no Idempotency-Key.                                                     *)
(***************************************************************************)
ServeUnkeyed(m) ==
  /\ \E i \in Items : KeyOf[i] = NoKey /\ Drop!Post(i)
  /\ made' = [made EXCEPT ![m] = @ + 1]

-----------------------------------------------------------------------------

Init == Drop!Init /\ Bridge!Init

(* The bridge and Telegram on their own. *)
Apart ==
  /\ UNCHANGED dropVars
  /\ \/ Bridge!Send
     \/ Bridge!Start
     \/ Bridge!Poll
     \/ Bridge!Dispatch
     \/ Bridge!Fetch
     \/ Bridge!CreateGone
     \/ Bridge!Reply
     \/ Bridge!PollLost
     \/ Bridge!CallFails
     \/ Bridge!Crash

(* Drop answers a POST for m: it posts an item while the key is free, and  *)
(* finds the one that holds the key otherwise.                             *)
Serve(m) ==
  \/ /\ Holder(m) = NoItem
     /\ \E i \in Items : KeyOf[i] = KeyFor[m] /\ Drop!Post(i)
     /\ made' = [made EXCEPT ![m] = @ + 1]
  \/ /\ Holder(m) # NoItem
     /\ UNCHANGED <<dropVars, made>>

Create ==
  /\ pc = "create"
  /\ View(next) # "expired"
  /\ Serve(next)
  /\ IF next \in Acked THEN Bridge!GoTo("reply") ELSE Bridge!Done
  /\ UNCHANGED <<sent, confirmed, orphans, removed, faults>>

(* A POST the bridge gave up reaches Drop, or is never served. *)
ServeOrphan(m) ==
  /\ orphans[m] > 0
  /\ orphans' = [orphans EXCEPT ![m] = @ - 1]
  /\ Serve(m) \/ UNCHANGED <<dropVars, made>>
  /\ UNCHANGED <<sent, confirmed, pc, offset, next, last, removed, faults>>

(* Drop's other clients, its sweep and time. *)
PostOther(i) ==
  /\ \A m \in Updates : KeyFor[m] # KeyOf[i]
  /\ Drop!Post(i)
  /\ UNCHANGED bridgeVars

Remove(i) ==
  /\ Drop!Remove(i)
  /\ removed' = removed \cup {m \in Updates : Holder(m) = i}
  /\ UNCHANGED <<sent, confirmed, pc, offset, next, last, orphans, made, faults>>

Extend(i) == Drop!Extend(i) /\ UNCHANGED bridgeVars

Tick == Drop!Tick /\ UNCHANGED bridgeVars

Next ==
  \/ Apart \/ Create \/ Tick
  \/ \E m \in Updates : ServeOrphan(m)
  \/ \E i \in Items : PostOther(i) \/ Remove(i) \/ Extend(i)

Spec == Init /\ [][Next]_vars

-----------------------------------------------------------------------------

(* An item holds its key, and only its key, for as long as it is stored.   *)
KeyInv ==
  /\ DOMAIN shelf \subseteq Items
  /\ shelf \in [DOMAIN shelf -> Nat] /\ clock \in Nat
  /\ keys \in [Keys -> DOMAIN shelf \cup {NoItem}]
  /\ \A k \in Keys : keys[k] # NoItem => KeyOf[keys[k]] = k
  /\ \A i \in DOMAIN shelf : KeyOf[i] \in Keys => keys[KeyOf[i]] = i

(* Through View, the bridge sees in Drop what TelegramBridge says it sees. *)
ImplementsBridge == Bridge!Spec

(* Exactly once, end to end: a message Telegram has forgotten and no item  *)
(* of which was deleted is stored in Drop as exactly one item, however     *)
(* crashes, lost answers, late POSTs, expiries and other clients fell.     *)
StoredOnce ==
  \A m \in Updates :
    m <= confirmed /\ Bridge!Forwarded(m) /\ m \notin removed =>
      \E i \in DOMAIN shelf :
        /\ KeyOf[i] = KeyFor[m] /\ made[m] = 1
        /\ \A j \in DOMAIN shelf : KeyOf[j] = KeyFor[m] => j = i
=============================================================================
