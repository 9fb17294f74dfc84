------------------------------ MODULE DropSpec ------------------------------
(***************************************************************************)
(* What Drop promises its callers, with no transaction, lock, file or      *)
(* handler in sight: a shelf of items, each with an expiry, an idempotency *)
(* table, and four things that can happen to them, each at one instant.    *)
(* DropStore.tla, the model of services/drop, implements this module and    *)
(* states the assumptions on the constants.                                *)
(***************************************************************************)
EXTENDS Naturals, FiniteSets

CONSTANTS
  Items,      \* item ids; a request that succeeds gets the id it stands for
  Keys,       \* idempotency key hashes
  NoKey,      \* the request carries no Idempotency-Key header
  NoItem,
  KeyOf,      \* [Items -> Keys \cup {NoKey}]
  Size,       \* [Items -> Nat], the item's total_size
  MaxSize,    \* no item is larger (DROP_MAX_ITEM_BYTES)
  Quota,      \* DROP_QUOTA_BYTES
  MaxTTL,     \* the longest ttl_days, in clock units
  MaxClock    \* bound of the model: the last instant

VARIABLES
  shelf,    \* [stored items -> expiry]
  keys,     \* [Keys -> the item holding the key, or NoItem]
  late,     \* stored items whose expiry was moved after it had passed
  clock

specVars == <<shelf, keys, late, clock>>

(***************************************************************************)
(* The bytes of a set of items.  Counting the pairs <<item, n-th byte>>    *)
(* is a sum of sizes that a prover can reason about by cardinality.        *)
(***************************************************************************)
BytesOf(S) == {p \in S \X (1..MaxSize) : p[2] <= Size[p[1]]}
Used(S) == Cardinality(BytesOf(S))

(* No expiry lies further ahead than the longest time to live. *)
Expiries == 0..(clock + MaxTTL)

Alive == {i \in DOMAIN shelf : shelf[i] > clock}

Init ==
  /\ shelf = [i \in {} |-> 0]
  /\ keys = [k \in Keys |-> NoItem]
  /\ late = {}
  /\ clock = 0

(***************************************************************************)
(* An item appears only while its key is free and the live bytes, its own  *)
(* included, stay within the quota.                                        *)
(***************************************************************************)
Post(i) ==
  /\ i \notin DOMAIN shelf
  /\ KeyOf[i] # NoKey => keys[KeyOf[i]] = NoItem
  /\ Used(Alive \ late) + Size[i] <= Quota
  /\ \E e \in Expiries :
       shelf' = [j \in DOMAIN shelf \cup {i} |-> IF j = i THEN e ELSE shelf[j]]
  /\ keys' = [k \in Keys |-> IF k = KeyOf[i] THEN i ELSE keys[k]]
  /\ UNCHANGED <<late, clock>>

Remove(i) ==
  /\ i \in DOMAIN shelf
  /\ shelf' = [j \in DOMAIN shelf \ {i} |-> shelf[j]]
  /\ keys' = [k \in Keys |-> IF keys[k] = i THEN NoItem ELSE keys[k]]
  /\ late' = late \ {i}
  /\ UNCHANGED clock

Extend(i) ==
  /\ i \in DOMAIN shelf
  /\ \E e \in Expiries : shelf' = [shelf EXCEPT ![i] = e]
  /\ late' = IF i \in Alive THEN late ELSE late \cup {i}
  /\ UNCHANGED <<keys, clock>>

Tick ==
  /\ clock < MaxClock
  /\ clock' = clock + 1
  /\ UNCHANGED <<shelf, keys, late>>

Next == Tick \/ \E i \in Items : Post(i) \/ Remove(i) \/ Extend(i)

Spec == Init /\ [][Next]_specVars
=============================================================================
