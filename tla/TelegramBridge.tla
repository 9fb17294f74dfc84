---------------------------- MODULE TelegramBridge ---------------------------
(***************************************************************************)
(* services/telegram-bridge: the worker that forwards Telegram messages to *)
(* Drop, one update at a time.                                             *)
(*                                                                         *)
(* Updates are numbered in the order Telegram hands them out.  Telegram    *)
(* keeps an update until a getUpdates call carries a higher offset; the    *)
(* bridge keeps its offset in memory only, so a restart repeats whatever   *)
(* was not confirmed.  Drop is seen through its POST /v1/items, whose      *)
(* Idempotency-Key the bridge derives from the message: an item holds the  *)
(* key of its message until it is deleted.                                 *)
(***************************************************************************)
EXTENDS Naturals

CONSTANTS
  Last,         \* bound of the model: updates 1..Last are sent
  KindOf,       \* [1..Last -> Kinds]
  Acked,        \* messages whose forwarding is acknowledged (ACK_MODE)
  BatchLimit,   \* most updates in one getUpdates answer (100)
  MaxFaults     \* bound of the model: failed calls and crashes

Updates == 1..Last

(***************************************************************************)
(* text and file are forwarded; big turns out too big at getFile; notice   *)
(* is answered at once (commands, unsupported or announced as too big);    *)
(* silent is dropped (not allowed, unknown command, no message in it).     *)
(***************************************************************************)
Kinds == {"text", "file", "big", "notice", "silent"}

ASSUME UpdateAssumption ==
  /\ Last \in Nat /\ BatchLimit \in Nat \ {0} /\ MaxFaults \in Nat
  /\ KindOf \in [Updates -> Kinds]
  /\ Acked \subseteq Updates

VARIABLES
  sent,        \* Telegram has updates 1..sent
  confirmed,   \* and has forgotten 1..confirmed
  pc,          \* where the bridge's one goroutine is
  offset,      \* its offset variable
  next, last,  \* updates next..last of the current batch are unhandled
  shelf,       \* Drop's item for each message: none, live or expired
  orphans,     \* POSTs per message that Drop may still serve unobserved
  made,        \* history: items Drop has created for each message
  removed,     \* history: messages an item of which was deleted
  faults       \* history: faults so far

bridgeVars == <<pc, offset, next, last>>
dropVars   == <<shelf, orphans, made, removed>>
vars == <<sent, confirmed, bridgeVars, dropVars, faults>>

Forwarded(m) == KindOf[m] \in {"text", "file"}

-----------------------------------------------------------------------------
(***************************************************************************)
(* Bugs this code could have; each stands for a definition below.          *)
(***************************************************************************)

(* Done acknowledging the whole batch after its first update. *)
DoneWithBatch ==
  /\ offset' = last + 1
  /\ next' = next + 1 /\ UNCHANGED last
  /\ pc' = IF next < last THEN "handle" ELSE "poll"

(* Done counting the offset on from one past the update. *)
DoneSkipsOne ==
  /\ offset' = next + 2
  /\ next' = next + 1 /\ UNCHANGED last
  /\ pc' = IF next < last THEN "handle" ELSE "poll"

(* Done with the + 1 of the offset forgotten. *)
DoneNotPast ==
  /\ offset' = next
  /\ next' = next + 1 /\ UNCHANGED last
  /\ pc' = IF next < last THEN "handle" ELSE "poll"

(* Retry without the break: the loop goes on with the next update. *)
RetryLater ==
  /\ next' = next + 1 /\ UNCHANGED <<last, offset>>
  /\ pc' = IF next < last THEN "handle" ELSE "poll"

(* StoreItem when each attempt makes up a key of its own. *)
StoreItemAnew(m) ==
  /\ shelf' = [shelf EXCEPT ![m] = "live"]
  /\ made' = [made EXCEPT ![m] = @ + 1]

-----------------------------------------------------------------------------

Init ==
  /\ sent = 0 /\ confirmed = 0
  /\ pc = "down" /\ offset = 0
  /\ next = 1 /\ last = 0
  /\ shelf = [m \in Updates |-> "none"]
  /\ orphans = [m \in Updates |-> 0]
  /\ made = [m \in Updates |-> 0]
  /\ removed = {}
  /\ faults = 0

Send ==
  /\ sent < Last
  /\ sent' = sent + 1
  /\ UNCHANGED <<confirmed, bridgeVars, dropVars, faults>>

(* run: deleteWebhook and getMe, then Run with offset 0. *)
Start ==
  /\ pc = "down"
  /\ pc' = "poll" /\ offset' = 0 /\ next' = 1 /\ last' = 0
  /\ UNCHANGED <<sent, confirmed, dropVars, faults>>

(* getUpdates(offset) makes Telegram forget every update below offset. *)
Confirm == confirmed' = IF offset > confirmed + 1 THEN offset - 1 ELSE confirmed

Batch ==
  /\ next' = confirmed' + 1
  /\ last' = IF sent < confirmed' + BatchLimit THEN sent ELSE confirmed' + BatchLimit

Poll ==
  /\ pc = "poll"
  /\ Confirm
  /\ Batch
  /\ pc' = IF next' <= last' THEN "handle" ELSE "poll"
  /\ UNCHANGED <<sent, offset, dropVars, faults>>

(* HandleUpdate returned nil: the offset moves past the update. *)
Done ==
  /\ offset' = next + 1
  /\ next' = next + 1 /\ UNCHANGED last
  /\ pc' = IF next < last THEN "handle" ELSE "poll"

(* HandleUpdate returned an error: wait, break and poll again. *)
Retry == pc' = "poll" /\ next' = 1 /\ last' = 0 /\ UNCHANGED offset

GoTo(where) == pc' = where /\ UNCHANGED <<offset, next, last>>

(* HandleUpdate up to its first call of another service. *)
Dispatch ==
  /\ pc = "handle"
  /\ CASE KindOf[next] = "silent" -> Done
       [] KindOf[next] = "notice" -> GoTo("reply")
       [] KindOf[next] = "text" -> GoTo("create")
       [] OTHER -> GoTo("fetch")
  /\ UNCHANGED <<sent, confirmed, dropVars, faults>>

(* getFile tells the real size; a file that fits is opened for streaming. *)
Fetch ==
  /\ pc = "fetch"
  /\ GoTo(IF KindOf[next] = "big" THEN "reply" ELSE "create")
  /\ UNCHANGED <<sent, confirmed, dropVars, faults>>

(* Drop serves a POST for m: the key's item, or a new one, whose expiry is *)
(* fixed before its files are moved and may have passed when it is stored. *)
StoreItem(m) ==
  IF shelf[m] = "none"
    THEN /\ \E fresh \in {"live", "expired"} : shelf' = [shelf EXCEPT ![m] = fresh]
         /\ made' = [made EXCEPT ![m] = @ + 1]
    ELSE UNCHANGED <<shelf, made>>

Create ==
  /\ pc = "create"
  /\ shelf[next] # "expired"
  /\ StoreItem(next)
  /\ IF next \in Acked THEN GoTo("reply") ELSE Done
  /\ UNCHANGED <<sent, confirmed, orphans, removed, faults>>

(* The key is held by an item that has expired: Drop answers not_found. *)
CreateGone ==
  /\ pc = "create"
  /\ shelf[next] = "expired"
  /\ Retry
  /\ UNCHANGED <<sent, confirmed, dropVars, faults>>

Reply ==
  /\ pc = "reply"
  /\ Done
  /\ UNCHANGED <<sent, confirmed, dropVars, faults>>

-----------------------------------------------------------------------------
(***************************************************************************)
(* What the bridge does not control.                                       *)
(***************************************************************************)

(* A POST the bridge stopped waiting for may reach Drop all the same. *)
ServeOrphan(m) ==
  /\ orphans[m] > 0
  /\ orphans' = [orphans EXCEPT ![m] = @ - 1]
  /\ StoreItem(m) \/ UNCHANGED <<shelf, made>>
  /\ UNCHANGED <<sent, confirmed, bridgeVars, removed, faults>>

(* Time passes for all items at once. *)
Expire(gone) ==
  /\ \A m \in gone : shelf[m] = "live"
  /\ shelf' = [m \in Updates |-> IF m \in gone THEN "expired" ELSE shelf[m]]
  /\ UNCHANGED <<sent, confirmed, bridgeVars, orphans, made, removed, faults>>

(* A PATCH that began before the expiry is applied after it. *)
Revive(m) ==
  /\ shelf[m] = "expired"
  /\ shelf' = [shelf EXCEPT ![m] = "live"]
  /\ UNCHANGED <<sent, confirmed, bridgeVars, orphans, made, removed, faults>>

(* A user deletes the item, or the sweep does; its key goes with it. *)
Remove(m) ==
  /\ shelf[m] # "none"
  /\ shelf' = [shelf EXCEPT ![m] = "none"]
  /\ removed' = removed \cup {m}
  /\ UNCHANGED <<sent, confirmed, bridgeVars, orphans, made, faults>>

Sweep(m) == shelf[m] = "expired" /\ Remove(m)

Fault == faults < MaxFaults /\ faults' = faults + 1

Orphan ==
  orphans' = IF pc = "create" THEN [orphans EXCEPT ![next] = @ + 1] ELSE orphans

(* The answer of getUpdates is lost, but the offset was heard. *)
PollLost ==
  /\ pc = "poll"
  /\ Confirm
  /\ Fault
  /\ UNCHANGED <<sent, bridgeVars, dropVars>>

(* A call fails or its answer is lost, a token exchange and Drop's own *)
(* refusals (quota, conflict) among them.                              *)
CallFails ==
  /\ pc \in {"fetch", "create", "reply"}
  /\ Retry
  /\ Orphan
  /\ Fault
  /\ UNCHANGED <<sent, confirmed, shelf, made, removed>>

Crash ==
  /\ pc # "down"
  /\ pc' = "down" /\ UNCHANGED <<offset, next, last>>
  /\ Orphan
  /\ Fault
  /\ UNCHANGED <<sent, confirmed, shelf, made, removed>>

BridgeStep == Start \/ Poll \/ Dispatch \/ Fetch \/ Create \/ CreateGone \/ Reply

DropStep ==
  \/ \E m \in Updates : ServeOrphan(m) \/ Revive(m) \/ Remove(m)
  \/ \E gone \in SUBSET Updates : Expire(gone)

Next == Send \/ BridgeStep \/ DropStep \/ PollLost \/ CallFails \/ Crash

Spec == Init /\ [][Next]_vars

(***************************************************************************)
(* The bridge's loop runs, compose restarts it, and Drop's sweep deletes   *)
(* what has expired.  Nothing forces a message, a deletion or a fault.     *)
(***************************************************************************)
FairSpec ==
  /\ Spec
  /\ WF_vars(BridgeStep)
  /\ \A m \in Updates : WF_vars(Sweep(m))

-----------------------------------------------------------------------------

TypeOK ==
  /\ sent \in 0..Last /\ confirmed \in 0..Last
  /\ pc \in {"down", "poll", "handle", "fetch", "create", "reply"}
  /\ offset \in 0..(Last + 1) /\ next \in 1..(Last + 1) /\ last \in 0..Last
  /\ shelf \in [Updates -> {"none", "live", "expired"}]
  /\ orphans \in [Updates -> Nat] /\ made \in [Updates -> Nat]
  /\ removed \subseteq Updates /\ faults \in Nat

(* At least once: what Telegram has forgotten has become an item, however  *)
(* crashes, lost answers and retries fell.                                 *)
NothingLost == \A m \in Updates : m <= confirmed /\ Forwarded(m) => made[m] > 0

(* At most once: a message gets a second item only after one of its items  *)
(* was deleted, however often it was retried and whatever a POST given up  *)
(* by the bridge did later.                                                *)
OnePerMessage == \A m \in Updates : made[m] > 1 => m \in removed

(* In order: no message becomes an item before every earlier one has, so a *)
(* failing message holds the later ones back rather than losing its place. *)
InOrder ==
  \A m, n \in Updates : m < n /\ made[n] > 0 /\ Forwarded(m) => made[m] > 0

(* Progress: every update is handled and confirmed in the end; an expired  *)
(* item that still holds the key delays its message, but not for ever --   *)
(* unless late PATCHes keep saving it from the sweep without end.          *)
Drained ==
  <>[][\A m \in Updates : ~Revive(m)]_vars =>
    \A m \in Updates : sent >= m ~> confirmed >= m

-----------------------------------------------------------------------------
(***************************************************************************)
(* The inductive invariant (proved in TelegramBridgeProofs).               *)
(***************************************************************************)

(* Every message below k that is to be forwarded has become an item. *)
Handled(k) == \A m \in Updates : m < k /\ Forwarded(m) => made[m] > 0

ProgressInv ==
  /\ Handled(offset) /\ Handled(confirmed + 1)
  /\ last <= sent
  /\ pc \in {"handle", "fetch", "create", "reply"} => next <= last /\ Handled(next)
  /\ pc = "fetch" => KindOf[next] \in {"file", "big"}
  /\ pc = "create" => Forwarded(next)
  /\ pc = "reply" /\ Forwarded(next) => made[next] > 0

ItemInv ==
  \A m \in Updates :
    /\ made[m] > 0 \/ orphans[m] > 0 => Handled(m)
    /\ made[m] > 0 /\ shelf[m] = "none" => m \in removed
    /\ made[m] = 0 => shelf[m] = "none"
    /\ made[m] > 1 => m \in removed

IInv == TypeOK /\ ProgressInv /\ ItemInv
=============================================================================
