------------------------------ MODULE DropStore -----------------------------
(***************************************************************************)
(* services/drop: the item store behind the HTTP handlers.                 *)
(*                                                                         *)
(* PostgreSQL holds items, attachments and idempotency keys; the bytes of  *)
(* an attachment are a file that is renamed between directories of one     *)
(* volume.  No transaction spans both, so each handler is several steps,   *)
(* and the steps of concurrent handlers interleave.                        *)
(*                                                                         *)
(* An element of Items stands for one POST /v1/items and for the random id *)
(* the item gets if that request succeeds, so the progress of a creation   *)
(* is indexed by the item.  Deletions run in the threads Deleters (DELETE  *)
(* handlers) and Cleaner (the one cleanupLoop goroutine); Updaters run     *)
(* PATCH /v1/items/{id}.                                                   *)
(***************************************************************************)
EXTENDS Naturals, Sequences, FiniteSets

CONSTANTS
  Items, Keys, NoKey, NoItem,
  KeyOf,         \* [Items -> Keys \cup {NoKey}], the Idempotency-Key sent
  Size,          \* [Items -> Nat], total_size
  MaxSize,       \* no item is larger (DROP_MAX_ITEM_BYTES)
  Quota,         \* DROP_QUOTA_BYTES
  TTLs, MaxTTL,  \* the accepted ttl_days, and the longest of them
  Blobs,         \* attachment files
  Attach,        \* [Items -> SUBSET Blobs], the files of each request
  Deleters,      \* threads serving DELETE
  Cleaner,       \* the cleanup goroutine
  Updaters,      \* threads serving PATCH
  CleanupLimit,  \* CleanupExpired's LIMIT (200 in main.go)
  MaxClock,      \* bound of the model: the last instant
  MaxFaults      \* bound of the model: errors of the disk or database, crashes

ASSUME KeyAssumption ==
  /\ NoItem \notin Items
  /\ NoKey \notin Keys
  /\ KeyOf \in [Items -> Keys \cup {NoKey}]

ASSUME SizeAssumption ==
  /\ IsFiniteSet(Items)
  /\ MaxSize \in Nat /\ Quota \in Nat
  /\ Size \in [Items -> 0..MaxSize]

ASSUME BoundAssumption ==
  /\ MaxTTL \in Nat /\ TTLs \subseteq 1..MaxTTL /\ TTLs # {}
  /\ CleanupLimit \in Nat \ {0}
  /\ MaxClock \in Nat /\ MaxFaults \in Nat

ASSUME FileAssumption ==
  /\ Attach \in [Items -> SUBSET Blobs]
  /\ \A i, j \in Items : i # j => Attach[i] \cap Attach[j] = {}

ASSUME ThreadAssumption == Cleaner \notin Deleters

Removers == Deleters \cup {Cleaner}

VARIABLES
  rows,      \* committed rows of table items
  expires,   \* their expires_at, and the one a moving creation will insert
  keys,      \* committed rows of table idempotency_keys
  clock,     \* time.Now of the service and now() of the database
  place,     \* where the file of each attachment is
  cpc,       \* progress of each creation
  seen,      \* what a creation's SERIALIZABLE snapshot shows it
  stale,     \* creations whose snapshot misses a later creation's commit
  advisory,  \* the creation holding pg_advisory_xact_lock(298734209)
  removal,   \* the call of store.Delete each remover has in flight
  todo,      \* ids the cleanup sweep has still to delete
  patch,     \* the UPDATE each updater has in flight
  faults,    \* history: faults so far
  hit,       \* history: items whose own creation or deletion met a fault
  revived    \* history: stored items whose expiry was moved after it passed

dbVars      == <<rows, expires, keys>>
createVars  == <<cpc, seen, stale, advisory>>
historyVars == <<faults, hit, revived>>
vars == <<dbVars, clock, place, createVars, removal, todo, patch, historyVars>>

(***************************************************************************)
(* SUM(total_size).  Counting the pairs <<item, n-th byte>> is a sum that  *)
(* a prover can reason about by cardinality.                               *)
(***************************************************************************)
BytesOf(S) == {p \in S \X (1..MaxSize) : p[2] <= Size[p[1]]}
Used(S) == Cardinality(BytesOf(S))

(* The rows a query with expires_at > now() returns. *)
Live == {i \in rows : expires[i] > clock}

(* The item idempotency_keys gives for i's key. *)
Holder(i) == IF KeyOf[i] = NoKey THEN NoItem ELSE keys[KeyOf[i]]

(* OpenAttachment: the row of a live item, then the file it names. *)
OpenAttachment(i, b) ==
  IF i \in Live /\ b \in Attach[i] /\ place[b] = "blobs" THEN "opened" ELSE "not_found"

InTx(i) == cpc[i] \in {"queued", "locked", "moving"}
Running(i) == InTx(i) \/ cpc[i] \in {"uploaded", "undoing"}

NoView   == [live |-> {}, holder |-> NoItem]
NoDelete == [pc |-> "idle", item |-> NoItem, pending |-> {}, staged |-> {}]
NoPatch  == [item |-> NoItem, at |-> 0, due |-> 0]

(* A deletion holds the row lock from its SELECT ... FOR UPDATE on. *)
RowLocked(i) == \E d \in Removers : removal[d].pc = "staging" /\ removal[d].item = i

(* Every file of F is moved to w. *)
Put(F, w) == [b \in Blobs |-> IF b \in F THEN w ELSE place[b]]

FaultOn(I) ==
  /\ faults < MaxFaults
  /\ faults' = faults + 1
  /\ hit' = hit \cup I

-----------------------------------------------------------------------------
(***************************************************************************)
(* Bugs this code could have.  No action below uses these operators; each  *)
(* stands for one definition further down as a plausible slip would leave  *)
(* it, and is there to show that a property notices the slip.              *)
(***************************************************************************)

(* Conflict below SERIALIZABLE: only the key's uniqueness is checked. *)
ConflictReadCommitted(i) == Holder(i) # NoItem

(* Fits without the bytes of the new item. *)
FitsWithoutItself(i) == Used(seen[i].live) <= Quota

(* DropRow when the schema has no ON DELETE CASCADE for keys. *)
DropRowNoCascade(i) ==
  /\ rows' = rows \ {i}
  /\ expires' = [expires EXCEPT ![i] = 0]
  /\ revived' = revived \ {i}
  /\ UNCHANGED keys

(* EndCreate without createItem's deferred removal of the uploads. *)
EndCreateKeepsUploads(i, result) ==
  /\ cpc' = [cpc EXCEPT ![i] = result]
  /\ seen' = [seen EXCEPT ![i] = NoView]
  /\ advisory' = IF advisory = i THEN NoItem ELSE advisory
  /\ stale' = stale \ {i}
  /\ UNCHANGED <<dbVars, clock, place, removal, todo, patch, revived>>

(* EndCreate returning without the rollback, so that the lock stays held. *)
EndCreateNoRollback(i, result) ==
  /\ cpc' = [cpc EXCEPT ![i] = result]
  /\ seen' = [seen EXCEPT ![i] = NoView]
  /\ stale' = stale \ {i}
  /\ place' = Put(Attach[i], "none")
  /\ UNCHANGED <<dbVars, clock, advisory, removal, todo, patch, revived>>

(* StageFails without restore(). *)
StageFailsNoRestore(d) ==
  /\ removal[d].pc = "staging"
  /\ removal[d].pending # {}
  /\ removal' = [removal EXCEPT ![d] = NoDelete]
  /\ todo' = IF d = Cleaner THEN <<>> ELSE todo
  /\ FaultOn({})
  /\ UNCHANGED <<dbVars, clock, place, createVars, patch, revived>>

(* RemoveStaged clearing tmp/ instead of the files it moved there. *)
RemoveTemporary(d) ==
  /\ removal[d].pc = "removing"
  /\ place' = Put({b \in Blobs : place[b] \in {"upload", "trash"}}, "none")
  /\ removal' = [removal EXCEPT ![d] = NoDelete]
  /\ UNCHANGED <<dbVars, clock, createVars, todo, patch, historyVars>>

(* StageBlob taking a file that is missing for an error. *)
StageBlobMissing(d, b) ==
  /\ removal[d].pc = "staging" /\ b \in removal[d].pending
  /\ \/ /\ place[b] = "blobs"
        /\ place' = Put({b}, "trash")
        /\ removal' = [removal EXCEPT ![d].pending = @ \ {b}, ![d].staged = @ \cup {b}]
        /\ UNCHANGED todo
     \/ /\ place[b] # "blobs"
        /\ place' = Put(removal[d].staged, "blobs")
        /\ removal' = [removal EXCEPT ![d] = NoDelete]
        /\ todo' = IF d = Cleaner THEN <<>> ELSE todo
  /\ UNCHANGED <<dbVars, clock, createVars, patch, historyVars>>

-----------------------------------------------------------------------------

Init ==
  /\ rows = {} /\ expires = [i \in Items |-> 0]
  /\ keys = [k \in Keys |-> NoItem]
  /\ clock = 0
  /\ place = [b \in Blobs |-> "none"]
  /\ cpc = [i \in Items |-> "idle"]
  /\ seen = [i \in Items |-> NoView]
  /\ stale = {} /\ advisory = NoItem
  /\ removal = [d \in Removers |-> NoDelete]
  /\ todo = <<>>
  /\ patch = [u \in Updaters |-> NoPatch]
  /\ faults = 0 /\ hit = {} /\ revived = {}

Tick ==
  /\ clock < MaxClock
  /\ clock' = clock + 1
  /\ UNCHANGED <<dbVars, place, createVars, removal, todo, patch, historyVars>>

-----------------------------------------------------------------------------
(***************************************************************************)
(* POST /v1/items.                                                         *)
(***************************************************************************)

(* createItem spools every file of the form to tmp/upload-*. *)
Upload(i) ==
  /\ cpc[i] = "idle"
  /\ cpc' = [cpc EXCEPT ![i] = "uploaded"]
  /\ place' = Put(Attach[i], "upload")
  /\ UNCHANGED <<dbVars, clock, seen, stale, advisory, removal, todo, patch, historyVars>>

(***************************************************************************)
(* BEGIN fixes now(); the SELECT of the advisory lock is the transaction's *)
(* first statement and fixes the snapshot BEFORE it waits for the lock.    *)
(* Only what the later queries read of the snapshot is kept.               *)
(***************************************************************************)
BeginCreate(i) ==
  /\ cpc[i] = "uploaded"
  /\ cpc' = [cpc EXCEPT ![i] = "queued"]
  /\ seen' = [seen EXCEPT ![i] = [live |-> Live, holder |-> Holder(i)]]
  /\ UNCHANGED <<dbVars, clock, place, stale, advisory, removal, todo, patch, historyVars>>

LockCreate(i) ==
  /\ cpc[i] = "queued"
  /\ advisory = NoItem
  /\ cpc' = [cpc EXCEPT ![i] = "locked"]
  /\ advisory' = i
  /\ UNCHANGED <<dbVars, clock, place, seen, stale, removal, todo, patch, historyVars>>

(* The handler of i returns without an item stored: rollback, files removed. *)
EndCreate(i, result) ==
  /\ cpc' = [cpc EXCEPT ![i] = result]
  /\ seen' = [seen EXCEPT ![i] = NoView]
  /\ advisory' = IF advisory = i THEN NoItem ELSE advisory
  /\ stale' = stale \ {i}
  /\ place' = Put(Attach[i], "none")
  /\ UNCHANGED <<dbVars, clock, removal, todo, patch, revived>>

(* The key is taken: roll back and answer with Get of the item holding it. *)
ReplayCreate(i) ==
  /\ cpc[i] = "locked"
  /\ seen[i].holder # NoItem
  /\ EndCreate(i, IF seen[i].holder \in Live THEN "replayed" ELSE "gone")
  /\ UNCHANGED <<faults, hit>>

Fits(i) == Used(seen[i].live) + Size[i] <= Quota

RejectCreate(i) ==
  /\ cpc[i] = "locked"
  /\ seen[i].holder = NoItem
  /\ ~Fits(i)
  /\ EndCreate(i, "full")
  /\ UNCHANGED <<faults, hit>>

AdmitCreate(i) ==
  /\ cpc[i] = "locked"
  /\ seen[i].holder = NoItem
  /\ Fits(i)
  /\ cpc' = [cpc EXCEPT ![i] = "moving"]
  /\ \E ttl \in TTLs : expires' = [expires EXCEPT ![i] = clock + ttl]
  /\ UNCHANGED <<rows, keys, clock, place, seen, stale, advisory, removal, todo, patch, historyVars>>

(* rename tmp/upload-* to blobs/blob-*, one attachment at a time. *)
MoveBlob(i, b) ==
  /\ cpc[i] = "moving"
  /\ place[b] = "upload"
  /\ place' = [place EXCEPT ![b] = "blobs"]
  /\ UNCHANGED <<dbVars, clock, createVars, removal, todo, patch, historyVars>>

(* A statement or a rename before the commit fails: cleanup() and rollback. *)
CreateFails(i) ==
  /\ InTx(i)
  /\ EndCreate(i, "failed")
  /\ FaultOn({})

Inserting(i) == cpc[i] = "moving" /\ \A b \in Attach[i] : place[b] = "blobs"

(***************************************************************************)
(* The INSERTs or the COMMIT of i fail: another creation that committed    *)
(* after i's snapshot both read what i writes and wrote what i read (a     *)
(* serialization failure), or the key's row exists (PRIMARY KEY).          *)
(***************************************************************************)
Conflict(i) == i \in stale \/ Holder(i) # NoItem

AbortCreate(i) ==
  /\ Inserting(i)
  /\ Conflict(i)
  /\ EndCreate(i, "failed")
  /\ UNCHANGED <<faults, hit>>

StoreRow(i) ==
  /\ rows' = rows \cup {i}
  /\ keys' = [k \in Keys |-> IF k = KeyOf[i] THEN i ELSE keys[k]]
  /\ stale' = (stale \cup {j \in Items : InTx(j)}) \ {i}

CommitCreate(i) ==
  /\ Inserting(i)
  /\ ~Conflict(i)
  /\ StoreRow(i)
  /\ cpc' = [cpc EXCEPT ![i] = "created"]
  /\ seen' = [seen EXCEPT ![i] = NoView]
  /\ advisory' = NoItem
  /\ UNCHANGED <<expires, clock, place, removal, todo, patch, historyVars>>

(***************************************************************************)
(* Commit returns an error although the server may have committed: the     *)
(* connection broke, or the client went away and cancelled its context.    *)
(* Either way cleanup() follows, as CleanupCreate.                         *)
(***************************************************************************)
CommitCreateLost(i) ==
  /\ Inserting(i)
  /\ ~Conflict(i)
  /\ \/ StoreRow(i)
     \/ stale' = stale \ {i} /\ UNCHANGED <<rows, keys>>
  /\ cpc' = [cpc EXCEPT ![i] = "undoing"]
  /\ seen' = [seen EXCEPT ![i] = NoView]
  /\ advisory' = NoItem
  /\ FaultOn({i})
  /\ UNCHANGED <<expires, clock, place, removal, todo, patch, revived>>

CleanupCreate(i) ==
  /\ cpc[i] = "undoing"
  /\ cpc' = [cpc EXCEPT ![i] = "failed"]
  /\ place' = Put({b \in Attach[i] : place[b] = "blobs"}, "none")
  /\ UNCHANGED <<dbVars, clock, seen, stale, advisory, removal, todo, patch, historyVars>>

-----------------------------------------------------------------------------
(***************************************************************************)
(* DELETE /v1/items/{id} and CleanupExpired: both call store.Delete.       *)
(***************************************************************************)

(***************************************************************************)
(* SELECT storage_name ... FOR UPDATE and DELETE FROM items: waits for the *)
(* row lock, then holds it.  An absent row answers ErrNotFound and changes *)
(* nothing.                                                                *)
(***************************************************************************)
StartDelete(d, i) ==
  /\ removal[d].pc = "idle"
  /\ i \in rows /\ ~RowLocked(i)
  /\ removal' = [removal EXCEPT ![d] =
                   [pc |-> "staging", item |-> i, pending |-> Attach[i], staged |-> {}]]
  /\ UNCHANGED <<dbVars, clock, place, createVars, patch, historyVars>>

UserDelete(d, i) == StartDelete(d, i) /\ UNCHANGED todo

(* rename blobs/blob-* to tmp/delete-*; a file that is not there is skipped. *)
StageBlob(d, b) ==
  /\ removal[d].pc = "staging"
  /\ b \in removal[d].pending
  /\ LET found == {b} \cap {f \in Blobs : place[f] = "blobs"} IN
       /\ place' = Put(found, "trash")
       /\ removal' = [removal EXCEPT ![d].pending = @ \ {b}, ![d].staged = @ \cup found]
  /\ UNCHANGED <<dbVars, clock, createVars, todo, patch, historyVars>>

EndDelete(d) == removal' = [removal EXCEPT ![d] = NoDelete]

(* The rest of the sweep is abandoned when a deletion of it fails. *)
AbandonSweep(d) == todo' = IF d = Cleaner THEN <<>> ELSE todo

(* A rename fails: restore() while the row is still locked, then rollback. *)
StageFails(d) ==
  /\ removal[d].pc = "staging"
  /\ removal[d].pending # {}
  /\ place' = Put(removal[d].staged, "blobs")
  /\ EndDelete(d)
  /\ AbandonSweep(d)
  /\ FaultOn({})
  /\ UNCHANGED <<dbVars, clock, createVars, patch, revived>>

(* ON DELETE CASCADE takes the idempotency row with the item. *)
DropRow(i) ==
  /\ rows' = rows \ {i}
  /\ expires' = [expires EXCEPT ![i] = 0]
  /\ keys' = [k \in Keys |-> IF keys[k] = i THEN NoItem ELSE keys[k]]
  /\ revived' = revived \ {i}

CommitDelete(d) ==
  /\ removal[d].pc = "staging"
  /\ removal[d].pending = {}
  /\ DropRow(removal[d].item)
  /\ removal' = [removal EXCEPT ![d].pc = "removing"]
  /\ UNCHANGED <<clock, place, createVars, todo, patch, faults, hit>>

RemoveStaged(d) ==
  /\ removal[d].pc = "removing"
  /\ place' = Put(removal[d].staged, "none")
  /\ EndDelete(d)
  /\ UNCHANGED <<dbVars, clock, createVars, todo, patch, historyVars>>

(* Commit returns an error: the row lock is gone, the files not yet back. *)
CommitDeleteLost(d) ==
  /\ removal[d].pc = "staging"
  /\ removal[d].pending = {}
  /\ DropRow(removal[d].item) \/ UNCHANGED <<dbVars, revived>>
  /\ removal' = [removal EXCEPT ![d].pc = "restoring"]
  /\ AbandonSweep(d)
  /\ FaultOn({removal[d].item})
  /\ UNCHANGED <<clock, place, createVars, patch>>

RestoreStaged(d) ==
  /\ removal[d].pc = "restoring"
  /\ place' = Put(removal[d].staged, "blobs")
  /\ EndDelete(d)
  /\ UNCHANGED <<dbVars, clock, createVars, todo, patch, historyVars>>

(***************************************************************************)
(* SELECT id ... WHERE expires_at <= now() ORDER BY expires_at LIMIT n,    *)
(* where each of the n ids returned sorts before each id left out.         *)
(***************************************************************************)
Expired == {i \in rows : expires[i] <= clock}

Oldest(batch, expired) ==
  LET chosen == {batch[x] : x \in DOMAIN batch} IN
  /\ \A x, y \in DOMAIN batch :
       x < y => batch[x] # batch[y] /\ expires[batch[x]] <= expires[batch[y]]
  /\ \A i \in chosen, j \in expired \ chosen : expires[i] <= expires[j]

Sweep ==
  /\ removal[Cleaner].pc = "idle" /\ todo = <<>>
  /\ \E n \in 1..CleanupLimit : \E batch \in [1..n -> Expired] :
       /\ n = CleanupLimit \/ n = Cardinality(Expired)
       /\ Oldest(batch, Expired)
       /\ todo' = batch
  /\ UNCHANGED <<dbVars, clock, place, createVars, removal, patch, historyVars>>

(* The sweep deletes its next id, whatever has become of its expiry since. *)
SweepDelete ==
  /\ todo # <<>>
  /\ StartDelete(Cleaner, Head(todo))
  /\ todo' = Tail(todo)

SweepSkip ==
  /\ removal[Cleaner].pc = "idle" /\ todo # <<>>
  /\ Head(todo) \notin rows
  /\ todo' = Tail(todo)
  /\ UNCHANGED <<dbVars, clock, place, createVars, removal, patch, historyVars>>

(* The sweep's 20 second context ends while it waits for a row lock. *)
SweepTimeout ==
  /\ removal[Cleaner].pc = "idle" /\ todo # <<>>
  /\ RowLocked(Head(todo))
  /\ todo' = <<>>
  /\ UNCHANGED <<dbVars, clock, place, createVars, removal, patch, historyVars>>

-----------------------------------------------------------------------------
(***************************************************************************)
(* PATCH /v1/items/{id}.  now() is fixed when the UPDATE starts; it may    *)
(* then wait for the row lock, and re-checks the row it gets against that  *)
(* earlier now().                                                          *)
(***************************************************************************)
BeginUpdate(u, i) ==
  /\ patch[u] = NoPatch
  /\ i \in Live
  /\ \E ttl \in TTLs :
       patch' = [patch EXCEPT ![u] = [item |-> i, at |-> clock, due |-> clock + ttl]]
  /\ UNCHANGED <<dbVars, clock, place, createVars, removal, todo, historyVars>>

FinishUpdate(u) ==
  LET p == patch[u] IN
  /\ p # NoPatch
  /\ ~RowLocked(p.item)
  /\ IF p.item \in rows /\ expires[p.item] > p.at
       THEN /\ expires' = [expires EXCEPT ![p.item] = p.due]
            /\ revived' = IF p.item \in Live THEN revived ELSE revived \cup {p.item}
       ELSE UNCHANGED <<expires, revived>>
  /\ patch' = [patch EXCEPT ![u] = NoPatch]
  /\ UNCHANGED <<rows, keys, clock, place, createVars, removal, todo, faults, hit>>

-----------------------------------------------------------------------------
(***************************************************************************)
(* The process dies and is restarted by compose.  PostgreSQL rolls every   *)
(* open transaction back; the files stay where they are, and nothing at    *)
(* start-up looks for them.                                                *)
(***************************************************************************)
Crash ==
  /\ FaultOn({i \in Items : Running(i) \/ \E d \in Removers : removal[d].item = i})
  /\ cpc' = [i \in Items |-> IF Running(i) THEN "failed" ELSE cpc[i]]
  /\ seen' = [i \in Items |-> NoView]
  /\ stale' = {} /\ advisory' = NoItem
  /\ removal' = [d \in Removers |-> NoDelete]
  /\ todo' = <<>>
  /\ patch' = [u \in Updaters |-> NoPatch]
  /\ UNCHANGED <<dbVars, clock, place, revived>>

CreateStep(i) ==
  \/ BeginCreate(i) \/ LockCreate(i)
  \/ ReplayCreate(i) \/ RejectCreate(i) \/ AdmitCreate(i)
  \/ \E b \in Attach[i] : MoveBlob(i, b)
  \/ CommitCreate(i) \/ AbortCreate(i) \/ CleanupCreate(i)

RemoveStep(d) ==
  \/ \E b \in Blobs : StageBlob(d, b)
  \/ CommitDelete(d) \/ RemoveStaged(d) \/ RestoreStaged(d)

SweepStep == Sweep \/ SweepDelete \/ SweepSkip

Request ==
  \/ \E i \in Items : Upload(i)
  \/ \E d \in Deleters, i \in Items : UserDelete(d, i)
  \/ \E u \in Updaters, i \in Items : BeginUpdate(u, i)

Fault ==
  \/ \E i \in Items : CreateFails(i) \/ CommitCreateLost(i)
  \/ \E d \in Removers : StageFails(d) \/ CommitDeleteLost(d)
  \/ SweepTimeout
  \/ Crash

Next ==
  \/ Tick
  \/ Request
  \/ \E i \in Items : CreateStep(i)
  \/ \E d \in Removers : RemoveStep(d)
  \/ SweepStep
  \/ \E u \in Updaters : FinishUpdate(u)
  \/ Fault

Spec == Init /\ [][Next]_vars

(***************************************************************************)
(* Every goroutine that can take a step eventually does; requests, faults  *)
(* and the passing of time are never forced.  Weak fairness is enough for  *)
(* the locks: only finitely many creations and failures can take one away. *)
(***************************************************************************)
FairSpec ==
  /\ Spec
  /\ \A i \in Items : WF_vars(CreateStep(i))
  /\ \A d \in Removers : WF_vars(RemoveStep(d))
  /\ WF_vars(SweepStep)
  /\ \A u \in Updaters : WF_vars(FinishUpdate(u))

-----------------------------------------------------------------------------
(***************************************************************************)
(* What makes the store correct.                                           *)
(***************************************************************************)

Active == [pc : {"staging", "removing", "restoring"}, item : Items,
           pending : SUBSET Blobs, staged : SUBSET Blobs]

Typed ==
  /\ rows \subseteq Items /\ expires \in [Items -> Nat]
  /\ keys \in [Keys -> Items \cup {NoItem}]
  /\ clock \in Nat
  /\ place \in [Blobs -> {"none", "upload", "blobs", "trash"}]
  /\ cpc \in [Items -> {"idle", "uploaded", "queued", "locked", "moving", "undoing",
                         "created", "replayed", "gone", "full", "failed"}]
  /\ seen \in [Items -> [live : SUBSET Items, holder : Items \cup {NoItem}]]
  /\ stale \subseteq Items /\ advisory \in Items \cup {NoItem}
  /\ removal \in [Removers -> Active \cup {NoDelete}]
  /\ todo \in Seq(Items)
  /\ patch \in [Updaters -> [item : Items \cup {NoItem}, at : Nat, due : Nat]]
  /\ faults \in Nat /\ hit \subseteq Items /\ revived \subseteq Items

LockHeld == \A i \in Items : cpc[i] \in {"locked", "moving"} <=> advisory = i

(* The variables stay in their types; the advisory lock is held by the one *)
(* creation past its lock statement, and by none that has committed,       *)
(* failed or answered.                                                     *)
TypeOK == Typed /\ LockHeld

(* DROP_QUOTA_BYTES bounds the bytes of live items although each creation  *)
(* sums them in a snapshot older than the lock it holds.  Items a PATCH    *)
(* brought back after they expired are not counted: nothing checks them.   *)
QuotaRespected == Used(Live \ revived) <= Quota

(* The idempotency table and the items stay in step across concurrent      *)
(* creations, deletions and crashes: a key names the one stored item that  *)
(* was created with it, so no two stored items ever share a key.           *)
OneItemPerKey ==
  /\ \A i \in rows : KeyOf[i] # NoKey => keys[KeyOf[i]] = i
  /\ \A k \in Keys : keys[k] # NoItem => keys[k] \in rows

(* A reader who is shown a live item can open every attachment of it,      *)
(* unless a deletion holds its row or its own creation or deletion met a   *)
(* fault: no other handler, sweep or crash ever costs an item a file.      *)
AttachmentsOpen ==
  \A i \in Live \ hit : ~RowLocked(i) =>
    \A b \in Attach[i] : OpenAttachment(i, b) = "opened"

(* No file outlives its use: one under blobs/ belongs to a stored item or  *)
(* to a creation still running, one under tmp/ to a running creation or    *)
(* deletion, always leaving aside items whose own handler met a fault.     *)
NoLitter ==
  \A i \in Items \ hit : \A b \in Attach[i] :
    /\ place[b] = "blobs" => i \in rows \/ cpc[i] = "moving"
    /\ place[b] = "upload" => Running(i)
    /\ place[b] = "trash" => \E d \in Removers : b \in removal[d].staged

(* Each step, seen from outside, is one of the instantaneous operations of *)
(* DropSpec, or none: the stale snapshots never show.                      *)
Abstract == INSTANCE DropSpec WITH
  shelf <- [i \in rows |-> expires[i]],
  late <- revived
ImplementsDropSpec == Abstract!Spec

(* Once the files of a request are spooled, its handler answers: the waits *)
(* for the advisory lock and for row locks always end.                     *)
RequestsAnswered == \A i \in Items : cpc[i] = "uploaded" ~> ~Running(i)

(* What a creation under way needs for its next step. *)
CanCreate(i) ==
  \/ cpc[i] \in {"uploaded", "locked", "undoing"}
  \/ cpc[i] = "queued" /\ advisory = NoItem
  \/ cpc[i] = "moving" /\ \A b \in Attach[i] : place[b] \in {"upload", "blobs"}

(* The queue for the advisory lock moves: a creation under way can take    *)
(* its next step, or waits for one that can.  None keeps the lock after    *)
(* its answer, and no file is missing that its holder has still to move.   *)
QueueMoves == \A i \in Items : Running(i) => \E j \in {i, advisory} \cap Items : CanCreate(j)

(* Every item that expires leaves the database, whatever deletions race    *)
(* with the sweep, as long as the disk and database err finitely often:    *)
(* also one that has lost files to a crash or a lost commit, and those     *)
(* that wait behind it.                                                    *)
ExpiredLeave == \A i \in Items : i \in rows \ Live ~> i \notin rows \ Live

-----------------------------------------------------------------------------
(***************************************************************************)
(* The inductive invariant behind them (proved in DropStoreProofs).        *)
(***************************************************************************)

(* The request of i has been answered, or has committed or lost its commit. *)
Settled(i) == cpc[i] \notin {"idle", "uploaded", "queued", "locked", "moving"}

CreationInv ==
  /\ LockHeld
  /\ \A i \in rows : Settled(i)
  /\ \A i \in stale : InTx(i)
  /\ revived \subseteq rows

(* A snapshot that is not stale overestimates the live items and keys.     *)
SnapshotInv ==
  \A i \in Items :
    /\ InTx(i) /\ i \notin stale =>
         /\ Live \ revived \subseteq seen[i].live
         /\ seen[i].holder = NoItem => Holder(i) = NoItem
    /\ cpc[i] = "moving" => seen[i].holder = NoItem /\ Fits(i)

RemovalOK(d) == LET r == removal[d] IN
  /\ r.item = NoItem <=> r.pc = "idle"
  /\ r.pc # "idle" => Settled(r.item) /\ r.pending \cup r.staged \subseteq Attach[r.item]
  /\ r.pc = "staging" => r.item \in rows
  /\ r.pc = "removing" => r.item \notin rows
  /\ r.pc = "restoring" => r.item \in hit
  /\ \A e \in Removers \ {d} : removal[e].item = r.item /\ r.item # NoItem =>
       r.item \in hit /\ ~(r.pc = "staging" /\ removal[e].pc = "staging")

RemovalInv == \A d \in Removers : RemovalOK(d)

FilesOK(i) ==
  /\ cpc[i] # "undoing"
  /\ \A b \in Attach[i] :
       /\ place[b] = "upload" => cpc[i] = "uploaded" \/ InTx(i)
       /\ place[b] = "blobs" => i \in rows \/ cpc[i] = "moving"
       /\ i \in rows => place[b] \in {"blobs", "trash"}
       /\ place[b] = "trash" => \E d \in Removers : removal[d].item = i
  /\ \A d \in Removers : removal[d].item = i =>
       /\ removal[d].staged = {b \in Attach[i] : place[b] = "trash"}
       /\ removal[d].pc = "staging" => removal[d].pending = Attach[i] \ removal[d].staged

FileInv == \A i \in Items \ hit : FilesOK(i)

(* Nobody takes a spooled file away from the creation it belongs to. *)
SpoolInv ==
  \A i \in Items : cpc[i] = "uploaded" \/ InTx(i) =>
    \A b \in Attach[i] : place[b] \in {"upload", "blobs"}

(* No expiry, stored or about to be, lies further ahead than MaxTTL. *)
ExpiryInv ==
  /\ \A i \in Items : expires[i] <= clock + MaxTTL
  /\ \A u \in Updaters : patch[u].due <= clock + MaxTTL

IInv ==
  /\ Typed /\ QuotaRespected /\ OneItemPerKey
  /\ CreationInv /\ SnapshotInv /\ RemovalInv /\ FileInv /\ ExpiryInv
=============================================================================
