--------------------------- MODULE DropStoreProofs --------------------------
(***************************************************************************)
(* Theorems about DropStore, for every set of items, files and threads,    *)
(* every quota and every bound on time and faults.                         *)
(***************************************************************************)
EXTENDS DropStore, FiniteSetTheorems, SequenceTheorems, TLAPS

-----------------------------------------------------------------------------
(***************************************************************************)
(* The bytes of a set of items.                                            *)
(***************************************************************************)

(* Any set of items has finitely many bytes. *)
LEMMA BytesFinite ==
  ASSUME NEW S \in SUBSET Items
  PROVE  IsFiniteSet(BytesOf(S)) /\ Used(S) \in Nat
<1>1. IsFiniteSet(S)
  BY SizeAssumption, FS_Subset
<1>2. IsFiniteSet(1..MaxSize)
  BY SizeAssumption, FS_Interval
<1>3. IsFiniteSet(S \X (1..MaxSize))
  BY <1>1, <1>2, FS_Product
<1>4. BytesOf(S) \in SUBSET (S \X (1..MaxSize))
  BY DEF BytesOf
<1>5. QED
  BY <1>3, <1>4, FS_Subset, FS_CardinalityType DEF Used

(* Fewer items use no more bytes. *)
LEMMA UsedMonotone ==
  ASSUME NEW T \in SUBSET Items, NEW S \in SUBSET T
  PROVE  Used(S) <= Used(T)
<1>1. BytesOf(S) \in SUBSET BytesOf(T)
  BY DEF BytesOf
<1>2. IsFiniteSet(BytesOf(T))
  BY BytesFinite
<1>3. QED
  BY <1>1, <1>2, FS_Subset DEF Used

(* One item uses its size. *)
LEMMA UsedOne ==
  ASSUME NEW i \in Items
  PROVE  Used({i}) = Size[i]
<1>1. Size[i] \in Nat /\ Size[i] <= MaxSize /\ MaxSize \in Nat
  BY SizeAssumption
<1> DEFINE f == [n \in 1..Size[i] |-> <<i, n>>]
<1>2. f \in Bijection(1..Size[i], BytesOf({i}))
  <2>1. \A n \in 1..Size[i] : <<i, n>> \in BytesOf({i})
    BY <1>1 DEF BytesOf
  <2>2. f \in [1..Size[i] -> BytesOf({i})]
    BY <2>1
  <2>3. \A m, n \in 1..Size[i] : f[m] = f[n] => m = n
    OBVIOUS
  <2>4. ASSUME NEW p \in BytesOf({i}) PROVE \E n \in 1..Size[i] : f[n] = p
    <3>1. p = <<i, p[2]>> /\ p[2] \in 1..MaxSize /\ p[2] <= Size[i]
      BY DEF BytesOf
    <3>2. p[2] \in 1..Size[i] /\ f[p[2]] = p
      BY <1>1, <3>1
    <3>3. QED
      BY <3>2
  <2>5. QED
    BY <2>2, <2>3, <2>4 DEF Bijection, Injection, Surjection, IsInjective
<1>3. IsFiniteSet(1..Size[i]) /\ Cardinality(1..Size[i]) = Size[i]
  <2>1. Size[i] \in Int /\ 1 \in Int
    BY <1>1
  <2>2. /\ IsFiniteSet(1..Size[i])
        /\ Cardinality(1..Size[i]) = IF 1 > Size[i] THEN 0 ELSE Size[i] - 1 + 1
    BY ONLY <2>1, FS_Interval
  <2>3. QED
    BY <1>1, <2>2
<1>4. ExistsBijection(1..Size[i], BytesOf({i}))
  BY <1>2 DEF ExistsBijection
<1>5. QED
  BY <1>3, <1>4, FS_Bijection DEF Used

(* Adding an item adds at most its size. *)
LEMMA UsedAdd ==
  ASSUME NEW S \in SUBSET Items, NEW i \in Items
  PROVE  Used(S \cup {i}) <= Used(S) + Size[i]
<1>1. BytesOf(S \cup {i}) = BytesOf(S) \cup BytesOf({i})
  BY DEF BytesOf
<1>2. IsFiniteSet(BytesOf(S)) /\ IsFiniteSet(BytesOf({i}))
  BY BytesFinite
<1>3. IsFiniteSet(BytesOf(S) \cap BytesOf({i}))
  BY <1>2, FS_Intersection
<1>4. /\ Cardinality(BytesOf(S) \cup BytesOf({i})) =
           Cardinality(BytesOf(S)) + Cardinality(BytesOf({i}))
             - Cardinality(BytesOf(S) \cap BytesOf({i}))
      /\ Cardinality(BytesOf(S)) \in Nat
      /\ Cardinality(BytesOf({i})) \in Nat
      /\ Cardinality(BytesOf(S) \cap BytesOf({i})) \in Nat
  BY <1>2, <1>3, FS_Union, FS_CardinalityType
<1>5. /\ Used(S \cup {i}) = Cardinality(BytesOf(S) \cup BytesOf({i}))
      /\ Used(S) = Cardinality(BytesOf(S))
      /\ Size[i] = Cardinality(BytesOf({i}))
  BY <1>1, UsedOne DEF Used
<1>6. QED
  BY <1>4, <1>5

-----------------------------------------------------------------------------
(***************************************************************************)
(* Types.                                                                  *)
(***************************************************************************)

LEMMA InitType == Init => Typed
<1> SUFFICES ASSUME Init PROVE Typed
  OBVIOUS
<1>1. NoView \in [live : SUBSET Items, holder : Items \cup {NoItem}]
  BY DEF NoView
<1>2. NoDelete \in Active \cup {NoDelete}
  OBVIOUS
<1>3. NoPatch \in [item : Items \cup {NoItem}, at : Nat, due : Nat]
  BY DEF NoPatch
<1>4. todo \in Seq(Items)
  BY DEF Init
<1>5. QED
  BY <1>1, <1>2, <1>3, <1>4 DEF Init, Typed

(* Facts of the types that several steps use. *)
LEMMA TypeFacts ==
  ASSUME Typed
  PROVE  /\ Live \in SUBSET Items
         /\ \A i \in Items : Holder(i) \in Items \cup {NoItem}
         /\ NoView \in [live : SUBSET Items, holder : Items \cup {NoItem}]
         /\ \A d \in Removers : removal[d].pc # "idle" => removal[d] \in Active
         /\ NoPatch \in [item : Items \cup {NoItem}, at : Nat, due : Nat]
         /\ TTLs \subseteq Nat
         /\ Cleaner \in Removers /\ Deleters \subseteq Removers
<1>1. \A i \in Items : KeyOf[i] # NoKey => KeyOf[i] \in Keys
  BY KeyAssumption
<1>2. TTLs \subseteq Nat
  BY BoundAssumption
<1>3. QED
  BY <1>1, <1>2 DEF Typed, Live, Holder, NoView, NoDelete, NoPatch, Active, Removers

LEMMA TypeStep == Typed /\ [Next]_vars => Typed'
<1> SUFFICES ASSUME Typed, [Next]_vars PROVE Typed'
  OBVIOUS
<1> USE TypeFacts
<1>1. CASE UNCHANGED vars
  BY <1>1 DEF vars, dbVars, createVars, historyVars, Typed
<1>2. CASE Tick
  BY <1>2 DEF Tick, dbVars, createVars, historyVars, Typed
<1>3. ASSUME NEW i \in Items, Upload(i) PROVE Typed'
  BY <1>3 DEF Upload, Put, dbVars, historyVars, Typed
<1>4. ASSUME NEW i \in Items, BeginCreate(i) PROVE Typed'
  BY <1>4 DEF BeginCreate, dbVars, historyVars, Typed
<1>5. ASSUME NEW i \in Items, LockCreate(i) PROVE Typed'
  BY <1>5 DEF LockCreate, dbVars, historyVars, Typed
<1>6. ASSUME NEW i \in Items, NEW result \in {"replayed", "gone", "full", "failed"},
             EndCreate(i, result), faults' \in Nat, hit' \subseteq Items
      PROVE  Typed'
  BY <1>6 DEF EndCreate, Put, dbVars, Typed
<1>7. ASSUME NEW i \in Items, ReplayCreate(i) \/ RejectCreate(i) \/ AbortCreate(i) PROVE Typed'
  <2>1. faults' \in Nat /\ hit' \subseteq Items
    BY <1>7 DEF ReplayCreate, RejectCreate, AbortCreate, Typed
  <2>2. \E result \in {"replayed", "gone", "full", "failed"} : EndCreate(i, result)
    BY <1>7 DEF ReplayCreate, RejectCreate, AbortCreate
  <2>3. QED
    BY <2>1, <2>2, <1>6
<1>8. ASSUME NEW i \in Items, CreateFails(i) PROVE Typed'
  <2>1. faults' \in Nat /\ hit' \subseteq Items
    BY <1>8 DEF CreateFails, FaultOn, Typed
  <2>2. QED
    BY <1>8, <2>1, <1>6 DEF CreateFails
<1>9. ASSUME NEW i \in Items, AdmitCreate(i) PROVE Typed'
  BY <1>9 DEF AdmitCreate, historyVars, Typed
<1>10. ASSUME NEW i \in Items, NEW b \in Blobs, MoveBlob(i, b) PROVE Typed'
  BY <1>10 DEF MoveBlob, dbVars, createVars, historyVars, Typed
<1>11. ASSUME NEW i \in Items, CommitCreate(i) PROVE Typed'
  BY <1>11 DEF CommitCreate, StoreRow, historyVars, Typed
<1>12. ASSUME NEW i \in Items, CommitCreateLost(i) PROVE Typed'
  <2>1. /\ rows' \subseteq Items /\ stale' \subseteq Items
        /\ keys' \in [Keys -> Items \cup {NoItem}]
    <3>1. CASE StoreRow(i)
      BY <3>1 DEF StoreRow, Typed
    <3>2. CASE stale' = stale \ {i} /\ UNCHANGED <<rows, keys>>
      BY <3>2 DEF Typed
    <3>3. QED
      BY <1>12, <3>1, <3>2 DEF CommitCreateLost
  <2>2. faults' \in Nat /\ hit' \subseteq Items
    BY <1>12 DEF CommitCreateLost, FaultOn, Typed
  <2>3. QED
    BY <1>12, <2>1, <2>2 DEF CommitCreateLost, Typed
<1>13. ASSUME NEW i \in Items, CleanupCreate(i) PROVE Typed'
  BY <1>13 DEF CleanupCreate, Put, dbVars, historyVars, Typed
<1>14. ASSUME NEW d \in Removers, NEW i \in Items, StartDelete(d, i), todo' \in Seq(Items)
       PROVE  Typed'
  <2>1. [pc |-> "staging", item |-> i, pending |-> Attach[i], staged |-> {}] \in Active
    BY FileAssumption DEF Active
  <2>2. QED
    BY <1>14, <2>1 DEF StartDelete, dbVars, createVars, historyVars, Typed
<1>15. ASSUME NEW d \in Deleters, NEW i \in Items, UserDelete(d, i) PROVE Typed'
  BY <1>14, <1>15 DEF UserDelete, Typed
<1>16. ASSUME NEW d \in Removers, NEW b \in Blobs, StageBlob(d, b) PROVE Typed'
  <2>0. removal[d] \in Active
    BY <1>16 DEF StageBlob
  <2>1. removal' \in [Removers -> Active \cup {NoDelete}]
    BY <1>16, <2>0 DEF StageBlob, Active, Typed
  <2>2. QED
    BY <1>16, <2>1 DEF StageBlob, Put, dbVars, createVars, historyVars, Typed
<1>17. ASSUME NEW d \in Removers, StageFails(d) PROVE Typed'
  BY <1>17 DEF StageFails, EndDelete, AbandonSweep, FaultOn, Put, dbVars, createVars, Typed
<1>18. ASSUME NEW d \in Removers, CommitDelete(d) PROVE Typed'
  <2>0. removal[d] \in Active
    BY <1>18 DEF CommitDelete
  <2>1. removal' \in [Removers -> Active \cup {NoDelete}]
    BY <1>18, <2>0 DEF CommitDelete, Active, Typed
  <2>2. QED
    BY <1>18, <2>0, <2>1 DEF CommitDelete, DropRow, Active, createVars, Typed
<1>19. ASSUME NEW d \in Removers, RemoveStaged(d) PROVE Typed'
  BY <1>19 DEF RemoveStaged, EndDelete, Put, dbVars, createVars, historyVars, Typed
<1>20. ASSUME NEW d \in Removers, CommitDeleteLost(d) PROVE Typed'
  <2>0. removal[d] \in Active
    BY <1>20 DEF CommitDeleteLost
  <2>1. removal' \in [Removers -> Active \cup {NoDelete}]
    BY <1>20, <2>0 DEF CommitDeleteLost, Active, Typed
  <2>2. todo' \in Seq(Items)
    BY <1>20 DEF CommitDeleteLost, AbandonSweep, Typed
  <2>3. hit' \subseteq Items
    BY <1>20, <2>0 DEF CommitDeleteLost, FaultOn, Active, Typed
  <2>4. QED
    <3>1. /\ rows' \subseteq Items /\ expires' \in [Items -> Nat] /\ revived' \subseteq Items
          /\ keys' \in [Keys -> Items \cup {NoItem}]
      BY <1>20 DEF CommitDeleteLost, DropRow, dbVars, Typed
    <3>2. UNCHANGED <<clock, place, createVars, patch>> /\ faults' \in Nat
      BY <1>20 DEF CommitDeleteLost, FaultOn, Typed
    <3>3. QED
      BY <2>1, <2>2, <2>3, <3>1, <3>2 DEF createVars, Typed
<1>21. ASSUME NEW d \in Removers, RestoreStaged(d) PROVE Typed'
  BY <1>21 DEF RestoreStaged, EndDelete, Put, dbVars, createVars, historyVars, Typed
<1>22. CASE Sweep
  BY <1>22 DEF Sweep, Expired, dbVars, createVars, historyVars, Typed
<1>23. CASE SweepDelete
  <2>1. Head(todo) \in Items /\ todo' \in Seq(Items)
    BY <1>23, HeadTailProperties DEF SweepDelete, Typed
  <2>2. QED
    BY <1>14, <1>23, <2>1 DEF SweepDelete
<1>24. CASE SweepSkip \/ SweepTimeout
  <2>1. todo \in Seq(Items) /\ todo # <<>>
    BY <1>24 DEF SweepSkip, SweepTimeout, Typed
  <2>2. Tail(todo) \in Seq(Items) /\ <<>> \in Seq(Items)
    BY <2>1, HeadTailProperties
  <2>3. QED
    BY <1>24, <2>2 DEF SweepSkip, SweepTimeout, dbVars, createVars, historyVars, Typed
<1>25. ASSUME NEW u \in Updaters, NEW i \in Items, BeginUpdate(u, i) PROVE Typed'
  <2>1. PICK ttl \in TTLs :
          patch' = [patch EXCEPT ![u] = [item |-> i, at |-> clock, due |-> clock + ttl]]
    BY <1>25 DEF BeginUpdate
  <2>2. clock \in Nat /\ ttl \in Nat /\ clock + ttl \in Nat
    BY BoundAssumption DEF Typed
  <2>3. patch' \in [Updaters -> [item : Items \cup {NoItem}, at : Nat, due : Nat]]
    BY <2>1, <2>2 DEF Typed
  <2>4. UNCHANGED <<dbVars, clock, place, createVars, removal, todo, historyVars>>
    BY <1>25 DEF BeginUpdate
  <2>5. QED
    BY <2>3, <2>4 DEF dbVars, createVars, historyVars, Typed
<1>26. ASSUME NEW u \in Updaters, FinishUpdate(u) PROVE Typed'
  <2>1. /\ patch[u].item \in Items \cup {NoItem} /\ patch[u].due \in Nat
        /\ patch' \in [Updaters -> [item : Items \cup {NoItem}, at : Nat, due : Nat]]
    BY <1>26 DEF FinishUpdate, Typed
  <2>2. expires' \in [Items -> Nat] /\ revived' \subseteq Items
    BY <1>26, <2>1 DEF FinishUpdate, Typed
  <2>3. QED
    BY <1>26, <2>1, <2>2 DEF FinishUpdate, createVars, Typed
<1>27. CASE Crash
  BY <1>27 DEF Crash, FaultOn, dbVars, Typed
<1>28. QED
  BY <1>1, <1>2, <1>3, <1>4, <1>5, <1>7, <1>8, <1>9, <1>10, <1>11, <1>12, <1>13, <1>15, <1>16,
     <1>17, <1>18, <1>19, <1>20, <1>21, <1>22, <1>23, <1>24, <1>25, <1>26, <1>27, FileAssumption
     DEF Next, Request, CreateStep, RemoveStep, SweepStep, Fault

-----------------------------------------------------------------------------
(***************************************************************************)
(* What a step does to the data, whichever handler takes it.               *)
(***************************************************************************)

Stores(i) ==
  /\ Inserting(i) /\ ~Conflict(i) /\ StoreRow(i)
  /\ CommitCreate(i) \/ CommitCreateLost(i)
  /\ UNCHANGED <<expires, clock, revived>>

Drops(d) ==
  /\ removal[d].pc = "staging" /\ DropRow(removal[d].item)
  /\ CommitDelete(d) \/ CommitDeleteLost(d)
  /\ UNCHANGED <<clock, createVars>>

(* Only these steps touch the tables, the clock and the history of revivals. *)
LEMMA DataStep ==
  ASSUME Next
  PROVE  \/ \E i \in Items : Stores(i)
         \/ \E d \in Removers : Drops(d)
         \/ Tick
         \/ \E i \in Items : AdmitCreate(i)
         \/ \E u \in Updaters : FinishUpdate(u)
         \/ UNCHANGED <<dbVars, clock, revived>>
<1> DEFINE Goal == \/ \E i \in Items : Stores(i)
                   \/ \E d \in Removers : Drops(d)
                   \/ Tick
                   \/ \E i \in Items : AdmitCreate(i)
                   \/ \E u \in Updaters : FinishUpdate(u)
                   \/ UNCHANGED <<dbVars, clock, revived>>
<1>1. CASE Tick \/ \E u \in Updaters : FinishUpdate(u)
  BY <1>1
<1>2. CASE Request
  BY <1>2 DEF Request, Upload, UserDelete, StartDelete, BeginUpdate, historyVars
<1>3. ASSUME NEW i \in Items, CreateStep(i) PROVE Goal
  <2>1. CASE BeginCreate(i) \/ LockCreate(i) \/ \E b \in Attach[i] : MoveBlob(i, b)
    BY <2>1 DEF BeginCreate, LockCreate, MoveBlob, historyVars
  <2>2. CASE ReplayCreate(i) \/ RejectCreate(i) \/ AbortCreate(i) \/ CleanupCreate(i)
    BY <2>2 DEF ReplayCreate, RejectCreate, AbortCreate, CleanupCreate, EndCreate, historyVars
  <2>3. CASE CommitCreate(i)
    BY <2>3 DEF CommitCreate, Stores, historyVars
  <2>4. QED
    BY <1>3, <2>1, <2>2, <2>3 DEF CreateStep
<1>4. ASSUME NEW d \in Removers, RemoveStep(d) PROVE Goal
  <2>1. CASE CommitDelete(d)
    BY <2>1 DEF CommitDelete, Drops
  <2>2. QED
    BY <1>4, <2>1 DEF RemoveStep, StageBlob, RemoveStaged, RestoreStaged, historyVars
<1>5. CASE SweepStep
  BY <1>5 DEF SweepStep, Sweep, SweepDelete, StartDelete, SweepSkip, historyVars
<1>6. CASE Fault
  <2>1. ASSUME NEW i \in Items, CreateFails(i) PROVE Goal
    BY <2>1 DEF CreateFails, EndCreate
  <2>2. ASSUME NEW i \in Items, CommitCreateLost(i) PROVE Goal
    BY <2>2 DEF CommitCreateLost, Stores, dbVars
  <2>3. ASSUME NEW d \in Removers, StageFails(d) PROVE Goal
    BY <2>3 DEF StageFails
  <2>4. ASSUME NEW d \in Removers, CommitDeleteLost(d) PROVE Goal
    BY <2>4 DEF CommitDeleteLost, Drops, dbVars
  <2>5. CASE SweepTimeout \/ Crash
    BY <2>5 DEF SweepTimeout, Crash, historyVars
  <2>6. QED
    BY <1>6, <2>1, <2>2, <2>3, <2>4, <2>5 DEF Fault
<1>7. QED
  BY <1>1, <1>2, <1>3, <1>4, <1>5, <1>6 DEF Next

(* A request once answered stays so, none but its own transaction's start *)
(* puts it in a transaction, and the snapshot then never changes.         *)
LEMMA CreationStep ==
  ASSUME Typed, Next, NEW i \in Items
  PROVE  /\ Settled(i) => Settled(i)'
         /\ \/ BeginCreate(i)
            \/ AdmitCreate(i)
            \/ ~InTx(i)'
            \/ /\ InTx(i) /\ seen'[i] = seen[i] /\ (i \in stale => i \in stale')
               /\ cpc'[i] = "moving" => cpc[i] = "moving"
<1> DEFINE Goal == /\ Settled(i) => Settled(i)'
                   /\ \/ BeginCreate(i)
                      \/ AdmitCreate(i)
                      \/ ~InTx(i)'
                      \/ /\ InTx(i) /\ seen'[i] = seen[i] /\ (i \in stale => i \in stale')
                         /\ cpc'[i] = "moving" => cpc[i] = "moving"
<1>1. ASSUME UNCHANGED <<cpc, seen, stale>> PROVE Goal
  BY <1>1 DEF Settled, InTx
<1>2. CASE Tick \/ SweepStep \/ \E u \in Updaters : FinishUpdate(u)
  BY <1>1, <1>2 DEF Tick, FinishUpdate, SweepStep, Sweep, SweepDelete, StartDelete, SweepSkip, createVars
<1>3. ASSUME NEW j \in Items, Upload(j) PROVE Goal
  BY <1>3 DEF Upload, Settled, InTx, Typed
<1>4. CASE Request
  BY <1>1, <1>3, <1>4 DEF Request, UserDelete, StartDelete, BeginUpdate, createVars
<1>5. ASSUME NEW j \in Items, NEW result \in {"replayed", "gone", "full", "failed"},
             EndCreate(j, result)
      PROVE  Goal
  BY <1>5 DEF EndCreate, Settled, InTx, Typed
<1>6. ASSUME NEW j \in Items, CreateStep(j) PROVE Goal
  <2>1. CASE BeginCreate(j)
    BY <2>1 DEF BeginCreate, Settled, InTx, Typed
  <2>2. CASE LockCreate(j)
    BY <2>2 DEF LockCreate, Settled, InTx, Typed
  <2>3. CASE ReplayCreate(j) \/ RejectCreate(j) \/ AbortCreate(j)
    BY <1>5, <2>3 DEF ReplayCreate, RejectCreate, AbortCreate
  <2>4. CASE AdmitCreate(j)
    BY <2>4 DEF AdmitCreate, Settled, InTx, Typed
  <2>5. CASE \E b \in Attach[j] : MoveBlob(j, b)
    BY <1>1, <2>5 DEF MoveBlob, createVars
  <2>6. CASE CommitCreate(j)
    BY <2>6 DEF CommitCreate, StoreRow, Settled, InTx, Typed
  <2>7. CASE CleanupCreate(j)
    BY <2>7 DEF CleanupCreate, Settled, InTx, Typed
  <2>8. QED
    BY <1>6, <2>1, <2>2, <2>3, <2>4, <2>5, <2>6, <2>7 DEF CreateStep
<1>7. ASSUME NEW d \in Removers, RemoveStep(d) \/ StageFails(d) \/ CommitDeleteLost(d) PROVE Goal
  BY <1>1, <1>7
     DEF RemoveStep, StageBlob, CommitDelete, RemoveStaged, RestoreStaged, StageFails, CommitDeleteLost,
         createVars
<1>8. ASSUME NEW j \in Items, CreateFails(j) PROVE Goal
  BY <1>5, <1>8 DEF CreateFails
<1>9. ASSUME NEW j \in Items, CommitCreateLost(j) PROVE Goal
  BY <1>9 DEF CommitCreateLost, StoreRow, Settled, InTx, Typed
<1>10. CASE Crash
  BY <1>10 DEF Crash, Running, Settled, InTx, Typed
<1>11. CASE SweepTimeout
  BY <1>1, <1>11 DEF SweepTimeout, createVars
<1>12. QED
  BY <1>2, <1>4, <1>6, <1>7, <1>8, <1>9, <1>10, <1>11 DEF Next, Fault

(* Unless a creation commits, no item comes to count against the quota *)
(* and no key is taken.                                                *)
LEMMA LiveStep ==
  ASSUME Typed, CreationInv, Next, \A i \in Items : ~Stores(i)
  PROVE  /\ (Live \ revived)' \subseteq Live \ revived
         /\ rows' \subseteq rows
         /\ \A i \in Items : Holder(i) = NoItem => Holder(i)' = NoItem
<1> DEFINE Goal == /\ (Live \ revived)' \subseteq Live \ revived
                   /\ rows' \subseteq rows
                   /\ \A i \in Items : Holder(i) = NoItem => Holder(i)' = NoItem
<1> USE KeyAssumption
<1>1. ASSUME NEW d \in Removers, Drops(d) PROVE Goal
  <2>1. rows' \subseteq rows /\ (Live \ revived)' \subseteq Live \ revived
    BY <1>1 DEF Drops, DropRow, Live, Typed
  <2>2. \A i \in Items : Holder(i) = NoItem => Holder(i)' = NoItem
    BY <1>1 DEF Drops, DropRow, Holder
  <2>3. QED
    BY <2>1, <2>2
<1>2. CASE Tick
  BY <1>2 DEF Tick, dbVars, historyVars, Live, Holder, Typed
<1>3. ASSUME NEW i \in Items, AdmitCreate(i) PROVE Goal
  <2>1. i \notin rows
    BY <1>3 DEF AdmitCreate, CreationInv, LockHeld, Settled
  <2>2. QED
    BY <1>3, <2>1 DEF AdmitCreate, historyVars, Live, Holder, Typed
<1>4. ASSUME NEW u \in Updaters, FinishUpdate(u) PROVE Goal
  <2>1. rows' \subseteq rows /\ \A i \in Items : Holder(i) = NoItem => Holder(i)' = NoItem
    BY <1>4 DEF FinishUpdate, Holder
  <2>2. (Live \ revived)' \subseteq Live \ revived
    BY <1>4 DEF FinishUpdate, Live, Typed
  <2>3. QED
    BY <2>1, <2>2
<1>5. CASE UNCHANGED <<dbVars, clock, revived>>
  BY <1>5 DEF dbVars, Live, Holder
<1>6. QED
  BY <1>1, <1>2, <1>3, <1>4, <1>5, DataStep

(* A creation that commits adds only its own item. *)
LEMMA LiveStore ==
  ASSUME Typed, NEW i \in Items, Stores(i)
  PROVE  /\ (Live \ revived)' \subseteq (Live \ revived) \cup {i}
         /\ Live' \subseteq Live \cup {i}
         /\ rows' = rows \cup {i} /\ UNCHANGED revived
         /\ Settled(i)' /\ ~InTx(i)' /\ ~Settled(i)
         /\ \A j \in Items : InTx(j) /\ j # i => j \in stale'
  BY DEF Stores, StoreRow, Live, Typed, Inserting, InTx, Settled, CommitCreate, CommitCreateLost

-----------------------------------------------------------------------------
(***************************************************************************)
(* The inductive invariant, conjunct by conjunct.                          *)
(***************************************************************************)

(* The quota holds because the snapshot of whoever commits was not stale. *)
LEMMA QuotaStep ==
  ASSUME IInv, Next, Typed'
  PROVE  QuotaRespected'
<1> USE DEF IInv
<1>1. ASSUME NEW i \in Items, Stores(i) PROVE QuotaRespected'
  <2>1. i \notin stale /\ cpc[i] = "moving"
    BY <1>1 DEF Stores, Conflict, Inserting
  <2>2. Live \ revived \subseteq seen[i].live /\ Used(seen[i].live) + Size[i] <= Quota
    BY <2>1 DEF SnapshotInv, InTx, Fits
  <2>3. seen[i].live \in SUBSET Items /\ Size[i] \in Nat
    BY SizeAssumption DEF Typed
  <2>4. Used(Live \ revived) <= Used(seen[i].live)
    BY <2>2, <2>3, UsedMonotone
  <2>5. (Live \ revived)' \in SUBSET ((Live \ revived) \cup {i})
    BY <1>1, LiveStore
  <2>6. Live \ revived \in SUBSET Items /\ (Live \ revived) \cup {i} \in SUBSET Items
    BY TypeFacts
  <2>7. Used((Live \ revived) \cup {i}) <= Used(Live \ revived) + Size[i]
    BY <2>6, UsedAdd
  <2>8. Used((Live \ revived)') <= Used((Live \ revived) \cup {i})
    BY <2>5, <2>6, UsedMonotone
  <2>9. /\ Used((Live \ revived)') \in Nat /\ Used((Live \ revived) \cup {i}) \in Nat
        /\ Used(Live \ revived) \in Nat /\ Used(seen[i].live) \in Nat
    BY <2>3, <2>5, <2>6, BytesFinite
  <2>10. Used((Live \ revived)') <= Quota
    BY <2>2, <2>3, <2>4, <2>7, <2>8, <2>9, SizeAssumption
  <2>11. QED
    BY <2>10 DEF QuotaRespected, Used, BytesOf
<1>2. CASE \A i \in Items : ~Stores(i)
  <2>1. (Live \ revived)' \in SUBSET (Live \ revived)
    BY <1>2, LiveStep
  <2>2. Live \ revived \in SUBSET Items
    BY TypeFacts
  <2>3. Used((Live \ revived)') <= Used(Live \ revived)
    BY <2>1, <2>2, UsedMonotone
  <2>4. Used((Live \ revived)') \in Nat /\ Used(Live \ revived) \in Nat
    BY <2>1, <2>2, BytesFinite
  <2>5. Used((Live \ revived)') <= Quota
    BY <2>3, <2>4, SizeAssumption DEF QuotaRespected
  <2>6. QED
    BY <2>5 DEF QuotaRespected, Used, BytesOf
<1>3. QED
  BY <1>1, <1>2

(* A key is taken only by a creation that finds it free as it commits. *)
LEMMA KeyStep ==
  ASSUME IInv, Next, Typed'
  PROVE  OneItemPerKey'
<1> USE KeyAssumption DEF IInv
<1>1. ASSUME NEW i \in Items, Stores(i) PROVE OneItemPerKey'
  <2>1. /\ rows' = rows \cup {i} /\ Holder(i) = NoItem
        /\ keys' = [k \in Keys |-> IF k = KeyOf[i] THEN i ELSE keys[k]]
    BY <1>1 DEF Stores, StoreRow, Conflict
  <2>2. ASSUME NEW j \in rows', KeyOf[j] # NoKey PROVE keys'[KeyOf[j]] = j
    <3>1. j \in Items /\ KeyOf[j] \in Keys
      BY <2>2, <2>1 DEF Typed
    <3>2. j \in rows /\ j # i => KeyOf[j] # KeyOf[i]
      BY <2>1, <2>2, <3>1 DEF OneItemPerKey, Holder
    <3>3. QED
      BY <2>1, <2>2, <3>1, <3>2 DEF OneItemPerKey
  <2>3. \A k \in Keys : keys'[k] # NoItem => keys'[k] \in rows'
    BY <2>1 DEF OneItemPerKey
  <2>4. QED
    BY <2>2, <2>3 DEF OneItemPerKey
<1>2. ASSUME NEW d \in Removers, Drops(d) PROVE OneItemPerKey'
  <2>1. /\ rows' = rows \ {removal[d].item}
        /\ keys' = [k \in Keys |-> IF keys[k] = removal[d].item THEN NoItem ELSE keys[k]]
    BY <1>2 DEF Drops, DropRow
  <2>2. \A j \in rows' : KeyOf[j] # NoKey => keys'[KeyOf[j]] = j
    BY <2>1 DEF OneItemPerKey, Typed
  <2>3. \A k \in Keys : keys'[k] # NoItem => keys'[k] \in rows'
    BY <2>1 DEF OneItemPerKey
  <2>4. QED
    BY <2>2, <2>3 DEF OneItemPerKey
<1>3. CASE UNCHANGED <<rows, keys>>
  BY <1>3 DEF OneItemPerKey
<1>4. QED
  BY <1>1, <1>2, <1>3, DataStep DEF Tick, AdmitCreate, FinishUpdate, dbVars

(* Clock and expiries. *)
LEMMA ExpiryStep ==
  ASSUME IInv, Next
  PROVE  ExpiryInv'
<1> USE TypeFacts, BoundAssumption DEF IInv
<1>1. \A i \in Items : expires'[i] <= clock' + MaxTTL
  <2>1. ASSUME NEW d \in Removers, Drops(d) PROVE \A i \in Items : expires'[i] <= clock' + MaxTTL
    BY <2>1 DEF Drops, DropRow, ExpiryInv, Typed
  <2>2. CASE Tick
    BY <2>2 DEF Tick, dbVars, ExpiryInv, Typed
  <2>3. ASSUME NEW i \in Items, AdmitCreate(i) PROVE \A j \in Items : expires'[j] <= clock' + MaxTTL
    BY <2>3 DEF AdmitCreate, ExpiryInv, Typed
  <2>4. ASSUME NEW u \in Updaters, FinishUpdate(u) PROVE \A i \in Items : expires'[i] <= clock' + MaxTTL
    BY <2>4 DEF FinishUpdate, ExpiryInv, Typed
  <2>5. QED
    BY <2>1, <2>2, <2>3, <2>4, DataStep DEF Stores, dbVars, ExpiryInv
<1>2. clock' >= clock /\ clock' \in Nat
  BY DataStep DEF Stores, Drops, Tick, AdmitCreate, FinishUpdate, Typed
<1>3. ASSUME NEW u \in Updaters PROVE patch'[u].due <= clock' + MaxTTL
  <2>1. patch[u].due \in Nat /\ patch[u].due <= clock + MaxTTL /\ clock \in Nat
    BY DEF Typed, ExpiryInv
  <2>2. CASE patch'[u] = patch[u] \/ patch'[u] = NoPatch
    BY <1>2, <2>1, <2>2 DEF NoPatch
  <2>3. ASSUME NEW v \in Updaters, NEW i \in Items, BeginUpdate(v, i)
        PROVE  patch'[u] = patch[u] \/ patch'[u].due <= clock + MaxTTL
    BY <2>3 DEF BeginUpdate, Typed
  <2>4. ASSUME NEW v \in Updaters, FinishUpdate(v) PROVE patch'[u] = patch[u] \/ patch'[u] = NoPatch
    BY <2>4 DEF FinishUpdate, Typed
  <2>5. patch'[u].due <= clock + MaxTTL \/ patch'[u] = patch[u] \/ patch'[u] = NoPatch
    BY <2>3, <2>4
       DEF Next, Tick, Request, Upload, UserDelete, StartDelete, CreateStep, BeginCreate, LockCreate,
           ReplayCreate, RejectCreate, AdmitCreate, MoveBlob, CommitCreate, AbortCreate, CleanupCreate,
           EndCreate, RemoveStep, StageBlob, CommitDelete, RemoveStaged, RestoreStaged, SweepStep,
           Sweep, SweepDelete, SweepSkip, Fault, CreateFails, CommitCreateLost, StageFails,
           CommitDeleteLost, SweepTimeout, Crash
  <2>6. patch'[u].due \in Nat
    BY <2>1, TypeStep DEF Typed
  <2>7. QED
    BY <1>2, <2>1, <2>2, <2>5, <2>6
<1>4. QED
  BY <1>1, <1>3 DEF ExpiryInv

(* The lock is held by the one creation past it; only unanswered requests *)
(* are stale, only stored items revived.                                  *)
LEMMA CreationInvStep ==
  ASSUME IInv, Next, Typed'
  PROVE  CreationInv'
<1> USE DEF IInv, LockHeld
<1> DEFINE InTxs == \A i \in stale : InTx(i)
           Goal == LockHeld' /\ InTxs'
<1>0. LockHeld /\ InTxs /\ stale \subseteq Items /\ NoItem \notin Items
  BY KeyAssumption DEF CreationInv, Typed
<1>1. ASSUME NEW i \in rows' PROVE Settled(i)'
  <2>1. rows \subseteq Items /\ rows' \subseteq Items /\ \A j \in rows : Settled(j)
    BY DEF Typed, CreationInv
  <2>2. CASE i \in rows
    BY <2>1, <2>2, CreationStep
  <2>3. CASE i \notin rows
    <3>1. PICK j \in Items : Stores(j)
      BY <2>3, LiveStep
    <3>2. rows' = rows \cup {j} /\ Settled(j)'
      BY <3>1, LiveStore
    <3>3. i = j
      BY <2>3, <3>2
    <3>4. QED
      BY <3>2, <3>3
  <2>4. QED
    BY <2>2, <2>3
<1>2. revived' \subseteq rows'
  <2>1. ASSUME NEW u \in Updaters, FinishUpdate(u) PROVE revived' \subseteq rows'
    BY <2>1 DEF FinishUpdate, CreationInv
  <2>2. QED
    BY <2>1, DataStep, LiveStore DEF Drops, DropRow, Tick, AdmitCreate, dbVars, historyVars, CreationInv
<1>3. ASSUME UNCHANGED createVars PROVE Goal
  BY <1>0, <1>3 DEF createVars, InTx
<1>4. ASSUME NEW i \in Items, Upload(i) PROVE Goal
  BY <1>0, <1>4 DEF Upload, InTx, Typed
<1>5. ASSUME Request PROVE Goal
  BY <1>3, <1>4, <1>5 DEF Request, UserDelete, StartDelete, BeginUpdate, createVars
<1>6. ASSUME Tick \/ SweepStep \/ SweepTimeout \/ \E u \in Updaters : FinishUpdate(u) PROVE Goal
  BY <1>3, <1>6 DEF Tick, FinishUpdate, SweepStep, Sweep, SweepDelete, StartDelete, SweepSkip, SweepTimeout
<1>7. ASSUME NEW d \in Removers, RemoveStep(d) \/ StageFails(d) \/ CommitDeleteLost(d) PROVE Goal
  BY <1>3, <1>7
     DEF RemoveStep, StageBlob, CommitDelete, RemoveStaged, RestoreStaged, StageFails, CommitDeleteLost
<1>8. ASSUME NEW i \in Items, NEW result \in {"replayed", "gone", "full", "failed"},
             EndCreate(i, result)
      PROVE  Goal
  BY <1>0, <1>8 DEF EndCreate, InTx, Typed
<1>9. ASSUME NEW i \in Items, CreateStep(i) PROVE Goal
  <2>1. CASE BeginCreate(i)
    BY <1>0, <2>1 DEF BeginCreate, InTx, Typed
  <2>2. CASE LockCreate(i)
    BY <1>0, <2>2 DEF LockCreate, InTx, Typed
  <2>3. CASE ReplayCreate(i) \/ RejectCreate(i) \/ AbortCreate(i)
    BY <1>8, <2>3 DEF ReplayCreate, RejectCreate, AbortCreate
  <2>4. CASE AdmitCreate(i)
    BY <1>0, <2>4 DEF AdmitCreate, InTx, Typed
  <2>5. CASE \E b \in Attach[i] : MoveBlob(i, b)
    BY <1>3, <2>5 DEF MoveBlob
  <2>6. CASE CommitCreate(i)
    BY <1>0, <2>6 DEF CommitCreate, StoreRow, Inserting, InTx, Typed
  <2>7. CASE CleanupCreate(i)
    BY <1>0, <2>7 DEF CleanupCreate, InTx, Typed
  <2>8. QED
    BY <1>9, <2>1, <2>2, <2>3, <2>4, <2>5, <2>6, <2>7 DEF CreateStep
<1>10. ASSUME NEW i \in Items, CreateFails(i) PROVE Goal
  BY <1>8, <1>10 DEF CreateFails
<1>11. ASSUME NEW i \in Items, CommitCreateLost(i) PROVE Goal
  BY <1>0, <1>11 DEF CommitCreateLost, StoreRow, Inserting, InTx, Typed
<1>12. ASSUME Crash PROVE Goal
  BY <1>0, <1>12 DEF Crash, Running, InTx, Typed
<1>13. Goal
  BY <1>5, <1>6, <1>7, <1>9, <1>10, <1>11, <1>12 DEF Next, Fault
<1>14. QED
  BY <1>1, <1>2, <1>13 DEF CreationInv

(* A snapshot is exact when it is taken and goes stale with the next commit. *)
LEMMA SnapshotStep ==
  ASSUME IInv, Next
  PROVE  SnapshotInv'
<1> USE DEF IInv
<1> SUFFICES ASSUME NEW i \in Items
             PROVE  /\ InTx(i)' /\ i \notin stale' =>
                         /\ (Live \ revived)' \subseteq seen'[i].live
                         /\ seen'[i].holder = NoItem => Holder(i)' = NoItem
                    /\ cpc'[i] = "moving" => seen'[i].holder = NoItem /\ Fits(i)'
  BY DEF SnapshotInv
<1>1. CASE BeginCreate(i)
  <2>1. cpc'[i] = "queued" /\ seen'[i] = [live |-> Live, holder |-> Holder(i)]
    BY <1>1 DEF BeginCreate, Typed
  <2>2. Live' = Live /\ UNCHANGED revived /\ Holder(i)' = Holder(i)
    BY <1>1 DEF BeginCreate, dbVars, historyVars, Live, Holder
  <2>3. QED
    BY <2>1, <2>2
<1>2. CASE AdmitCreate(i)
  <2>1. /\ UNCHANGED <<seen, stale>> /\ InTx(i)
        /\ seen[i].holder = NoItem /\ Fits(i)
    BY <1>2 DEF AdmitCreate, InTx
  <2>2. \A j \in Items : ~Stores(j)
    BY <1>2 DEF AdmitCreate, Stores, StoreRow, Inserting, CommitCreate, CommitCreateLost, Typed
  <2>3. Fits(i)'
    BY <2>1 DEF Fits, Used, BytesOf
  <2>4. QED
    BY <2>1, <2>2, <2>3, LiveStep DEF SnapshotInv
<1>3. CASE ~InTx(i)'
  BY <1>3 DEF InTx
<1>4. CASE /\ InTx(i) /\ seen'[i] = seen[i] /\ (i \in stale => i \in stale')
           /\ cpc'[i] = "moving" => cpc[i] = "moving"
  <2>1. cpc'[i] = "moving" => seen'[i].holder = NoItem /\ Fits(i)'
    BY <1>4 DEF SnapshotInv, Fits, Used, BytesOf
  <2>2. ASSUME InTx(i)', i \notin stale' PROVE i \notin stale /\ \A j \in Items : ~Stores(j)
    <3>1. \A j \in Items : ~Stores(j)
      BY <1>4, <2>2, LiveStore
    <3>2. QED
      BY <1>4, <2>2, <3>1
  <2>3. QED
    BY <1>4, <2>1, <2>2, LiveStep DEF SnapshotInv
<1>5. QED
  BY <1>1, <1>2, <1>3, <1>4, CreationStep

-----------------------------------------------------------------------------
(***************************************************************************)
(* The sweep, the deletions and the files.                                 *)
(***************************************************************************)

(* An answered request never brings its row back; only Drops takes it away. *)
LEMMA RowsStep ==
  ASSUME IInv, Next, NEW j \in Items, Settled(j)
  PROVE  /\ j \in rows' => j \in rows
         /\ j \in rows => j \in rows' \/ \E d \in Removers : Drops(d) /\ removal[d].item = j
<1>1. j \in rows' => j \in rows
  BY LiveStep, LiveStore DEF IInv
<1>2. j \in rows => j \in rows' \/ \E d \in Removers : Drops(d) /\ removal[d].item = j
  BY DataStep DEF Stores, StoreRow, Drops, DropRow, Tick, AdmitCreate, FinishUpdate, dbVars
<1>3. QED
  BY <1>1, <1>2

(* The record of a deletion that moves on. *)
LEMMA RemovalUpdate ==
  ASSUME Typed, NEW d \in Removers, removal[d].pc # "idle",
         NEW pc \in {"removing", "restoring"}, removal' = [removal EXCEPT ![d].pc = pc]
  PROVE  /\ removal'[d].pc = pc /\ removal'[d].item = removal[d].item
         /\ removal'[d].pending = removal[d].pending /\ removal'[d].staged = removal[d].staged
         /\ \A e \in Removers \ {d} : removal'[e] = removal[e]
<1>1. removal[d] \in Active
  BY TypeFacts
<1>2. QED
  BY <1>1 DEF Typed, Active

(* The record of a deletion that has moved one more file aside. *)
LEMMA StageUpdate ==
  ASSUME Typed, NEW d \in Removers, NEW b \in Blobs, StageBlob(d, b)
  PROVE  /\ removal'[d].pc = "staging" /\ removal'[d].item = removal[d].item
         /\ removal'[d].pending = removal[d].pending \ {b}
         /\ place[b] = "blobs" => /\ removal'[d].staged = removal[d].staged \cup {b}
                                  /\ place' = [place EXCEPT ![b] = "trash"]
         /\ place[b] # "blobs" => /\ removal'[d].staged = removal[d].staged
                                  /\ UNCHANGED place
         /\ \A e \in Removers \ {d} : removal'[e] = removal[e]
<1> DEFINE found == {b} \cap {f \in Blobs : place[f] = "blobs"}
<1>1. removal[d] \in Active
  BY TypeFacts DEF StageBlob
<1>2. removal' = [removal EXCEPT ![d].pending = @ \ {b}, ![d].staged = @ \cup found]
  BY DEF StageBlob
<1>3. /\ removal'[d].pc = "staging" /\ removal'[d].item = removal[d].item
      /\ removal'[d].pending = removal[d].pending \ {b}
      /\ removal'[d].staged = removal[d].staged \cup found
      /\ \A e \in Removers \ {d} : removal'[e] = removal[e]
  BY <1>1, <1>2 DEF StageBlob, Typed, Active
<1>4. place' = Put(found, "trash")
  BY DEF StageBlob
<1>5. CASE place[b] = "blobs"
  <2>1. found = {b}
    BY <1>5
  <2>2. place' = [place EXCEPT ![b] = "trash"]
    BY <1>4, <2>1 DEF Put, Typed
  <2>3. QED
    BY <1>3, <1>5, <2>1, <2>2
<1>6. CASE place[b] # "blobs"
  <2>1. found = {}
    BY <1>6
  <2>2. place' = place
    BY <1>4, <2>1 DEF Put, Typed
  <2>3. QED
    BY <1>3, <1>6, <2>1, <2>2
<1>7. QED
  BY <1>5, <1>6

(* Each removal record is idle or that of a deletion under way. *)
LEMMA RemovalTypes ==
  ASSUME Typed, RemovalInv, NEW d \in Removers
  PROVE  /\ removal[d].pc \in {"idle", "staging", "removing", "restoring"}
         /\ removal[d].pc # "idle" => removal[d].item \in Items /\ removal[d].item # NoItem
         /\ removal[d].pc = "idle" => removal[d].item = NoItem
         /\ removal[d].staged \subseteq Blobs
  BY KeyAssumption DEF Typed, Active, NoDelete, RemovalInv, RemovalOK

(* A deletion that finds its row unlocked meets no other at work on it. *)
LEMMA AloneAtStart ==
  ASSUME Typed, RemovalInv, NEW i \in rows, ~RowLocked(i), NEW e \in Removers, removal[e].item = i
  PROVE  removal[e].pc = "restoring" /\ i \in hit
<1>1. i \in Items /\ i # NoItem
  BY KeyAssumption DEF Typed
<1>2. removal[e].pc # "staging"
  BY DEF RowLocked
<1>3. QED
  BY <1>1, <1>2, RemovalTypes DEF RemovalInv, RemovalOK

(* The history of faults only grows. *)
LEMMA HitStep == Typed /\ Next => hit \subseteq hit'
  BY DEF Next, Tick, Request, Upload, UserDelete, StartDelete, BeginUpdate, CreateStep, BeginCreate,
         LockCreate, ReplayCreate, RejectCreate, AdmitCreate, MoveBlob, CommitCreate, AbortCreate,
         CleanupCreate, RemoveStep, StageBlob, CommitDelete, RemoveStaged, RestoreStaged, SweepStep,
         Sweep, SweepDelete, SweepSkip, FinishUpdate, Fault, CreateFails, CommitCreateLost,
         StageFails, CommitDeleteLost, SweepTimeout, Crash, FaultOn, historyVars

(* Deletions of one item exclude each other, but for an undoing one. *)
LEMMA RemovalInvStep ==
  ASSUME IInv, Next
  PROVE  RemovalInv'
<1> USE DEF IInv
<1> SUFFICES ASSUME NEW d \in Removers PROVE RemovalOK(d)'
  BY DEF RemovalInv
<1>1. RemovalOK(d) /\ hit \subseteq hit'
  BY HitStep DEF RemovalInv
<1>2. \A j \in Items : removal[d].pc # "idle" /\ j = removal[d].item => Settled(j)'
  BY <1>1, RemovalTypes, CreationStep DEF RemovalOK
<1>3. ASSUME NEW e \in Removers, Drops(e)
      PROVE  /\ removal[e].pc = "staging"
             /\ \/ removal' = [removal EXCEPT ![e].pc = "removing"]
                \/ removal' = [removal EXCEPT ![e].pc = "restoring"]
  BY <1>3 DEF Drops, CommitDelete, CommitDeleteLost
<1>4. ASSUME \A e \in Removers : ~Drops(e), removal[d].pc # "idle"
      PROVE  removal[d].item \in rows' <=> removal[d].item \in rows
  BY <1>1, <1>4, RemovalTypes, RowsStep DEF RemovalOK
<1>5. ASSUME UNCHANGED removal PROVE RemovalOK(d)'
  <2>1. \A e \in Removers : ~Drops(e)
    <3>1. ASSUME NEW e \in Removers, Drops(e) PROVE FALSE
      BY <1>3, <1>5, <3>1, RemovalUpdate
    <3>2. QED
      BY <3>1
  <2>2. QED
    BY <1>1, <1>2, <1>4, <1>5, <2>1, RemovalTypes DEF RemovalOK
<1>6. ASSUME NEW e \in Removers, NEW i \in Items, StartDelete(e, i) PROVE RemovalOK(d)'
  <2>1. /\ removal[e].pc = "idle" /\ i \in rows /\ ~RowLocked(i) /\ UNCHANGED <<rows, hit>>
        /\ removal'[e] = [pc |-> "staging", item |-> i, pending |-> Attach[i], staged |-> {}]
        /\ \A f \in Removers \ {e} : removal'[f] = removal[f]
    BY <1>6 DEF StartDelete, dbVars, historyVars, Typed
  <2>2. \A f \in Removers : removal[f].item = i => removal[f].pc = "restoring" /\ i \in hit
    BY <2>1, AloneAtStart
  <2>3. i # NoItem /\ Settled(i)'
    BY <2>1, KeyAssumption, CreationStep DEF CreationInv, LockHeld
  <2>4. CASE d = e
    BY <2>1, <2>2, <2>3, <2>4 DEF RemovalOK
  <2>5. CASE d # e
    BY <1>1, <1>2, <2>1, <2>2, <2>3, <2>5, RemovalTypes DEF RemovalOK
  <2>6. QED
    BY <2>4, <2>5
<1>7. ASSUME NEW e \in Removers, NEW b \in Blobs, StageBlob(e, b) PROVE RemovalOK(d)'
  <2>1. /\ removal'[e].pc = "staging" /\ removal'[e].item = removal[e].item
        /\ removal'[e].pending \subseteq removal[e].pending
        /\ removal'[e].staged \subseteq removal[e].staged \cup {b}
        /\ \A f \in Removers \ {e} : removal'[f] = removal[f]
    BY <1>7, StageUpdate
  <2>2. removal[e].pc = "staging" /\ b \in removal[e].pending /\ UNCHANGED <<rows, hit>>
    BY <1>7 DEF StageBlob, dbVars, historyVars
  <2>3. QED
    BY <1>1, <1>2, <2>1, <2>2, RemovalTypes DEF RemovalOK
<1>8. ASSUME NEW e \in Removers, EndDelete(e), UNCHANGED rows PROVE RemovalOK(d)'
  <2>1. removal'[e] = NoDelete /\ \A f \in Removers \ {e} : removal'[f] = removal[f]
    BY <1>8 DEF EndDelete, Typed
  <2>2. CASE d = e
    BY <2>1, <2>2 DEF RemovalOK, NoDelete
  <2>3. CASE d # e
    BY <1>1, <1>2, <1>8, <2>1, <2>3, RemovalTypes DEF RemovalOK, NoDelete
  <2>4. QED
    BY <2>2, <2>3
<1>9. ASSUME NEW e \in Removers, CommitDelete(e) \/ CommitDeleteLost(e) PROVE RemovalOK(d)'
  <2>1. PICK pc \in {"removing", "restoring"} :
          /\ removal' = [removal EXCEPT ![e].pc = pc]
          /\ pc = "removing" => DropRow(removal[e].item)
          /\ pc = "restoring" => removal[e].item \in hit'
    BY <1>9 DEF CommitDelete, CommitDeleteLost, FaultOn
  <2>2. removal[e].pc = "staging" /\ (DropRow(removal[e].item) \/ UNCHANGED rows)
    BY <1>9 DEF CommitDelete, CommitDeleteLost, dbVars
  <2>3. /\ removal'[e].pc = pc /\ removal'[e].item = removal[e].item
        /\ removal'[e].pending = removal[e].pending /\ removal'[e].staged = removal[e].staged
        /\ \A f \in Removers \ {e} : removal'[f] = removal[f]
    BY <2>1, <2>2, RemovalUpdate
  <2>4. rows' \subseteq rows /\ \A j \in rows : j # removal[e].item => j \in rows'
    BY <2>2 DEF DropRow
  <2>5. CASE d = e
    <3>1. removal[d].item \in Items /\ removal[d].item # NoItem
      BY <2>2, <2>5, RemovalTypes
    <3>2. pc = "removing" => removal[d].item \notin rows'
      BY <2>1, <2>5 DEF DropRow
    <3>3. QED
      BY <1>1, <1>2, <2>1, <2>2, <2>3, <2>5, <3>1, <3>2 DEF RemovalOK
  <2>6. CASE d # e
    <3>1. RemovalOK(e)
      BY DEF RemovalInv
    <3>2. removal[d].pc = "staging" => removal[d].item # removal[e].item
      BY <2>2, <2>6, <3>1, RemovalTypes DEF RemovalOK
    <3>3. QED
      BY <1>1, <1>2, <2>2, <2>3, <2>4, <2>6, <3>1, <3>2, RemovalTypes DEF RemovalOK
  <2>7. QED
    BY <2>5, <2>6
<1>10. ASSUME Crash PROVE RemovalOK(d)'
  BY <1>10 DEF Crash, RemovalOK, NoDelete
<1>11. ASSUME Request PROVE RemovalOK(d)'
  BY <1>5, <1>6, <1>11, TypeFacts DEF Request, Upload, UserDelete, BeginUpdate
<1>12. ASSUME NEW i \in Items, CreateStep(i) \/ CreateFails(i) \/ CommitCreateLost(i) PROVE RemovalOK(d)'
  BY <1>5, <1>12
     DEF CreateStep, BeginCreate, LockCreate, ReplayCreate, RejectCreate, AdmitCreate, MoveBlob,
         CommitCreate, AbortCreate, CleanupCreate, EndCreate, CreateFails, CommitCreateLost
<1>13. ASSUME NEW e \in Removers, RemoveStep(e) \/ StageFails(e) PROVE RemovalOK(d)'
  BY <1>7, <1>8, <1>9, <1>13 DEF RemoveStep, RemoveStaged, RestoreStaged, StageFails, dbVars
<1>14. ASSUME SweepStep \/ SweepTimeout PROVE RemovalOK(d)'
  <2>1. ASSUME SweepDelete PROVE RemovalOK(d)'
    <3>1. Head(todo) \in Items
      BY <2>1, HeadTailProperties DEF SweepDelete, Typed
    <3>2. QED
      BY <1>6, <2>1, <3>1, TypeFacts DEF SweepDelete
  <2>2. QED
    BY <1>5, <1>14, <2>1 DEF SweepStep, Sweep, SweepSkip, SweepTimeout
<1>15. ASSUME Tick \/ \E u \in Updaters : FinishUpdate(u) PROVE RemovalOK(d)'
  BY <1>5, <1>15 DEF Tick, FinishUpdate
<1>16. QED
  BY <1>9, <1>10, <1>11, <1>12, <1>13, <1>14, <1>15 DEF Next, Fault

(* The files of an item are where its row and its handlers say. *)
LEMMA FileInvStep ==
  ASSUME IInv, Next, Typed', RemovalInv'
  PROVE  FileInv'
<1> USE DEF IInv
<1> SUFFICES ASSUME NEW i \in Items, i \notin hit' PROVE FilesOK(i)'
  BY DEF FileInv
<1>1. FilesOK(i) /\ i \notin hit
  BY HitStep DEF FileInv
<1>2. \A j \in Items : \A b \in Attach[j] : b \in Blobs /\ (j # i => b \notin Attach[i])
  BY FileAssumption
<1>3. \A e \in Removers : removal[e].pc # "idle" => removal[e].staged \subseteq Attach[removal[e].item]
  BY DEF RemovalInv, RemovalOK
<1>4. ASSUME UNCHANGED <<place, removal, rows>>,
             cpc'[i] # "undoing",
             cpc[i] = "uploaded" \/ InTx(i) => cpc'[i] = "uploaded" \/ InTx(i)',
             cpc[i] = "moving" => cpc'[i] = "moving"
      PROVE  FilesOK(i)'
  BY <1>1, <1>4 DEF FilesOK
<1>5. ASSUME UNCHANGED <<place, removal, rows, cpc>> PROVE FilesOK(i)'
  BY <1>1, <1>4, <1>5 DEF FilesOK, InTx
<1>6. \A e \in Removers : removal[e].item = i => Settled(i)
  BY RemovalTypes, KeyAssumption DEF RemovalInv, RemovalOK
<1>7. ASSUME NEW j \in Items, Upload(j) PROVE FilesOK(i)'
  <2>1. /\ UNCHANGED <<removal, rows>> /\ cpc' = [cpc EXCEPT ![j] = "uploaded"] /\ cpc[j] = "idle"
        /\ place' = [b \in Blobs |-> IF b \in Attach[j] THEN "upload" ELSE place[b]]
    BY <1>7 DEF Upload, dbVars, Put
  <2>2. CASE j = i
    <3>1. i \notin rows /\ \A e \in Removers : removal[e].item # i
      BY <1>6, <2>1, <2>2 DEF CreationInv, LockHeld, Settled
    <3>2. \A b \in Attach[i] : place'[b] = "upload"
      BY <1>2, <2>1, <2>2
    <3>3. cpc'[i] = "uploaded"
      BY <2>1, <2>2 DEF Typed
    <3>4. QED
      BY <2>1, <3>1, <3>2, <3>3 DEF FilesOK
  <2>3. CASE j # i
    <3>1. cpc'[i] = cpc[i] /\ \A b \in Attach[i] : place'[b] = place[b]
      BY <1>2, <2>1, <2>3 DEF Typed
    <3>2. QED
      BY <1>1, <2>1, <3>1 DEF FilesOK, InTx
  <2>4. QED
    BY <2>2, <2>3
<1>8. ASSUME NEW j \in Items, NEW result \in {"replayed", "gone", "full", "failed"},
             EndCreate(j, result), InTx(j)
      PROVE  FilesOK(i)'
  <2>1. /\ UNCHANGED <<removal, rows>> /\ cpc' = [cpc EXCEPT ![j] = result]
        /\ place' = [b \in Blobs |-> IF b \in Attach[j] THEN "none" ELSE place[b]]
    BY <1>8 DEF EndCreate, dbVars, Put
  <2>2. CASE j = i
    <3>1. i \notin rows /\ \A e \in Removers : removal[e].item # i
      BY <1>6, <1>8, <2>2 DEF CreationInv, LockHeld, Settled, InTx
    <3>2. \A b \in Attach[i] : place'[b] = "none"
      BY <1>2, <2>1, <2>2
    <3>3. cpc'[i] = result
      BY <2>1, <2>2 DEF Typed
    <3>4. QED
      BY <2>1, <3>1, <3>2, <3>3 DEF FilesOK
  <2>3. CASE j # i
    <3>1. cpc'[i] = cpc[i] /\ \A b \in Attach[i] : place'[b] = place[b]
      BY <1>2, <2>1, <2>3 DEF Typed
    <3>2. QED
      BY <1>1, <2>1, <3>1 DEF FilesOK, InTx
  <2>4. QED
    BY <2>2, <2>3
<1>9. ASSUME NEW j \in Items, NEW b \in Attach[j], MoveBlob(j, b) PROVE FilesOK(i)'
  <2>1. /\ UNCHANGED <<removal, rows, cpc>> /\ place[b] = "upload" /\ cpc[j] = "moving"
        /\ place' = [place EXCEPT ![b] = "blobs"]
    BY <1>9 DEF MoveBlob, dbVars, createVars
  <2>2. CASE j = i
    <3>1. i \notin rows /\ \A e \in Removers : removal[e].item # i
      BY <1>6, <2>1, <2>2 DEF CreationInv, LockHeld, Settled
    <3>2. \A c \in Attach[i] : c \in Blobs /\ place'[c] \in {"blobs", place[c]}
      BY <1>2, <2>1 DEF Typed
    <3>3. QED
      BY <1>1, <2>1, <2>2, <3>1, <3>2 DEF FilesOK, InTx
  <2>3. CASE j # i
    <3>1. \A c \in Attach[i] : place'[c] = place[c]
      BY <1>2, <2>1, <2>3 DEF Typed
    <3>2. QED
      BY <1>1, <2>1, <3>1 DEF FilesOK, InTx
  <2>4. QED
    BY <2>2, <2>3
<1>10. ASSUME NEW j \in Items, CommitCreate(j) PROVE FilesOK(i)'
  <2>1. /\ UNCHANGED <<removal, place>> /\ rows' = rows \cup {j}
        /\ cpc' = [cpc EXCEPT ![j] = "created"] /\ \A b \in Attach[j] : place[b] = "blobs"
    BY <1>10 DEF CommitCreate, StoreRow, Inserting
  <2>2. QED
    BY <1>1, <2>1 DEF FilesOK, InTx, Typed
<1>11. ASSUME NEW j \in Items, CommitCreateLost(j) PROVE FilesOK(i)'
  <2>1. /\ UNCHANGED <<removal, place>> /\ cpc' = [cpc EXCEPT ![j] = "undoing"] /\ j \in hit'
        /\ rows' = rows \cup {j} \/ rows' = rows
    BY <1>11 DEF CommitCreateLost, StoreRow, FaultOn
  <2>2. i # j
    BY <2>1
  <2>3. QED
    BY <1>1, <2>1, <2>2 DEF FilesOK, InTx, Typed
<1>12. ASSUME NEW j \in Items, CleanupCreate(j) PROVE FilesOK(i)'
  <2>1. /\ UNCHANGED <<removal, rows>> /\ cpc[j] = "undoing" /\ cpc' = [cpc EXCEPT ![j] = "failed"]
        /\ place' = Put({b \in Attach[j] : place[b] = "blobs"}, "none")
    BY <1>12 DEF CleanupCreate, dbVars
  <2>2. i # j
    BY <1>1, <2>1 DEF FilesOK
  <2>3. cpc'[i] = cpc[i] /\ \A b \in Attach[i] : place'[b] = place[b]
    BY <1>2, <2>1, <2>2 DEF Put, Typed
  <2>4. QED
    BY <1>1, <2>1, <2>3 DEF FilesOK, InTx
<1>13. ASSUME NEW d \in Removers, NEW j \in Items, StartDelete(d, j) PROVE FilesOK(i)'
  <2>1. /\ UNCHANGED <<place, rows, cpc>> /\ j \in rows /\ ~RowLocked(j) /\ removal[d].pc = "idle"
        /\ removal'[d] = [pc |-> "staging", item |-> j, pending |-> Attach[j], staged |-> {}]
        /\ \A e \in Removers \ {d} : removal'[e] = removal[e]
    BY <1>13 DEF StartDelete, dbVars, createVars, Typed
  <2>2. CASE j = i
    <3>1. \A e \in Removers : removal[e].item # i
      BY <1>1, <2>1, <2>2, AloneAtStart
    <3>2. \A b \in Attach[i] : place[b] = "blobs"
      BY <1>1, <2>1, <2>2, <3>1 DEF FilesOK
    <3>3. QED
      BY <1>1, <2>1, <2>2, <3>1, <3>2 DEF FilesOK, InTx
  <2>3. CASE j # i
    <3>1. \A e \in Removers : /\ removal'[e].item = i <=> removal[e].item = i
                              /\ removal[e].item = i => removal'[e] = removal[e]
      BY <2>1, <2>3, RemovalTypes, KeyAssumption
    <3>2. QED
      BY <1>1, <2>1, <3>1 DEF FilesOK, InTx
  <2>4. QED
    BY <2>2, <2>3
<1>14. ASSUME NEW d \in Removers, NEW b \in Blobs, StageBlob(d, b) PROVE FilesOK(i)'
  <2>1. /\ removal[d].pc = "staging" /\ b \in removal[d].pending
        /\ UNCHANGED <<rows, cpc>> /\ removal[d].item \in rows
    BY <1>14 DEF StageBlob, dbVars, createVars, RemovalInv, RemovalOK
  <2>2. b \in Attach[removal[d].item] /\ removal[d].item \in Items
    BY <2>1, RemovalTypes DEF RemovalInv, RemovalOK
  <2>3. CASE removal[d].item = i
    <3>1. \A e \in Removers \ {d} : removal[e].item # i
      BY <1>1, <2>3, KeyAssumption DEF RemovalInv, RemovalOK
    <3>2. b \notin removal[d].staged
      BY <1>1, <2>1, <2>3 DEF FilesOK
    <3>3. place[b] = "blobs"
      BY <1>1, <2>1, <2>2, <2>3, <3>2 DEF FilesOK
    <3>4. /\ removal'[d].item = i /\ removal'[d].pending = removal[d].pending \ {b}
          /\ removal'[d].staged = removal[d].staged \cup {b}
          /\ \A e \in Removers \ {d} : removal'[e] = removal[e]
          /\ place' = [place EXCEPT ![b] = "trash"]
      BY <1>14, <2>3, <3>3, StageUpdate
    <3>5. \A c \in Attach[i] : c \in Blobs /\ place'[c] = IF c = b THEN "trash" ELSE place[c]
      BY <1>2, <3>4 DEF Typed
    <3>6. removal'[d].staged = {c \in Attach[i] : place'[c] = "trash"}
      BY <1>1, <2>2, <2>3, <3>4, <3>5 DEF FilesOK
    <3>7. removal'[d].pending = Attach[i] \ removal'[d].staged
      BY <1>1, <2>1, <2>3, <3>4 DEF FilesOK
    <3>8. QED
      BY <1>1, <2>1, <2>3, <3>1, <3>4, <3>5, <3>6, <3>7 DEF FilesOK, InTx
  <2>4. CASE removal[d].item # i
    <3>1. \A c \in Attach[i] : place'[c] = place[c]
      <4>1. place' = [place EXCEPT ![b] = "trash"] \/ place' = place
        BY <1>14, StageUpdate
      <4>2. b \notin Attach[i]
        BY <1>2, <2>2, <2>4
      <4>3. QED
        BY <1>2, <4>1, <4>2 DEF Typed
    <3>2. \A e \in Removers : /\ removal'[e].item = removal[e].item
                              /\ e # d => removal'[e] = removal[e]
      BY <1>14, StageUpdate
    <3>3. QED
      BY <1>1, <2>1, <2>4, <3>1, <3>2 DEF FilesOK, InTx
  <2>5. QED
    BY <2>3, <2>4
<1>15. ASSUME NEW d \in Removers, NEW w \in {"blobs", "none"}, removal[d].pc # "idle",
              EndDelete(d), place' = Put(removal[d].staged, w), UNCHANGED <<rows, cpc>>,
              w = "blobs" /\ i = removal[d].item => i \in rows,
              w = "none" /\ i = removal[d].item => i \notin rows
       PROVE  FilesOK(i)'
  <2>1. removal'[d] = NoDelete /\ \A e \in Removers \ {d} : removal'[e] = removal[e]
    BY <1>15 DEF EndDelete, Typed
  <2>2. \A b \in Blobs : place'[b] = IF b \in removal[d].staged THEN w ELSE place[b]
    BY <1>15 DEF Put
  <2>3. CASE removal[d].item = i
    <3>1. \A e \in Removers \ {d} : removal[e].item # i
      BY <1>1, <2>3, KeyAssumption DEF RemovalInv, RemovalOK
    <3>2. \A e \in Removers : removal'[e].item # i
      BY <2>1, <3>1, KeyAssumption DEF NoDelete
    <3>3. \A b \in Attach[i] : b \in Blobs /\ (b \in removal[d].staged <=> place[b] = "trash")
      BY <1>1, <1>2, <2>3 DEF FilesOK
    <3>4. \A b \in Attach[i] : place'[b] = IF place[b] = "trash" THEN w ELSE place[b]
      BY <2>2, <3>3
    <3>5. QED
      BY <1>1, <1>15, <2>3, <3>2, <3>4 DEF FilesOK, InTx
  <2>4. CASE removal[d].item # i
    <3>1. \A b \in Attach[i] : place'[b] = place[b]
      <4>1. removal[d].item \in Items /\ removal[d].staged \subseteq Attach[removal[d].item]
        BY <1>3, <1>15, RemovalTypes
      <4>2. \A b \in Attach[i] : b \in Blobs /\ b \notin removal[d].staged
        BY <1>2, <2>4, <4>1
      <4>3. QED
        BY <2>2, <4>2
    <3>2. \A e \in Removers : /\ removal'[e].item = i <=> removal[e].item = i
                              /\ removal[e].item = i => removal'[e] = removal[e]
      BY <2>1, <2>4, KeyAssumption DEF NoDelete
    <3>3. QED
      BY <1>1, <1>15, <3>1, <3>2 DEF FilesOK, InTx
  <2>5. QED
    BY <2>3, <2>4
<1>16. ASSUME NEW d \in Removers, StageFails(d) \/ RemoveStaged(d) \/ RestoreStaged(d) PROVE FilesOK(i)'
  <2>1. CASE StageFails(d)
    BY <1>15, <2>1 DEF StageFails, RemovalInv, RemovalOK, dbVars, createVars
  <2>2. CASE RemoveStaged(d)
    BY <1>15, <2>2 DEF RemoveStaged, RemovalInv, RemovalOK, dbVars, createVars
  <2>3. CASE RestoreStaged(d)
    BY <1>1, <1>15, <2>3 DEF RestoreStaged, RemovalInv, RemovalOK, dbVars, createVars
  <2>4. QED
    BY <1>16, <2>1, <2>2, <2>3
<1>17. ASSUME NEW d \in Removers, CommitDelete(d) \/ CommitDeleteLost(d) PROVE FilesOK(i)'
  <2>1. PICK pc \in {"removing", "restoring"} :
          /\ removal' = [removal EXCEPT ![d].pc = pc]
          /\ pc = "removing" => rows' = rows \ {removal[d].item}
          /\ pc = "restoring" => removal[d].item \in hit'
    BY <1>17 DEF CommitDelete, CommitDeleteLost, FaultOn, DropRow
  <2>2. /\ removal[d].pc = "staging" /\ removal[d].pending = {} /\ UNCHANGED <<place, cpc>>
        /\ rows' = rows \ {removal[d].item} \/ rows' = rows
    BY <1>17 DEF CommitDelete, CommitDeleteLost, DropRow, dbVars, createVars
  <2>3. /\ removal'[d].pc = pc
        /\ \A e \in Removers : /\ removal'[e].item = removal[e].item
                               /\ removal'[e].staged = removal[e].staged
                               /\ removal'[e].pending = removal[e].pending
                               /\ e # d => removal'[e] = removal[e]
    BY <2>1, <2>2, RemovalUpdate
  <2>4. CASE removal[d].item = i
    <3>1. rows' = rows \ {i} /\ pc = "removing"
      BY <2>1, <2>4
    <3>2. \A b \in Attach[i] : place[b] = "trash"
      BY <1>1, <2>2, <2>4 DEF FilesOK
    <3>3. QED
      BY <1>1, <2>2, <2>3, <2>4, <3>1, <3>2 DEF FilesOK, InTx
  <2>5. CASE removal[d].item # i
    BY <1>1, <2>2, <2>3, <2>5 DEF FilesOK, InTx
  <2>6. QED
    BY <2>4, <2>5
<1>18. ASSUME Crash PROVE FilesOK(i)'
  <2>1. /\ UNCHANGED <<place, rows>> /\ ~Running(i) /\ cpc'[i] = cpc[i]
        /\ \A d \in Removers : removal[d].item # i
        /\ \A d \in Removers : removal'[d] = NoDelete
    BY <1>18 DEF Crash, FaultOn, dbVars
  <2>2. QED
    BY <1>1, <2>1, KeyAssumption DEF FilesOK, InTx, Running, NoDelete
<1>19. ASSUME Request PROVE FilesOK(i)'
  BY <1>5, <1>7, <1>13, <1>19, TypeFacts
     DEF Request, UserDelete, BeginUpdate, dbVars, createVars
<1>20. ASSUME NEW j \in Items, CreateStep(j) PROVE FilesOK(i)'
  <2>1. CASE BeginCreate(j) \/ LockCreate(j) \/ AdmitCreate(j)
    <3>1. /\ UNCHANGED <<place, removal, rows>>
          /\ \E q \in {"queued", "locked", "moving"} : cpc' = [cpc EXCEPT ![j] = q]
          /\ cpc[j] \in {"uploaded", "queued", "locked"}
      BY <2>1 DEF BeginCreate, LockCreate, AdmitCreate, dbVars
    <3>2. QED
      BY <1>1, <1>4, <3>1 DEF FilesOK, InTx, Typed
  <2>2. CASE ReplayCreate(j) \/ RejectCreate(j) \/ AbortCreate(j)
    BY <1>8, <2>2 DEF ReplayCreate, RejectCreate, AbortCreate, Inserting, InTx
  <2>3. QED
    BY <1>9, <1>10, <1>12, <1>20, <2>1, <2>2 DEF CreateStep
<1>21. ASSUME NEW j \in Items, CreateFails(j) PROVE FilesOK(i)'
  BY <1>8, <1>21 DEF CreateFails
<1>22. ASSUME NEW d \in Removers, RemoveStep(d) PROVE FilesOK(i)'
  BY <1>14, <1>16, <1>17, <1>22 DEF RemoveStep
<1>23. ASSUME SweepStep \/ SweepTimeout PROVE FilesOK(i)'
  <2>1. ASSUME SweepDelete PROVE FilesOK(i)'
    <3>1. Head(todo) \in Items
      BY <2>1, HeadTailProperties DEF SweepDelete, Typed
    <3>2. QED
      BY <1>13, <2>1, <3>1, TypeFacts DEF SweepDelete
  <2>2. QED
    BY <1>5, <1>23, <2>1 DEF SweepStep, Sweep, SweepSkip, SweepTimeout, dbVars, createVars
<1>24. ASSUME Tick \/ \E u \in Updaters : FinishUpdate(u) PROVE FilesOK(i)'
  BY <1>5, <1>24 DEF Tick, FinishUpdate, dbVars, createVars
<1>25. QED
  BY <1>11, <1>16, <1>17, <1>18, <1>19, <1>20, <1>21, <1>22, <1>23, <1>24 DEF Next, Fault

-----------------------------------------------------------------------------
(***************************************************************************)
(* The inductive invariant and what follows from it.                       *)
(***************************************************************************)

(* No item is stored at the start, so none uses a byte. *)
LEMMA UsedNothing == Used({}) = 0
<1>1. BytesOf({}) = {}
  BY DEF BytesOf
<1>2. QED
  BY <1>1, FS_EmptySet DEF Used

LEMMA InitInv == Init => IInv
<1> SUFFICES ASSUME Init PROVE IInv
  OBVIOUS
<1> USE KeyAssumption, BoundAssumption DEF Init
<1>1. Typed
  BY InitType
<1>2. QuotaRespected
  <2>1. Live \ revived = {}
    BY DEF Live
  <2>2. Used(Live \ revived) = 0
    BY <2>1, UsedNothing, Zenon
  <2>3. QED
    BY <2>2, SizeAssumption DEF QuotaRespected
<1>3. OneItemPerKey
  BY DEF OneItemPerKey
<1>4. CreationInv
  BY DEF CreationInv, LockHeld
<1>5. SnapshotInv
  BY DEF SnapshotInv, InTx
<1>6. RemovalInv
  BY DEF RemovalInv, RemovalOK, NoDelete
<1>7. FileInv
  BY FileAssumption DEF FileInv, FilesOK, NoDelete
<1>8. ExpiryInv
  BY DEF ExpiryInv, NoPatch
<1>9. QED
  BY <1>1, <1>2, <1>3, <1>4, <1>5, <1>6, <1>7, <1>8 DEF IInv

LEMMA StutterInv == IInv /\ UNCHANGED vars => IInv'
<1> SUFFICES ASSUME IInv, UNCHANGED vars PROVE IInv'
  OBVIOUS
<1> USE DEF vars, dbVars, createVars, historyVars, IInv
<1>1. Typed' /\ OneItemPerKey' /\ CreationInv'
  BY DEF Typed, OneItemPerKey, CreationInv, LockHeld, Settled, InTx
<1>2. QuotaRespected'
  BY DEF QuotaRespected, Used, BytesOf, Live
<1>3. SnapshotInv'
  BY DEF SnapshotInv, InTx, Live, Holder, Fits, Used, BytesOf
<1>4. RemovalInv'
  BY DEF RemovalInv, RemovalOK, Settled, Live
<1>5. FileInv' /\ ExpiryInv'
  BY DEF FileInv, FilesOK, InTx, ExpiryInv
<1>6. QED
  BY <1>1, <1>2, <1>3, <1>4, <1>5

(* The invariant is inductive: it holds in every reachable state. *)
THEOREM Invariance == Spec => []IInv
<1>1. IInv /\ Next => IInv'
  BY TypeStep, QuotaStep, KeyStep, CreationInvStep, SnapshotStep, RemovalInvStep,
     FileInvStep, ExpiryStep DEF IInv
<1>2. IInv /\ [Next]_vars => IInv'
  BY <1>1, StutterInv
<1>3. QED
  BY InitInv, <1>2, PTL DEF Spec

(* Type correctness: every reachable state is well formed, and the lock is *)
(* held by the one creation that is past its lock statement and has        *)
(* neither committed nor returned.                                         *)
THEOREM TypeCorrect == Spec => []TypeOK
<1>1. IInv => TypeOK
  BY DEF IInv, CreationInv, TypeOK
<1>2. QED
  BY Invariance, <1>1, PTL

(* The quota bounds the live bytes for any number of concurrent creations, *)
(* although none of them holds the lock when its snapshot is taken.        *)
THEOREM QuotaSafe == Spec => []QuotaRespected
<1>1. IInv => QuotaRespected
  BY DEF IInv
<1>2. QED
  BY Invariance, <1>1, PTL

(* No two stored items share an Idempotency-Key. *)
THEOREM KeysSafe == Spec => []OneItemPerKey
<1>1. IInv => OneItemPerKey
  BY DEF IInv
<1>2. QED
  BY Invariance, <1>1, PTL

(* A live item's files can be opened, whatever crashes, sweeps and other *)
(* requests do, unless its own creation or deletion met a fault.         *)
THEOREM FilesSafe == Spec => []AttachmentsOpen
<1>1. IInv => AttachmentsOpen
  <2> SUFFICES ASSUME IInv, NEW i \in Live \ hit, ~RowLocked(i), NEW b \in Attach[i]
               PROVE  OpenAttachment(i, b) = "opened"
    BY DEF AttachmentsOpen
  <2>1. i \in Items /\ i \in rows
    BY DEF IInv, Typed, Live
  <2>2. FilesOK(i)
    BY <2>1 DEF IInv, FileInv
  <2>3. \A d \in Removers : removal[d].item # i
    BY <2>1, AloneAtStart DEF IInv
  <2>4. place[b] = "blobs"
    BY <2>1, <2>2, <2>3 DEF FilesOK
  <2>5. QED
    BY <2>4 DEF OpenAttachment
<1>2. QED
  BY Invariance, <1>1, PTL

(* No handler that met no fault leaves a file behind. *)
THEOREM NothingLeft == Spec => []NoLitter
<1>1. IInv => NoLitter
  <2> SUFFICES ASSUME IInv, NEW i \in Items \ hit, NEW b \in Attach[i]
               PROVE  /\ place[b] = "blobs" => i \in rows \/ cpc[i] = "moving"
                      /\ place[b] = "upload" => Running(i)
                      /\ place[b] = "trash" => \E d \in Removers : b \in removal[d].staged
    BY DEF NoLitter
  <2>1. FilesOK(i)
    BY DEF IInv, FileInv
  <2>2. QED
    BY <2>1 DEF FilesOK, Running
<1>2. QED
  BY Invariance, <1>1, PTL

-----------------------------------------------------------------------------
(***************************************************************************)
(* DropStore implements DropSpec.                                          *)
(***************************************************************************)

Shelf == [i \in rows |-> expires[i]]

LEMMA AbstractFacts ==
  /\ \A S : Abstract!Used(S) = Used(S)
  /\ Abstract!Alive = Live
  /\ Abstract!Expiries = 0..(clock + MaxTTL)
  /\ Abstract!specVars = <<Shelf, keys, revived, clock>>
<1>1. \A S : Abstract!Used(S) = Used(S)
  BY DEF Abstract!Used, Abstract!BytesOf, Abstract!Cardinality, Cardinality, Used, BytesOf
<1>2. Abstract!Alive = Live
  BY DEF Abstract!Alive, Live
<1>3. Abstract!Expiries = 0..(clock + MaxTTL)
  BY DEF Abstract!Expiries
<1>4. Abstract!specVars = <<Shelf, keys, revived, clock>>
  BY DEF Abstract!specVars, Shelf
<1>5. QED
  BY <1>1, <1>2, <1>3, <1>4

(* An abandoned or waiting step changes nothing a caller can see; every *)
(* other one is an operation of DropSpec, done at one instant.          *)
LEMMA StepSimulation ==
  ASSUME IInv, IInv', [Next]_vars
  PROVE  [Abstract!Next]_(Abstract!specVars)
<1> USE AbstractFacts
<1> DEFINE Goal == Abstract!Next \/ UNCHANGED <<Shelf, keys, revived, clock>>
<1>0. Typed /\ Typed'
  BY DEF IInv
<1>1. ASSUME UNCHANGED vars PROVE Goal
  BY <1>1 DEF vars, dbVars, historyVars, Shelf
<1>2. ASSUME NEW i \in Items, Stores(i) PROVE Goal
  <2>1. /\ rows' = rows \cup {i} /\ UNCHANGED <<expires, clock, revived>> /\ i \notin rows
        /\ keys' = [k \in Keys |-> IF k = KeyOf[i] THEN i ELSE keys[k]]
    BY <1>2, LiveStore DEF Stores, StoreRow, IInv, CreationInv, LockHeld
  <2>2. KeyOf[i] # NoKey => keys[KeyOf[i]] = NoItem
    BY <1>2 DEF Stores, Conflict, Holder
  <2>3. Used(Live \ revived) + Size[i] <= Quota
    <3>1. Live \ revived \subseteq seen[i].live /\ Used(seen[i].live) + Size[i] <= Quota
      <4>1. cpc[i] = "moving" /\ i \notin stale
        BY <1>2 DEF Stores, Conflict, Inserting
      <4>2. SnapshotInv
        BY DEF IInv
      <4>3. QED
        BY <4>1, <4>2 DEF SnapshotInv, InTx, Fits
    <3>2. seen[i].live \in SUBSET Items /\ Size[i] \in Nat
      BY <1>0, SizeAssumption DEF Typed
    <3>3. /\ Used(Live \ revived) <= Used(seen[i].live)
          /\ Used(Live \ revived) \in Nat /\ Used(seen[i].live) \in Nat
      BY <3>1, <3>2, UsedMonotone, BytesFinite
    <3>4. QED
      BY <3>1, <3>2, <3>3, SizeAssumption
  <2>4. expires[i] \in 0..(clock + MaxTTL)
    BY <1>0, BoundAssumption DEF IInv, ExpiryInv, Typed
  <2>5. Shelf' = [j \in DOMAIN Shelf \cup {i} |-> IF j = i THEN expires[i] ELSE Shelf[j]]
    BY <2>1 DEF Shelf
  <2>6. Abstract!Post(i)
    BY <2>1, <2>2, <2>3, <2>4, <2>5 DEF Abstract!Post, Shelf
  <2>7. QED
    BY <2>6 DEF Abstract!Next
<1>3. ASSUME NEW d \in Removers, Drops(d) PROVE Goal
  <2>1. PICK i \in Items : i \in rows /\ i = removal[d].item
    BY <1>0, <1>3 DEF Drops, IInv, RemovalInv, RemovalOK, Typed
  <2>2. /\ rows' = rows \ {i} /\ expires' = [expires EXCEPT ![i] = 0]
        /\ keys' = [k \in Keys |-> IF keys[k] = i THEN NoItem ELSE keys[k]]
        /\ revived' = revived \ {i} /\ UNCHANGED clock
    BY <1>3, <2>1 DEF Drops, DropRow
  <2>3. Shelf' = [j \in DOMAIN Shelf \ {i} |-> Shelf[j]]
    BY <1>0, <2>1, <2>2 DEF Shelf, Typed
  <2>4. Abstract!Remove(i)
    BY <2>1, <2>2, <2>3 DEF Abstract!Remove, Shelf
  <2>5. QED
    BY <2>1, <2>4 DEF Abstract!Next
<1>4. ASSUME Tick PROVE Goal
  <2>1. Abstract!Tick
    BY <1>4 DEF Tick, dbVars, historyVars, Abstract!Tick
  <2>2. QED
    BY <2>1 DEF Abstract!Next
<1>5. ASSUME NEW i \in Items, AdmitCreate(i) PROVE Goal
  <2>1. i \notin rows
    BY <1>5 DEF AdmitCreate, IInv, CreationInv, LockHeld, Settled
  <2>2. UNCHANGED <<Shelf, keys, revived, clock>>
    BY <1>0, <1>5, <2>1 DEF AdmitCreate, historyVars, Shelf, Typed
  <2>3. QED
    BY <2>2
<1>6. ASSUME NEW u \in Updaters, FinishUpdate(u) PROVE Goal
  <2> DEFINE due == patch[u].due
             Applied == patch[u].item \in rows /\ expires[patch[u].item] > patch[u].at
  <2>1. due \in 0..(clock + MaxTTL)
    BY <1>0, BoundAssumption DEF IInv, ExpiryInv, Typed
  <2>2. UNCHANGED <<rows, keys, clock>>
    BY <1>6 DEF FinishUpdate
  <2>3. CASE Applied
    <3>1. PICK i \in Items : i \in rows /\ i = patch[u].item
      BY <1>0, <2>3 DEF Typed
    <3>2. /\ expires' = [expires EXCEPT ![i] = due]
          /\ revived' = IF i \in Live THEN revived ELSE revived \cup {i}
      BY <1>6, <2>3, <3>1 DEF FinishUpdate
    <3> HIDE DEF due
    <3>3. Shelf' = [Shelf EXCEPT ![i] = due]
      BY <1>0, <2>2, <3>1, <3>2 DEF Shelf, Typed
    <3>4. Abstract!Extend(i)
      BY <2>1, <2>2, <3>1, <3>2, <3>3 DEF Abstract!Extend, Shelf
    <3>5. QED
      BY <3>4 DEF Abstract!Next
  <2>4. CASE ~Applied
    <3>1. UNCHANGED <<expires, revived>>
      BY <1>6, <2>4 DEF FinishUpdate
    <3>2. QED
      BY <2>2, <3>1 DEF Shelf
  <2>5. QED
    BY <2>3, <2>4
<1>7. ASSUME UNCHANGED <<dbVars, clock, revived>> PROVE Goal
  BY <1>7 DEF dbVars, Shelf
<1>8. Goal
  BY <1>1, <1>2, <1>3, <1>4, <1>5, <1>6, <1>7, DataStep
<1>9. QED
  BY <1>8 DEF Abstract!specVars, Shelf

(* Every behaviour of the store, with its snapshots, locks, files and      *)
(* faults, is one of the instantaneous operations of DropSpec.             *)
THEOREM Refinement == Spec => ImplementsDropSpec
<1>1. Init => Abstract!Init
  BY DEF Init, Abstract!Init
<1>2. QED
  BY <1>1, StepSimulation, Invariance, PTL DEF Spec, ImplementsDropSpec, Abstract!Spec

-----------------------------------------------------------------------------
(***************************************************************************)
(* Who waits for whom.                                                     *)
(***************************************************************************)

Spooled(i) == cpc[i] = "uploaded" \/ InTx(i)

(* A step that leaves the files of i alone, or moves them to blobs/. *)
LEMMA SpoolKept ==
  ASSUME SpoolInv, NEW i \in Items, Spooled(i),
         \A b \in Attach[i] : place'[b] \in {place[b], "blobs"}
  PROVE  \A b \in Attach[i] : place'[b] \in {"upload", "blobs"}
  BY DEF SpoolInv, Spooled

LEMMA SpoolStep ==
  ASSUME IInv, SpoolInv, Next
  PROVE  SpoolInv'
<1> USE DEF IInv
<1> SUFFICES ASSUME NEW i \in Items, Spooled(i)'
             PROVE  \A b \in Attach[i] : place'[b] \in {"upload", "blobs"}
  BY DEF SpoolInv, Spooled
<1> DEFINE Goal == \A b \in Attach[i] : place'[b] \in {"upload", "blobs"}
<1>1. \A j \in Items : \A b \in Attach[j] : b \in Blobs /\ (j # i => b \notin Attach[i])
  BY FileAssumption
<1>2. ASSUME Spooled(i), NEW S, S \cap Attach[i] = {}, NEW w, place' = Put(S, w)
      PROVE  Goal
  <2>1. \A b \in Attach[i] : place'[b] = place[b]
    BY <1>1, <1>2 DEF Put
  <2>2. QED
    BY <1>2, <2>1, SpoolKept
<1>3. ASSUME Spooled(i), UNCHANGED place PROVE Goal
  BY <1>3, SpoolKept
<1>4. ASSUME NEW j \in Items, Upload(j) PROVE Goal
  <2>1. place' = Put(Attach[j], "upload") /\ cpc' = [cpc EXCEPT ![j] = "uploaded"]
    BY <1>4 DEF Upload
  <2>2. CASE j = i
    BY <1>1, <2>1, <2>2 DEF Put
  <2>3. CASE j # i
    <3>1. Spooled(i)
      BY <2>1, <2>3 DEF Spooled, InTx, Typed
    <3>2. QED
      BY <1>1, <1>2, <2>1, <2>3, <3>1
  <2>4. QED
    BY <2>2, <2>3
<1>5. ASSUME NEW j \in Items, NEW S \in SUBSET Attach[j], place' = Put(S, "none"),
             NEW result \in {"replayed", "gone", "full", "failed"}, cpc' = [cpc EXCEPT ![j] = result]
      PROVE  Goal
  <2>1. j # i /\ Spooled(i)
    BY <1>5 DEF Spooled, InTx, Typed
  <2>2. QED
    BY <1>1, <1>2, <1>5, <2>1
<1>6. ASSUME NEW j \in Items, CreateStep(j) \/ CreateFails(j) \/ CommitCreateLost(j) PROVE Goal
  <2>1. CASE ReplayCreate(j) \/ RejectCreate(j) \/ AbortCreate(j) \/ CreateFails(j)
    BY <1>5, <2>1 DEF ReplayCreate, RejectCreate, AbortCreate, CreateFails, EndCreate
  <2>2. CASE CleanupCreate(j)
    <3>1. {b \in Attach[j] : place[b] = "blobs"} \in SUBSET Attach[j]
      OBVIOUS
    <3>2. QED
      BY <1>5, <2>2, <3>1 DEF CleanupCreate
  <2>3. ASSUME NEW b \in Attach[j], MoveBlob(j, b) PROVE Goal
    <3>1. Spooled(i) /\ \A c \in Attach[i] : place'[c] \in {place[c], "blobs"}
      BY <1>1, <2>3 DEF MoveBlob, Spooled, InTx, createVars, Typed
    <3>2. QED
      BY <3>1, SpoolKept
  <2>4. CASE BeginCreate(j) \/ LockCreate(j) \/ AdmitCreate(j) \/ CommitCreate(j) \/ CommitCreateLost(j)
    <3>1. Spooled(i) /\ UNCHANGED place
      BY <2>4 DEF BeginCreate, LockCreate, AdmitCreate, CommitCreate, CommitCreateLost, Inserting,
                  Spooled, InTx, Typed
    <3>2. QED
      BY <1>3, <3>1
  <2>5. QED
    BY <1>6, <2>1, <2>2, <2>3, <2>4 DEF CreateStep
<1>7. ASSUME NEW d \in Removers, RemoveStep(d) \/ StageFails(d) \/ CommitDeleteLost(d) PROVE Goal
  <2>1. UNCHANGED cpc
    BY <1>7 DEF RemoveStep, StageBlob, CommitDelete, RemoveStaged, RestoreStaged, StageFails,
                CommitDeleteLost, createVars
  <2>2. Spooled(i)
    BY <2>1 DEF Spooled, InTx
  <2>3. removal[d].pc # "idle"
    BY <1>7 DEF RemoveStep, StageBlob, CommitDelete, RemoveStaged, RestoreStaged, StageFails,
                CommitDeleteLost
  <2>4. removal[d].item \in Items /\ Settled(removal[d].item)
        /\ removal[d].pending \cup removal[d].staged \subseteq Attach[removal[d].item]
    BY <2>3, RemovalTypes DEF RemovalInv, RemovalOK
  <2>5. removal[d].item # i
    BY <2>2, <2>4 DEF Settled, Spooled, InTx
  <2>6. (removal[d].pending \cup removal[d].staged) \cap Attach[i] = {}
    BY <1>1, <2>4, <2>5
  <2>7. ASSUME NEW b \in Blobs, StageBlob(d, b) PROVE Goal
    <3> DEFINE found == {b} \cap {f \in Blobs : place[f] = "blobs"}
    <3>1. b \in removal[d].pending /\ place' = Put(found, "trash")
      BY <2>7 DEF StageBlob
    <3>2. found \cap Attach[i] = {}
      BY <2>6, <3>1
    <3> HIDE DEF found
    <3>3. QED
      BY <1>2, <2>2, <3>1, <3>2
  <2>8. CASE StageFails(d) \/ RemoveStaged(d) \/ RestoreStaged(d)
    <3>1. \E w \in {"none", "blobs"} : place' = Put(removal[d].staged, w)
      BY <2>8 DEF StageFails, RemoveStaged, RestoreStaged
    <3>2. QED
      BY <1>2, <2>2, <2>6, <3>1
  <2>9. CASE CommitDelete(d) \/ CommitDeleteLost(d)
    BY <1>3, <2>2, <2>9 DEF CommitDelete, CommitDeleteLost
  <2>10. QED
    BY <1>7, <2>7, <2>8, <2>9 DEF RemoveStep
<1>8. CASE Crash
  BY <1>8 DEF Crash, Running, Spooled, InTx, Typed
<1>9. ASSUME UNCHANGED <<place, cpc>> PROVE Goal
  BY <1>3, <1>9 DEF Spooled, InTx
<1>10. ASSUME Request PROVE Goal
  BY <1>4, <1>9, <1>10 DEF Request, UserDelete, StartDelete, BeginUpdate, createVars
<1>11. CASE Tick \/ SweepStep \/ SweepTimeout \/ \E u \in Updaters : FinishUpdate(u)
  BY <1>9, <1>11 DEF Tick, FinishUpdate, SweepStep, Sweep, SweepDelete, StartDelete, SweepSkip,
                     SweepTimeout, createVars
<1>12. QED
  BY <1>6, <1>7, <1>8, <1>10, <1>11 DEF Next, Fault

LEMMA SpoolSafe == Spec => []SpoolInv
<1>1. Init => SpoolInv
  BY DEF Init, SpoolInv, InTx
<1>2. IInv /\ SpoolInv /\ [Next]_vars => SpoolInv'
  BY SpoolStep DEF vars, createVars, SpoolInv, InTx
<1>3. QED
  BY <1>1, <1>2, Invariance, PTL DEF Spec

(* CanCreate asks for no more than the guards of a creation's steps do. *)
LEMMA StepsCanCreate ==
  ASSUME SpoolInv, NEW i \in Items, CreateStep(i)
  PROVE  Running(i) /\ CanCreate(i)
  BY DEF CreateStep, BeginCreate, LockCreate, ReplayCreate, RejectCreate, AdmitCreate, MoveBlob,
         CommitCreate, AbortCreate, CleanupCreate, Inserting, Running, InTx, CanCreate, SpoolInv

(* However many uploads wait for the advisory lock, and whichever of them  *)
(* fail, are refused or lose their answer, there is one that goes on: the  *)
(* lock is held by a creation that has its next step before it.            *)
THEOREM UploadsMove == Spec => []QueueMoves
<1>1. IInv /\ SpoolInv => QueueMoves
  <2> SUFFICES ASSUME IInv, SpoolInv, NEW i \in Items, Running(i)
               PROVE  \E j \in {i, advisory} \cap Items : CanCreate(j)
    BY DEF QueueMoves
  <2>1. CASE cpc[i] # "queued"
    BY <2>1 DEF Running, InTx, CanCreate, SpoolInv
  <2>2. CASE advisory = NoItem
    BY <2>1, <2>2 DEF Running, InTx, CanCreate
  <2>3. CASE advisory # NoItem
    <3>1. advisory \in Items
      BY <2>3 DEF IInv, Typed
    <3>2. cpc[advisory] \in {"locked", "moving"}
      BY <3>1 DEF IInv, CreationInv, LockHeld
    <3>3. CanCreate(advisory)
      BY <3>1, <3>2 DEF CanCreate, SpoolInv, InTx
    <3>4. QED
      BY <3>1, <3>3
  <2>4. QED
    BY <2>1, <2>2, <2>3
<1>2. QED
  BY <1>1, Invariance, SpoolSafe, PTL
=============================================================================
