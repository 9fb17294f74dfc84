-------------------------- MODULE DropEventsProofs --------------------------
(***************************************************************************)
(* Theorems about DropEvents, for any pages, changes and number of list    *)
(* requests in flight, whether or not a stream can flush.                  *)
(***************************************************************************)
EXTENDS DropEvents, TLAPS

USE EventsAssumption

LEMMA InitInv == Init => IInv
  BY DEF Init, IInv, TypeOK, SignalInv, LoadInv, Committed, Quiet

(* A page that asks for the list, and the others. *)
LEMMA AskFacts ==
  ASSUME TypeOK, NEW p \in Pages, NEW k \in Loads, Ask(p, k)
  PROVE  /\ load' \in [Pages -> [Loads -> {"idle", "asked", "read"}]]
         /\ newest' \in [Pages -> Loads] /\ asked' \in [Pages -> SUBSET Changes]
         /\ UNCHANGED <<list, overtaken>>
         /\ asked'[p] = Committed /\ newest'[p] = k /\ load'[p][k] = "asked"
         /\ \A q \in Pages : q # p => /\ asked'[q] = asked[q] /\ newest'[q] = newest[q]
                                     /\ load'[q] = load[q]
<1>1. asked' \in [Pages -> SUBSET Changes] /\ newest' \in [Pages -> Loads]
  BY DEF Ask, TypeOK, Committed
<1>2. load' \in [Pages -> [Loads -> {"idle", "asked", "read"}]]
  BY DEF Ask, TypeOK
<1>3. asked'[p] = Committed /\ newest'[p] = k /\ load'[p][k] = "asked"
  BY DEF Ask, TypeOK
<1>4. QED
  BY <1>1, <1>2, <1>3 DEF Ask, TypeOK

(* A list request of a page that ends, and the rest. *)
LEMMA EndLoadFacts ==
  ASSUME TypeOK, NEW p \in Pages, NEW k \in Loads, NEW over \in BOOLEAN, EndLoad(p, k, over)
  PROVE  /\ load' \in [Pages -> [Loads -> {"idle", "asked", "read"}]]
         /\ list' \in [Pages -> [Loads -> SUBSET Changes]]
         /\ overtaken' \in [Pages -> BOOLEAN]
         /\ change' = change /\ hubVars' = hubVars /\ newest' = newest /\ asked' = asked
         /\ load'[p][k] = "idle" /\ overtaken'[p] = over
         /\ \A l \in Loads : l # k => load'[p][l] = load[p][l] /\ list'[p][l] = list[p][l]
         /\ \A q \in Pages : q # p => /\ load'[q] = load[q] /\ list'[q] = list[q]
                                     /\ overtaken'[q] = overtaken[q]
<1>1. overtaken' \in [Pages -> BOOLEAN] /\ overtaken'[p] = over
  BY DEF EndLoad, TypeOK
<1>2. load' \in [Pages -> [Loads -> {"idle", "asked", "read"}]] /\ load'[p][k] = "idle"
  BY DEF EndLoad, TypeOK
<1>3. list' \in [Pages -> [Loads -> SUBSET Changes]]
  BY DEF EndLoad, TypeOK
<1>4. QED
  BY <1>1, <1>2, <1>3 DEF EndLoad, TypeOK

(* Whatever the answer of a list request says of the newest, it is a Boolean. *)
LEMMA ShowListFacts ==
  ASSUME TypeOK, NEW p \in Pages, NEW k \in Loads, ShowList(p, k)
  PROVE  \E over \in BOOLEAN :
           /\ EndLoad(p, k, over)
           /\ k # newest[p] /\ load[p][newest[p]] = "idle" => over
<1>1. CASE k = newest[p]
  BY <1>1 DEF ShowList
<1>2. CASE k # newest[p]
  <2>1. (overtaken[p] \/ load[p][newest[p]] = "idle") \in BOOLEAN
    OBVIOUS
  <2>2. EndLoad(p, k, overtaken[p] \/ load[p][newest[p]] = "idle")
    BY <1>2 DEF ShowList
  <2>3. QED
    BY <2>1, <2>2
<1>3. QED
  BY <1>1, <1>2

(* The state stays well formed, and only a subscribed stream holds a       *)
(* signal or an event.                                                     *)
LEMMA TypeStep ==
  ASSUME TypeOK, [Next]_vars
  PROVE  TypeOK'
<1> USE DEF TypeOK
<1>1. ASSUME NEW c \in Changes, Commit(c)
      PROVE  TypeOK'
  BY <1>1 DEF Commit, SetChange, hubVars, loadVars, Committed
<1>2. ASSUME NEW c \in Changes, Publish(c)
      PROVE  TypeOK'
  BY <1>2 DEF Publish, SetChange, Notify, hubVars, loadVars, Committed
<1>3. ASSUME NEW c \in Changes, ReplyError(c)
       PROVE  TypeOK'
  BY <1>3 DEF ReplyError, SetChange, hubVars, loadVars, Committed
<1>4. ASSUME NEW c \in Changes, Replay(c)
       PROVE  TypeOK'
  BY <1>4 DEF Replay, SetChange, hubVars, loadVars, Committed
<1>5. ASSUME NEW c \in Changes, Reply(c)
      PROVE  TypeOK'
  <2>1. change' = [change EXCEPT ![c] = "answered"] /\ UNCHANGED hubVars
    BY <1>5 DEF Reply, SetChange
  <2>2. ASSUME MadeBy[c] \in Pages, UploadAnswered(MadeBy[c])
        PROVE  TypeOK'
    <3>1. PICK k \in Loads : Ask(MadeBy[c], k)
      BY <2>2 DEF UploadAnswered
    <3>2. QED
      BY <2>1, <2>2, <3>1, AskFacts DEF UploadAnswered, hubVars
  <2>3. ASSUME MadeBy[c] \in Pages, EditAnswered(MadeBy[c], c)
        PROVE  TypeOK'
    BY <2>1, <2>3 DEF EditAnswered, hubVars, loadVars
  <2>4. ASSUME NotAnswered
        PROVE  TypeOK'
    BY <2>1, <2>4 DEF NotAnswered, hubVars, loadVars
  <2>5. QED
    BY <1>5, <2>2, <2>3, <2>4 DEF Reply
<1>6. ASSUME NEW p \in Pages, Connect(p)
      PROVE  TypeOK'
  BY <1>6 DEF Connect, SetStream, hubVars, loadVars, Committed
<1>7. ASSUME NEW p \in Pages, Subscribe(p)
      PROVE  TypeOK'
  BY <1>7 DEF Subscribe, SetStream, hubVars, loadVars, Committed
<1>8. ASSUME NEW p \in Pages, TakeSignal(p)
      PROVE  TypeOK'
  BY <1>8 DEF TakeSignal, hubVars, loadVars, Committed
<1>9. ASSUME NEW p \in Pages, WriteEvent(p)
      PROVE  TypeOK'
  BY <1>9 DEF WriteEvent, hubVars, loadVars, Committed
<1>10. ASSUME NEW p \in Pages, ReceiveEvent(p)
      PROVE  TypeOK'
  BY <1>10 DEF ReceiveEvent, Ask, hubVars, loadVars, Committed
<1>11. ASSUME NEW p \in Pages, Break(p)
      PROVE  TypeOK'
  BY <1>11 DEF Break, SetStream, Drop, hubVars, loadVars, Committed
<1>12. ASSUME NEW p \in Pages, Reconnect(p)
      PROVE  TypeOK'
  BY <1>12 DEF Reconnect, SetStream, hubVars, loadVars, Committed
<1>13. ASSUME NEW p \in Pages, Refresh(p)
      PROVE  TypeOK'
  BY <1>13 DEF Refresh, Ask, hubVars, loadVars, Committed
<1>14. ASSUME NEW p \in Pages, NEW k \in Loads, ReadList(p, k)
      PROVE  TypeOK'
  BY <1>14 DEF ReadList, hubVars, loadVars, Committed
<1>15. ASSUME NEW p \in Pages, NEW k \in Loads, ShowList(p, k)
      PROVE  TypeOK'
  <2>1. PICK over \in BOOLEAN : EndLoad(p, k, over)
    BY <1>15, ShowListFacts
  <2>2. shown' \in [Pages -> SUBSET Changes]
    BY <1>15 DEF ShowList
  <2>3. QED
    BY <2>1, <2>2, EndLoadFacts DEF hubVars
<1>16. ASSUME NEW p \in Pages, NEW k \in Loads, FailLoad(p, k)
      PROVE  TypeOK'
  BY <1>16 DEF FailLoad, EndLoad, hubVars, loadVars, Committed
<1>17. ASSUME UNCHANGED vars
      PROVE  TypeOK'
  BY <1>17 DEF vars, hubVars, loadVars, Committed
<1>18. QED
  BY <1>1, <1>2, <1>3, <1>4, <1>5, <1>6, <1>7, <1>8, <1>9, <1>10, <1>11, <1>12, <1>13, <1>14, <1>15, <1>16, <1>17
     DEF Next, Handle, StreamStep, LoadStep

(* Changes stay committed; how each step moves the sets of changes. *)
LEMMA CommittedGrows ==
  ASSUME TypeOK, [Next]_vars
  PROVE  Committed \subseteq Committed'
<1> USE DEF TypeOK
<1>1. ASSUME NEW c \in Changes, Commit(c)
      PROVE  Committed \subseteq Committed'
  BY <1>1 DEF Commit, SetChange, hubVars, loadVars, Committed
<1>2. ASSUME NEW c \in Changes, Publish(c)
      PROVE  Committed \subseteq Committed'
  BY <1>2 DEF Publish, SetChange, Notify, hubVars, loadVars, Committed
<1>3. ASSUME NEW c \in Changes, ReplyError(c)
       PROVE  Committed \subseteq Committed'
  BY <1>3 DEF ReplyError, SetChange, hubVars, loadVars, Committed
<1>4. ASSUME NEW c \in Changes, Replay(c)
       PROVE  Committed \subseteq Committed'
  BY <1>4 DEF Replay, SetChange, hubVars, loadVars, Committed
<1>5. ASSUME NEW c \in Changes, Reply(c)
      PROVE  Committed \subseteq Committed'
  BY <1>5 DEF Reply, SetChange, UploadAnswered, EditAnswered, NotAnswered, Ask, hubVars, loadVars, Committed
<1>6. ASSUME NEW p \in Pages, Connect(p)
      PROVE  Committed \subseteq Committed'
  BY <1>6 DEF Connect, SetStream, hubVars, loadVars, Committed
<1>7. ASSUME NEW p \in Pages, Subscribe(p)
      PROVE  Committed \subseteq Committed'
  BY <1>7 DEF Subscribe, SetStream, hubVars, loadVars, Committed
<1>8. ASSUME NEW p \in Pages, TakeSignal(p)
      PROVE  Committed \subseteq Committed'
  BY <1>8 DEF TakeSignal, hubVars, loadVars, Committed
<1>9. ASSUME NEW p \in Pages, WriteEvent(p)
      PROVE  Committed \subseteq Committed'
  BY <1>9 DEF WriteEvent, hubVars, loadVars, Committed
<1>10. ASSUME NEW p \in Pages, ReceiveEvent(p)
      PROVE  Committed \subseteq Committed'
  BY <1>10 DEF ReceiveEvent, Ask, hubVars, loadVars, Committed
<1>11. ASSUME NEW p \in Pages, Break(p)
      PROVE  Committed \subseteq Committed'
  BY <1>11 DEF Break, SetStream, Drop, hubVars, loadVars, Committed
<1>12. ASSUME NEW p \in Pages, Reconnect(p)
      PROVE  Committed \subseteq Committed'
  BY <1>12 DEF Reconnect, SetStream, hubVars, loadVars, Committed
<1>13. ASSUME NEW p \in Pages, Refresh(p)
      PROVE  Committed \subseteq Committed'
  BY <1>13 DEF Refresh, Ask, hubVars, loadVars, Committed
<1>14. ASSUME NEW p \in Pages, NEW k \in Loads, ReadList(p, k)
      PROVE  Committed \subseteq Committed'
  BY <1>14 DEF ReadList, hubVars, loadVars, Committed
<1>15. ASSUME NEW p \in Pages, NEW k \in Loads, ShowList(p, k)
      PROVE  Committed \subseteq Committed'
  BY <1>15 DEF ShowList, EndLoad, hubVars, loadVars, Committed
<1>16. ASSUME NEW p \in Pages, NEW k \in Loads, FailLoad(p, k)
      PROVE  Committed \subseteq Committed'
  BY <1>16 DEF FailLoad, EndLoad, hubVars, loadVars, Committed
<1>17. ASSUME UNCHANGED vars
      PROVE  Committed \subseteq Committed'
  BY <1>17 DEF vars, hubVars, loadVars, Committed
<1>18. QED
  BY <1>1, <1>2, <1>3, <1>4, <1>5, <1>6, <1>7, <1>8, <1>9, <1>10, <1>11, <1>12, <1>13, <1>14, <1>15, <1>16, <1>17
     DEF Next, Handle, StreamStep, LoadStep

(* No signal is lost between the publication of a change and the list      *)
(* request of a subscribed page.                                           *)
LEMMA SignalStep ==
  ASSUME TypeOK, SignalInv, [Next]_vars
  PROVE  SignalInv'
<1> USE DEF TypeOK, SignalInv, Quiet
<1>1. ASSUME NEW c \in Changes, Commit(c)
      PROVE  SignalInv'
  BY <1>1, CommittedGrows DEF Commit, SetChange, hubVars, loadVars, Committed
<1>2. ASSUME NEW c \in Changes, Publish(c)
      PROVE  SignalInv'
  BY <1>2, CommittedGrows DEF Publish, SetChange, Notify, hubVars, loadVars, Committed
<1>3. ASSUME NEW c \in Changes, ReplyError(c)
       PROVE  SignalInv'
  BY <1>3, CommittedGrows DEF ReplyError, SetChange, hubVars, loadVars, Committed
<1>4. ASSUME NEW c \in Changes, Replay(c)
       PROVE  SignalInv'
  BY <1>4, CommittedGrows DEF Replay, SetChange, hubVars, loadVars, Committed
<1>5. ASSUME NEW c \in Changes, Reply(c)
      PROVE  SignalInv'
  <2>1. UNCHANGED hubVars
    BY <1>5 DEF Reply
  <2>2. Committed' = Committed
    BY <1>5 DEF Reply, SetChange, Committed
  <2>3. ASSUME MadeBy[c] \in Pages, UploadAnswered(MadeBy[c])
        PROVE  SignalInv'
    <3>1. PICK k \in Loads : Ask(MadeBy[c], k)
      BY <2>3 DEF UploadAnswered
    <3>2. /\ asked'[MadeBy[c]] = Committed
          /\ \A q \in Pages : q # MadeBy[c] => asked'[q] = asked[q]
      BY <2>3, <3>1, AskFacts
    <3>3. QED
      BY <2>1, <2>2, <3>2 DEF hubVars
  <2>4. ASSUME MadeBy[c] \in Pages, EditAnswered(MadeBy[c], c)
        PROVE  SignalInv'
    BY <2>1, <2>2, <2>4 DEF EditAnswered, hubVars, loadVars
  <2>5. ASSUME NotAnswered
        PROVE  SignalInv'
    BY <2>1, <2>2, <2>5 DEF NotAnswered, hubVars, loadVars
  <2>6. QED
    BY <1>5, <2>3, <2>4, <2>5 DEF Reply
<1>6. ASSUME NEW p \in Pages, Connect(p)
      PROVE  SignalInv'
  BY <1>6, CommittedGrows DEF Connect, SetStream, hubVars, loadVars, Committed
<1>7. ASSUME NEW p \in Pages, Subscribe(p)
      PROVE  SignalInv'
  BY <1>7, CommittedGrows DEF Subscribe, SetStream, hubVars, loadVars, Committed
<1>8. ASSUME NEW p \in Pages, TakeSignal(p)
      PROVE  SignalInv'
  BY <1>8, CommittedGrows DEF TakeSignal, hubVars, loadVars, Committed
<1>9. ASSUME NEW p \in Pages, WriteEvent(p)
      PROVE  SignalInv'
  <2>1. wire'[p] > 0 /\ \A q \in Pages : q # p => wire'[q] = wire[q] /\ writing'[q] = writing[q]
    BY <1>9 DEF WriteEvent
  <2>2. UNCHANGED <<change, stream, signal, due, asked>>
    BY <1>9 DEF WriteEvent, loadVars
  <2>3. Committed' = Committed
    BY <2>2 DEF Committed
  <2>4. SUFFICES ASSUME NEW q \in Pages, (stream[q] = "subscribed" /\ Quiet(q))'
                 PROVE  (due[q] \subseteq asked[q])'
    BY <2>2, <2>3
  <2>5. q # p
    BY <2>1, <2>4
  <2>6. stream[q] = "subscribed" /\ Quiet(q)
    BY <2>1, <2>2, <2>3, <2>4, <2>5
  <2>7. QED
    BY <2>2, <2>3, <2>6
<1>10. ASSUME NEW p \in Pages, ReceiveEvent(p)
      PROVE  SignalInv'
  <2>1. PICK k \in Loads : Ask(p, k)
    BY <1>10 DEF ReceiveEvent
  <2>2. /\ UNCHANGED <<change, stream, signal, writing, due>>
        /\ \A q \in Pages : q # p => wire'[q] = wire[q]
    BY <1>10 DEF ReceiveEvent
  <2>3. asked'[p] = Committed /\ \A q \in Pages : q # p => asked'[q] = asked[q]
    BY <2>1, AskFacts
  <2>4. QED
    BY <2>2, <2>3 DEF Committed
<1>11. ASSUME NEW p \in Pages, Break(p)
      PROVE  SignalInv'
  BY <1>11, CommittedGrows DEF Break, SetStream, Drop, hubVars, loadVars, Committed
<1>12. ASSUME NEW p \in Pages, Reconnect(p)
      PROVE  SignalInv'
  BY <1>12, CommittedGrows DEF Reconnect, SetStream, hubVars, loadVars, Committed
<1>13. ASSUME NEW p \in Pages, Refresh(p)
      PROVE  SignalInv'
  <2>1. PICK k \in Loads : Ask(p, k)
    BY <1>13 DEF Refresh
  <2>2. UNCHANGED <<change, hubVars>>
    BY <1>13 DEF Refresh
  <2>3. asked'[p] = Committed /\ \A q \in Pages : q # p => asked'[q] = asked[q]
    BY <2>1, AskFacts
  <2>4. QED
    BY <2>2, <2>3 DEF hubVars, Committed
<1>14. ASSUME NEW p \in Pages, NEW k \in Loads, ReadList(p, k)
      PROVE  SignalInv'
  BY <1>14, CommittedGrows DEF ReadList, hubVars, loadVars, Committed
<1>15. ASSUME NEW p \in Pages, NEW k \in Loads, ShowList(p, k)
      PROVE  SignalInv'
  BY <1>15, CommittedGrows DEF ShowList, EndLoad, hubVars, loadVars, Committed
<1>16. ASSUME NEW p \in Pages, NEW k \in Loads, FailLoad(p, k)
      PROVE  SignalInv'
  BY <1>16, CommittedGrows DEF FailLoad, EndLoad, hubVars, loadVars, Committed
<1>17. ASSUME UNCHANGED vars
      PROVE  SignalInv'
  BY <1>17, CommittedGrows DEF vars, hubVars, loadVars, Committed
<1>18. QED
  BY <1>1, <1>2, <1>3, <1>4, <1>5, <1>6, <1>7, <1>8, <1>9, <1>10, <1>11, <1>12, <1>13, <1>14, <1>15, <1>16, <1>17
     DEF Next, Handle, StreamStep, LoadStep

(* The end of a list request, with what has become of the screen. *)
LEMMA EndLoadInv ==
  ASSUME TypeOK, LoadInv, NEW p \in Pages, NEW k \in Loads, NEW over \in BOOLEAN,
         EndLoad(p, k, over), \A q \in Pages : q # p => shown'[q] = shown[q],
         k = newest[p] => over \/ asked[p] \subseteq shown'[p],
         k # newest[p] /\ ~over /\ load[p][newest[p]] = "idle" => asked[p] \subseteq shown'[p]
  PROVE  LoadInv'
<1>1. /\ change' = change /\ newest' = newest /\ asked' = asked
      /\ load'[p][k] = "idle" /\ overtaken'[p] = over
      /\ \A l \in Loads : l # k => load'[p][l] = load[p][l] /\ list'[p][l] = list[p][l]
      /\ \A q \in Pages : q # p => /\ load'[q] = load[q] /\ list'[q] = list[q]
                                  /\ overtaken'[q] = overtaken[q]
  BY EndLoadFacts
<1>2. Committed' = Committed
  BY <1>1 DEF Committed
<1>3. \A q \in Pages : newest[q] \in Loads
  BY DEF TypeOK
<1>4. SUFFICES ASSUME NEW q \in Pages
               PROVE  (/\ asked[q] \subseteq Committed
                       /\ load[q][newest[q]] = "read" => asked[q] \subseteq list[q][newest[q]]
                       /\ load[q][newest[q]] = "idle" /\ ~overtaken[q] => asked[q] \subseteq shown[q])'
  BY DEF LoadInv
<1>5. CASE q # p
  BY <1>1, <1>2, <1>5 DEF LoadInv
<1>6. CASE q = p /\ k = newest[p]
  BY <1>1, <1>2, <1>6 DEF LoadInv
<1>7. CASE q = p /\ k # newest[p]
  BY <1>1, <1>2, <1>3, <1>7 DEF LoadInv
<1>8. QED
  BY <1>5, <1>6, <1>7

(* The newest list request brings what it was asked for. *)
LEMMA LoadStepInv ==
  ASSUME TypeOK, LoadInv, [Next]_vars
  PROVE  LoadInv'
<1> USE DEF TypeOK, LoadInv
<1>1. ASSUME NEW c \in Changes, Commit(c)
      PROVE  LoadInv'
  BY <1>1, CommittedGrows DEF Commit, SetChange, hubVars, loadVars, Committed
<1>2. ASSUME NEW c \in Changes, Publish(c)
      PROVE  LoadInv'
  BY <1>2, CommittedGrows DEF Publish, SetChange, Notify, hubVars, loadVars, Committed
<1>3. ASSUME NEW c \in Changes, ReplyError(c)
       PROVE  LoadInv'
  BY <1>3, CommittedGrows DEF ReplyError, SetChange, hubVars, loadVars, Committed
<1>4. ASSUME NEW c \in Changes, Replay(c)
       PROVE  LoadInv'
  BY <1>4, CommittedGrows DEF Replay, SetChange, hubVars, loadVars, Committed
<1>5. ASSUME NEW c \in Changes, Reply(c)
      PROVE  LoadInv'
  <2>1. change' = [change EXCEPT ![c] = "answered"] /\ UNCHANGED hubVars
    BY <1>5 DEF Reply, SetChange
  <2>2. ASSUME MadeBy[c] \in Pages, UploadAnswered(MadeBy[c])
        PROVE  LoadInv'
    <3>1. PICK k \in Loads : Ask(MadeBy[c], k)
      BY <2>2 DEF UploadAnswered
    <3>2. Committed' = Committed
      BY <1>5 DEF Reply, SetChange, Committed
    <3>3. UNCHANGED shown
      BY <2>2 DEF UploadAnswered
    <3>4. /\ asked'[MadeBy[c]] = Committed
          /\ load'[MadeBy[c]][newest'[MadeBy[c]]] = "asked"
          /\ UNCHANGED <<list, overtaken>>
          /\ \A q \in Pages : q # MadeBy[c] => /\ asked'[q] = asked[q] /\ newest'[q] = newest[q]
                                             /\ load'[q] = load[q]
      BY <2>2, <3>1, AskFacts
    <3>5. QED
      BY <3>2, <3>3, <3>4
  <2>3. ASSUME MadeBy[c] \in Pages, EditAnswered(MadeBy[c], c)
        PROVE  LoadInv'
    BY <2>1, <2>3, CommittedGrows DEF EditAnswered, hubVars, loadVars, Committed
  <2>4. ASSUME NotAnswered
        PROVE  LoadInv'
    BY <2>1, <2>4, CommittedGrows DEF NotAnswered, hubVars, loadVars, Committed
  <2>5. QED
    BY <1>5, <2>2, <2>3, <2>4 DEF Reply
<1>6. ASSUME NEW p \in Pages, Connect(p)
      PROVE  LoadInv'
  BY <1>6, CommittedGrows DEF Connect, SetStream, hubVars, loadVars, Committed
<1>7. ASSUME NEW p \in Pages, Subscribe(p)
      PROVE  LoadInv'
  BY <1>7, CommittedGrows DEF Subscribe, SetStream, hubVars, loadVars, Committed
<1>8. ASSUME NEW p \in Pages, TakeSignal(p)
      PROVE  LoadInv'
  BY <1>8, CommittedGrows DEF TakeSignal, hubVars, loadVars, Committed
<1>9. ASSUME NEW p \in Pages, WriteEvent(p)
      PROVE  LoadInv'
  BY <1>9, CommittedGrows DEF WriteEvent, hubVars, loadVars, Committed
<1>10. ASSUME NEW p \in Pages, ReceiveEvent(p)
      PROVE  LoadInv'
  BY <1>10, CommittedGrows DEF ReceiveEvent, Ask, hubVars, loadVars, Committed
<1>11. ASSUME NEW p \in Pages, Break(p)
      PROVE  LoadInv'
  BY <1>11, CommittedGrows DEF Break, SetStream, Drop, hubVars, loadVars, Committed
<1>12. ASSUME NEW p \in Pages, Reconnect(p)
      PROVE  LoadInv'
  BY <1>12, CommittedGrows DEF Reconnect, SetStream, hubVars, loadVars, Committed
<1>13. ASSUME NEW p \in Pages, Refresh(p)
      PROVE  LoadInv'
  BY <1>13, CommittedGrows DEF Refresh, Ask, hubVars, loadVars, Committed
<1>14. ASSUME NEW p \in Pages, NEW k \in Loads, ReadList(p, k)
      PROVE  LoadInv'
  BY <1>14, CommittedGrows DEF ReadList, hubVars, loadVars, Committed
<1>15. ASSUME NEW p \in Pages, NEW k \in Loads, ShowList(p, k)
      PROVE  LoadInv'
  <2>1. PICK over \in BOOLEAN :
          EndLoad(p, k, over) /\ (k # newest[p] /\ load[p][newest[p]] = "idle" => over)
    BY <1>15, ShowListFacts
  <2>2. /\ load[p][k] = "read" /\ shown'[p] = list[p][k]
        /\ \A q \in Pages : q # p => shown'[q] = shown[q]
    BY <1>15 DEF ShowList
  <2>3. k = newest[p] => asked[p] \subseteq shown'[p]
    BY <2>2
  <2>4. QED
    <3> HIDE DEF TypeOK, LoadInv
    <3> QED
      BY <2>1, <2>2, <2>3, EndLoadInv
<1>16. ASSUME NEW p \in Pages, NEW k \in Loads, FailLoad(p, k)
      PROVE  LoadInv'
  <2>1. PICK over \in BOOLEAN :
          EndLoad(p, k, over) /\ over = (overtaken[p] \/ k = newest[p])
    BY <1>16 DEF FailLoad
  <2>2. shown' = shown
    BY <1>16 DEF FailLoad
  <2>3. k # newest[p] /\ ~over /\ load[p][newest[p]] = "idle" => asked[p] \subseteq shown'[p]
    BY <2>1, <2>2
  <2>4. QED
    <3> HIDE DEF TypeOK, LoadInv
    <3> QED
      BY <2>1, <2>2, <2>3, EndLoadInv
<1>17. ASSUME UNCHANGED vars
      PROVE  LoadInv'
  BY <1>17, CommittedGrows DEF vars, hubVars, loadVars, Committed
<1>18. QED
  BY <1>1, <1>2, <1>3, <1>4, <1>5, <1>6, <1>7, <1>8, <1>9, <1>10, <1>11, <1>12, <1>13, <1>14, <1>15, <1>16, <1>17
     DEF Next, Handle, StreamStep, LoadStep

(***************************************************************************)
(* The inductive invariant holds in every reachable state: signals, events *)
(* and list requests together carry to a subscribed page whatever had been *)
(* committed when a change was last published to it.                       *)
(***************************************************************************)
THEOREM Invariance == Spec => []IInv
<1>1. IInv /\ [Next]_vars => IInv'
  BY TypeStep, SignalStep, LoadStepInv DEF IInv
<1>2. QED
  BY InitInv, <1>1, PTL DEF Spec

(* Type correctness, and nothing pending on a stream that is not open. *)
THEOREM TypeCorrect == Spec => []TypeOK
<1>1. IInv => TypeOK
  BY DEF IInv
<1>2. QED
  BY Invariance, <1>1, PTL

(***************************************************************************)
(* A subscribed page at rest shows every change published to it and what   *)
(* was committed before, unless its newest list request failed or was      *)
(* overtaken.                                                              *)
(***************************************************************************)
THEOREM PageCaughtUp == Spec => []CaughtUp
<1>1. IInv => CaughtUp
  BY DEF IInv, TypeOK, SignalInv, LoadInv, CaughtUp, AtRest
<1>2. QED
  BY Invariance, <1>1, PTL

(***************************************************************************)
(* A change published to a subscribed page, and whatever had been          *)
(* committed before it, is never forgotten on the way: until the page has  *)
(* asked for a list that holds it, the channel is full, an event is being  *)
(* written or one has not been received (publish and the loop of events).  *)
(* Nothing is claimed of a change whose handler returned with an error.    *)
(***************************************************************************)
THEOREM StillOnItsWay == Spec => []SignalInv
<1>1. IInv => SignalInv
  BY DEF IInv
<1>2. QED
  BY Invariance, <1>1, PTL
=============================================================================
