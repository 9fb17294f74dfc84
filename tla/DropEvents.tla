----------------------------- MODULE DropEvents -----------------------------
(***************************************************************************)
(* services/drop: how an open page learns that the items have changed.     *)
(*                                                                         *)
(* A handler commits a change, then publishes it to the hub, then answers; *)
(* but when the store reports an error it answers with that error at once, *)
(* although the change may have been committed.  The hub puts a signal in  *)
(* the channel, of capacity one, of each stream that has subscribed; the   *)
(* stream's goroutine takes it and writes an event; the page that receives *)
(* the event asks for the list again.  List requests of a page overlap,    *)
(* and may be answered in any order.                                       *)
(*                                                                         *)
(* A list is the set of the changes it shows.  Expiry changes the list of  *)
(* its own accord; nobody publishes it.                                    *)
(***************************************************************************)
EXTENDS Naturals, FiniteSets

CONSTANTS
  Pages,
  Changes,
  KindOf,    \* [Changes -> {"upload", "edit", "expiry"}]
  MadeBy,    \* [Changes -> Pages \cup {Elsewhere}]
  Elsewhere, \* another client: the bridge, say
  Loads,     \* bound of the model: list requests of one page in flight
  MaxChanges, \* bound of the model: changes that happen in a behaviour
  Flushes    \* can the ResponseWriter that reaches "events" flush?

ASSUME EventsAssumption ==
  /\ KindOf \in [Changes -> {"upload", "edit", "expiry"}]
  /\ MadeBy \in [Changes -> Pages \cup {Elsewhere}] /\ Elsewhere \notin Pages
  /\ Loads # {} /\ MaxChanges \in Nat /\ Flushes \subseteq BOOLEAN

VARIABLES
  change,    \* idle, committed, published, answered; silent: nobody was told
  stream,    \* of each page: connecting, ready, subscribed, refused, broken
  signal,    \* the channel of capacity one holds a value
  writing,   \* the stream's goroutine is writing an event
  wire,      \* events written and not yet received
  load,      \* each list request: idle, asked, read
  list,      \* the list a request has read
  newest,    \* the request that the page asked last
  shown,     \* the list on the screen
  asked,     \* history: the changes there were when the page last asked
  due,       \* history: the changes there were at the last signal for the page
  overtaken  \* history: the newest request failed, or an older answer came after its

hubVars == <<stream, signal, writing, wire, due>>
loadVars == <<load, list, newest, asked, overtaken>>
vars == <<change, hubVars, loadVars, shown>>

-----------------------------------------------------------------------------
(***************************************************************************)
(* Bugs this code could have; each stands for a definition further down.   *)
(***************************************************************************)

(* Notify that replaces what the channels hold instead of keeping it. *)
NotifyUnread == signal' = [p \in Pages |-> stream[p] = "subscribed" /\ ~signal[p]]

(* ReceiveEvent that does not ask while an earlier request is in flight. *)
ReceiveUnlessLoading(p) ==
  /\ wire[p] > 0
  /\ wire' = [wire EXCEPT ![p] = @ - 1]
  /\ IF \A k \in Loads : load[p][k] = "idle"
       THEN \E k \in Loads : /\ load' = [load EXCEPT ![p][k] = "asked"]
                             /\ newest' = [newest EXCEPT ![p] = k]
                             /\ asked' = [asked EXCEPT ![p] = {c \in Changes : change[c] # "idle"}]
                             /\ UNCHANGED <<list, overtaken>>
       ELSE UNCHANGED loadVars
  /\ UNCHANGED <<change, stream, signal, writing, due, shown>>

(* Drop when the events on the wire outlive their stream. *)
DropSignal(p) ==
  /\ signal' = [signal EXCEPT ![p] = FALSE]
  /\ writing' = [writing EXCEPT ![p] = FALSE]
  /\ UNCHANGED wire

-----------------------------------------------------------------------------

Committed == {c \in Changes : change[c] # "idle"}

(* A page opens: it asks for the list and connects to the stream. *)
Init ==
  /\ change = [c \in Changes |-> "idle"]
  /\ stream = [p \in Pages |-> "connecting"]
  /\ signal = [p \in Pages |-> FALSE]
  /\ writing = [p \in Pages |-> FALSE]
  /\ wire = [p \in Pages |-> 0]
  /\ \E k \in Loads :
       /\ load = [p \in Pages |-> [l \in Loads |-> IF l = k THEN "asked" ELSE "idle"]]
       /\ newest = [p \in Pages |-> k]
  /\ list = [p \in Pages |-> [l \in Loads |-> {}]]
  /\ shown = [p \in Pages |-> {}]
  /\ asked = [p \in Pages |-> {}]
  /\ due = [p \in Pages |-> {}]
  /\ overtaken = [p \in Pages |-> FALSE]

-----------------------------------------------------------------------------
(***************************************************************************)
(* The page's list requests.                                               *)
(***************************************************************************)

Ask(p, k) ==
  /\ load[p][k] = "idle"
  /\ load' = [load EXCEPT ![p][k] = "asked"]
  /\ newest' = [newest EXCEPT ![p] = k]
  /\ asked' = [asked EXCEPT ![p] = Committed]
  /\ UNCHANGED <<list, overtaken>>

(* The user presses the button, when no request is in flight. *)
Refresh(p) ==
  /\ \A k \in Loads : load[p][k] = "idle"
  /\ \E k \in Loads : Ask(p, k)
  /\ UNCHANGED <<change, hubVars, shown>>

ReadList(p, k) ==
  /\ load[p][k] = "asked"
  /\ load' = [load EXCEPT ![p][k] = "read"]
  /\ list' = [list EXCEPT ![p][k] = Committed]
  /\ UNCHANGED <<change, hubVars, newest, asked, overtaken, shown>>

EndLoad(p, k, over) ==
  /\ load' = [load EXCEPT ![p][k] = "idle"]
  /\ list' = [list EXCEPT ![p][k] = {}]
  /\ overtaken' = [overtaken EXCEPT ![p] = over]
  /\ UNCHANGED <<change, hubVars, newest, asked>>

(* setItems, whichever request the answer belongs to. *)
ShowList(p, k) ==
  /\ load[p][k] = "read"
  /\ shown' = [shown EXCEPT ![p] = list[p][k]]
  /\ EndLoad(p, k, IF k = newest[p] THEN FALSE
                   ELSE overtaken[p] \/ load[p][newest[p]] = "idle")

(* A toast; the list on the screen stays. *)
FailLoad(p, k) ==
  /\ load[p][k] # "idle"
  /\ EndLoad(p, k, overtaken[p] \/ k = newest[p])
  /\ UNCHANGED shown

LoadStep(p) == \E k \in Loads : ReadList(p, k) \/ ShowList(p, k)

-----------------------------------------------------------------------------
(***************************************************************************)
(* The handlers that change items.                                         *)
(***************************************************************************)

SetChange(c, where) == change' = [change EXCEPT ![c] = where]

Commit(c) ==
  /\ change[c] = "idle" /\ Cardinality(Committed) < MaxChanges
  /\ SetChange(c, IF KindOf[c] = "expiry" THEN "silent" ELSE "committed")
  /\ UNCHANGED <<hubVars, loadVars, shown>>

(* select with a default: a channel that holds a value keeps it. *)
Notify == signal' = [p \in Pages |-> signal[p] \/ stream[p] = "subscribed"]

Publish(c) ==
  /\ change[c] = "committed"
  /\ SetChange(c, "published")
  /\ Notify
  /\ due' = [p \in Pages |-> IF stream[p] = "subscribed" THEN Committed ELSE due[p]]
  /\ UNCHANGED <<stream, writing, wire, loadVars, shown>>

(***************************************************************************)
(* The store reports an error although the change is there: its commit was *)
(* lost, or the Get after the UPDATE of an expiry failed.  The handler     *)
(* answers with the error and does not publish; the page shows a message   *)
(* and leaves its list alone.                                              *)
(***************************************************************************)
ReplyError(c) ==
  /\ change[c] = "committed"
  /\ SetChange(c, "silent")
  /\ UNCHANGED <<hubVars, loadVars, shown>>

(***************************************************************************)
(* Another client sends the upload again under its Idempotency-Key: the    *)
(* handler is given the item that is there, and goes on as after a commit. *)
(* (A page makes a new key for each attempt, and so a new upload.)         *)
(***************************************************************************)
Replay(c) ==
  /\ change[c] = "silent" /\ KindOf[c] = "upload" /\ MadeBy[c] = Elsewhere
  /\ SetChange(c, "committed")
  /\ UNCHANGED <<hubVars, loadVars, shown>>

Handle(c) == Publish(c) \/ ReplyError(c)

(* After its upload a page asks for the list. *)
UploadAnswered(p) == (\E k \in Loads : Ask(p, k)) /\ UNCHANGED shown

(* After changing or removing an item it edits the list it shows. *)
EditAnswered(p, c) ==
  /\ shown' = [shown EXCEPT ![p] = @ \cup {c}]
  /\ UNCHANGED loadVars

(* Nobody waits for the answer, or it is lost. *)
NotAnswered == UNCHANGED <<loadVars, shown>>

Reply(c) ==
  /\ change[c] = "published"
  /\ SetChange(c, "answered")
  /\ \/ MadeBy[c] \in Pages /\ KindOf[c] = "upload" /\ UploadAnswered(MadeBy[c])
     \/ MadeBy[c] \in Pages /\ KindOf[c] = "edit" /\ EditAnswered(MadeBy[c], c)
     \/ NotAnswered
  /\ UNCHANGED hubVars

-----------------------------------------------------------------------------
(***************************************************************************)
(* The event stream.                                                       *)
(***************************************************************************)

SetStream(p, where) == stream' = [stream EXCEPT ![p] = where]

(* "ready" goes out, or 501: an EventSource does not ask again after that. *)
Connect(p) ==
  /\ stream[p] = "connecting"
  /\ \E flusher \in Flushes : SetStream(p, IF flusher THEN "ready" ELSE "refused")
  /\ UNCHANGED <<change, signal, writing, wire, due, loadVars, shown>>

Subscribe(p) ==
  /\ stream[p] = "ready"
  /\ SetStream(p, "subscribed")
  /\ due' = [due EXCEPT ![p] = {}]
  /\ UNCHANGED <<change, signal, writing, wire, loadVars, shown>>

TakeSignal(p) ==
  /\ signal[p] /\ ~writing[p]
  /\ signal' = [signal EXCEPT ![p] = FALSE]
  /\ writing' = [writing EXCEPT ![p] = TRUE]
  /\ UNCHANGED <<change, stream, wire, due, loadVars, shown>>

WriteEvent(p) ==
  /\ writing[p]
  /\ writing' = [writing EXCEPT ![p] = FALSE]
  /\ wire' = [wire EXCEPT ![p] = @ + 1]
  /\ UNCHANGED <<change, stream, signal, due, loadVars, shown>>

ReceiveEvent(p) ==
  /\ wire[p] > 0
  /\ wire' = [wire EXCEPT ![p] = @ - 1]
  /\ \E k \in Loads : Ask(p, k)
  /\ UNCHANGED <<change, stream, signal, writing, due, shown>>

(* What the stream still held is gone with it. *)
Drop(p) ==
  /\ signal' = [signal EXCEPT ![p] = FALSE]
  /\ writing' = [writing EXCEPT ![p] = FALSE]
  /\ wire' = [wire EXCEPT ![p] = 0]

Break(p) ==
  /\ stream[p] \in {"ready", "subscribed"}
  /\ SetStream(p, "broken")
  /\ Drop(p)
  /\ UNCHANGED <<change, due, loadVars, shown>>

(* The EventSource tries again; the page does not ask for the list. *)
Reconnect(p) ==
  /\ stream[p] = "broken"
  /\ SetStream(p, "connecting")
  /\ UNCHANGED <<change, signal, writing, wire, due, loadVars, shown>>

StreamStep(p) == Connect(p) \/ Subscribe(p) \/ TakeSignal(p) \/ WriteEvent(p) \/ ReceiveEvent(p)

-----------------------------------------------------------------------------

Next ==
  \/ \E c \in Changes : Commit(c) \/ Handle(c) \/ Replay(c) \/ Reply(c)
  \/ \E p \in Pages :
       \/ StreamStep(p) \/ Break(p) \/ Reconnect(p)
       \/ Refresh(p) \/ LoadStep(p) \/ \E k \in Loads : FailLoad(p, k)

Spec == Init /\ [][Next]_vars

(* Handlers, streams and the page's own code run; nobody has to press.     *)
FairSpec ==
  /\ Spec
  /\ \A c \in Changes : WF_vars(Handle(c))
  /\ \A p \in Pages : WF_vars(StreamStep(p)) /\ WF_vars(LoadStep(p))

-----------------------------------------------------------------------------

TypeOK ==
  /\ change \in [Changes -> {"idle", "committed", "published", "answered", "silent"}]
  /\ stream \in [Pages -> {"connecting", "ready", "subscribed", "refused", "broken"}]
  /\ signal \in [Pages -> BOOLEAN] /\ writing \in [Pages -> BOOLEAN]
  /\ wire \in [Pages -> Nat]
  /\ load \in [Pages -> [Loads -> {"idle", "asked", "read"}]]
  /\ list \in [Pages -> [Loads -> SUBSET Changes]]
  /\ newest \in [Pages -> Loads]
  /\ shown \in [Pages -> SUBSET Changes]
  /\ asked \in [Pages -> SUBSET Changes] /\ due \in [Pages -> SUBSET Changes]
  /\ overtaken \in [Pages -> BOOLEAN]
  /\ \A p \in Pages : signal[p] \/ writing[p] \/ wire[p] > 0 => stream[p] = "subscribed"

Quiet(p) == ~signal[p] /\ ~writing[p] /\ wire[p] = 0
AtRest(p) == \A k \in Loads : load[p][k] = "idle"

(***************************************************************************)
(* However changes, signals, writes and list requests overlap, a page that *)
(* is subscribed and at rest shows every change that was published while   *)
(* it was subscribed, signals that fell together included, and what had    *)
(* been committed before one of those without being published -- unless    *)
(* its newest list request failed or an older one was answered after it.   *)
(***************************************************************************)
CaughtUp ==
  \A p \in Pages :
    stream[p] = "subscribed" /\ Quiet(p) /\ AtRest(p) /\ ~overtaken[p] => due[p] \subseteq shown[p]

(* A change that is published while a page is subscribed makes the page    *)
(* ask for the list again, and so does what was committed before it,       *)
(* unless the stream breaks first.                                         *)
Heard ==
  \A p \in Pages, c \in Changes :
    stream[p] = "subscribed" /\ c \in due[p]
      ~> c \in asked[p] \/ stream[p] # "subscribed"

(* A page whose connection has been answered, whatever the answer was,     *)
(* asks again after each change that it does not show, unless the change's *)
(* handler failed.                                                         *)
Refreshed ==
  \A p \in Pages, c \in Changes :
    stream[p] \in {"subscribed", "refused"} /\ change[c] = "committed"
      ~> c \in asked[p] \cup shown[p] \/ stream[p] = "broken" \/ change[c] = "silent"

-----------------------------------------------------------------------------
(***************************************************************************)
(* The inductive invariant (proved in DropEventsProofs).                   *)
(***************************************************************************)

(* What a subscribed page has been told of and has not asked about is      *)
(* still on its way to it.                                                 *)
SignalInv ==
  \A p \in Pages :
    /\ due[p] \subseteq Committed
    /\ stream[p] = "subscribed" /\ Quiet(p) => due[p] \subseteq asked[p]

(* The newest list request has read, or will read, what it was asked for. *)
LoadInv ==
  \A p \in Pages :
    /\ asked[p] \subseteq Committed
    /\ load[p][newest[p]] = "read" => asked[p] \subseteq list[p][newest[p]]
    /\ load[p][newest[p]] = "idle" /\ ~overtaken[p] => asked[p] \subseteq shown[p]

IInv == TypeOK /\ SignalInv /\ LoadInv
=============================================================================
