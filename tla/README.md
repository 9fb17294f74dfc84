# A TLA+ model of HomeHub

HomeHub is a small platform for one household: an identity service (IAM), a
drop box for texts and files (Drop), a Telegram worker that feeds the drop
box, a gateway to AI providers, a control plane, a portal, and Traefik in
front of them. This directory holds TLA+ modules for the parts of it in which
concurrency, failure or time decide what is correct, the TLC configurations
that check them, and proofs that TLAPS checks.

Paths below are relative to the repository. `PROJECT.json` maps every
definition to the lines it models and lists all runs, hazards and theorems.

## 1. Inventory

| Component | State | Operations | Works with | What is hard, and what makes it correct |
|---|---|---|---|---|
| **Drop item store** `services/drop/internal/store` | tables `items`, `attachments`, `idempotency_keys`; directories `blobs/`, `tmp/` | Create, Delete, UpdateExpiry, CleanupExpired, List, Get, OpenAttachment, Stats | PostgreSQL, one volume, the HTTP handlers, the cleanup goroutine | no transaction spans rows and files; snapshots older than locks; lost commits; crashes. Quota respected, one item per key, live items readable, nothing left behind, expired items gone |
| **Drop HTTP handlers** `internal/httpapi/api.go` | spooled uploads | createItem, deleteItem, updateExpiry, listItems, getAttachment, authenticate | store, verifier, event hub | a client that goes away while the store works |
| **Drop event hub** `internal/httpapi/events.go` | set of subscribed channels of capacity one | subscribe, publish, the stream loop | handlers, frontend | ready is sent before the subscription; signals coalesce; a handler may fail after its commit and publish nothing; a writer that cannot flush. What is published to a stream is followed by a new list |
| **Drop cleanup loop** `cmd/homehub-drop/main.go` | none | CleanupExpired every minute with a deadline; the key set fetched at start | store, IAM | a sweep that stops at a bad item; a key set that is never fetched again |
| **Drop frontend** `services/drop/frontend` | shown items, pending upload | load, send, delete, prolong, event stream | Drop's API | overlapping requests answered out of order |
| **Telegram bridge** `services/telegram-bridge/internal/bridge` | offset and current batch, in memory only | Run, HandleUpdate, handleCommand | Telegram, Drop, IAM | restarts, retries, abandoned uploads. At least once, at most once, in order |
| **Bridge's IAM client** `internal/iam` | cached token and its end | Token | IAM | a cache measured by another clock than the token's |
| **Bridge's Drop and Telegram clients** | none | Create; GetUpdates, GetFile, Download, SendMessage | Drop, Telegram | an upload given up and served later |
| **IAM owner setup** `apps/iam/internal/humanauth/service.go` | `owner_bootstrap_tokens`, `pending_owner_setups`, `owner` | ensureBootstrap, BeginSetup, ConfirmSetup | PostgreSQL through a pool of four connections | racing confirmations, a second connection under a lock, lost commits. One owner; a token spent exactly with it |
| **IAM login and sessions** | `sessions`, `audit_events` | Login, Authenticate, ValidateCSRF, Logout, RevokeSessionByID, RevokeOtherSessions | browsers | the rate limit is checked and recorded apart; two statements let a request in. No late request served; revoked sessions stay out |
| **IAM API keys and exchange** | `api_keys` | CreateAPIKey, RevokeAPIKey, IssueAPIKeyJWT, tokenExchangeCompat, edgeAuthorize | signer, Traefik, the bridge | revocation against tokens already out |
| **IAM shares** | `shares` | CreateShare, RedeemShare, RevokeShare | sessions | the count of uses is read and written apart, its session comes after it. A link opens; its uses are bounded |
| **IAM passkeys** `passkey.go` | `webauthn_credentials`, `webauthn_ceremonies` | begin and finish of registration and login, delete | browsers | credentials read outside the transaction that uses them; row locks. A ceremony makes one session; no login with a deleted passkey |
| **IAM signer** `internal/token` | signing key | Issue, JWKSet | all of the above | which permissions it refuses; rotation |
| **IAM migrations** | `iam_schema_migrations` | migrateEmbedded | PostgreSQL | one transaction under one lock |
| **identity verifiers** `packages/go-sdk`, `packages/rust-sdk` | key set of the process | Verify, Allows | every service | clocks, unknown keys |
| **AI gateway** `services/ai-gateway` | none | chatCompletions, models | providers | a stream that breaks after its status |
| **Control** `apps/control` | catalog, loaded once | Load, Probe | every service's health URL | concurrent probes |
| **Portal, Traefik, compose, homehubctl** | configuration | | | outside the model, except ForwardAuth |

How they interact: a browser or a device reaches Drop through Traefik, which
asks IAM's edge endpoint for a token per request and forwards it; the bridge
exchanges its API key for a token itself and caches it; Drop verifies tokens
with keys it fetched when it started and never asks IAM. The bridge polls
Telegram, posts each message to Drop under an idempotency key derived from the
message, and confirms it to Telegram with its next poll.

## 2. Modules

| Module | Models | State | Actions |
|---|---|---|---|
| `DropSpec` | what Drop promises | a shelf of items with expiries, the key table, the clock | `Post`, `Remove`, `Extend`, `Tick`, each at one instant |
| `OwnerSpec` | what owner setup promises | the setup an owner was made from, the tokens spent | `Choose`, once and for all |
| `AccessSpec` | what IAM promises of sessions | the standing of each session, how far each request has got | `Grant`, `Expire`; `Ask`, `Allow`, `Act`, `End` of a request, each at one instant |
| `DropStore` | store, handlers, cleanup loop | rows, keys, where each file is, the program counter and snapshot of each creation, each deletion, the sweep's list, each PATCH | one per statement at which another handler can get in between |
| `TelegramBridge` | worker, with Telegram and Drop as it sees them | Telegram's confirmed offset, the worker's offset and batch, Drop's item per message, abandoned POSTs | one per external call |
| `BridgedDrop` | the worker at work against Drop: `TelegramBridge` and `DropSpec` composed | the worker's state and Drop's shelf, keys and clock | `Create` and `ServeOrphan` join a POST to what Drop does with it; the rest are the steps of one side |
| `IAMSetup` | owner setup | the three tables, each request's progress and snapshot, advisory lock, connections held | one per statement |
| `AccessTokens` | keys, exchange, edge, signer, verifier, token cache | key states, signing key and trusted keys, each caller's stage and token, ages | one per step of a request |
| `IAMSessions` | login, session table, requests with a session | progress of each login and request, recorded denials, each session's state, the cookies browsers hold | one per statement |
| `IAMPasskeys` | passkey ceremonies, credentials and login; extends `IAMSessions` | ceremonies, credential rows and their locks, progress of each login | one per statement |
| `IAMShares` | share links; extends `IAMSessions` | each link and its use count, progress of each redemption | one per statement |
| `IAMAccess` | the three composed: one session table, one set of requests | | their union |
| `DropEvents` | event hub, streams, and the lists a page asks for and shows | where each change is, each stream with its channel, the events under way, each list request, the list shown | one per step of a handler, a stream or a page |
| `*MC` | instances for TLC | | |
| `*Proofs` | theorems and proofs about the module named | | |

`DropStore` implements `DropSpec` under the refinement mapping `shelf = [i \in
rows |-> expires[i]]`, `late = revived`. `TelegramBridge` has an account of
its own of what Drop answers: of each message, whether there is no item, a
live one or an expired one. `BridgedDrop` is where that account is checked: it
has Drop's table instead, and implements `TelegramBridge` with `View(m)`, the
answer that table gives, for the item of `m`. `IAMSetup` implements
`OwnerSpec` (`chosen = owners`, `spent` the tokens consumed) and `IAMAccess`
implements `AccessSpec` (`StandingOf`, `PhaseOf`).

### Correspondence with the code

*DropStore.* `Upload` is stageAttachment; `BeginCreate` sends the
advisory-lock statement, whose snapshot PostgreSQL takes before it waits;
`LockCreate` is the lock's arrival; `ReplayCreate`, `RejectCreate`,
`AdmitCreate` are the three outcomes of the idempotency and quota queries on
that snapshot; `MoveBlob` is one rename; `CommitCreate`, `AbortCreate`
(serialization or unique violation), `CreateFails`, `CommitCreateLost` (the
row is stored, the client is told that it was not) and `CleanupCreate` end it.
`StartDelete` takes the row lock, `StageBlob` is one rename to `tmp/`, and
`CommitDelete`, `RemoveStaged`, `StageFails`, `CommitDeleteLost`,
`RestoreStaged` end it. `Sweep` is the SELECT of CleanupExpired, `SweepDelete`
and `SweepSkip` its loop. `Crash` loses every handler and keeps rows and
files. `stale` holds the creations that serializable isolation will refuse
because a row they read was written by somebody who committed meanwhile.

*TelegramBridge.* `Poll` is getUpdates, which also confirms what is below its
offset; `Dispatch`, `Fetch`, `Create`, `Reply` follow HandleUpdate;
`CallFails` is any error (the batch is dropped and polled again), `Orphan` one
that leaves a POST behind which `ServeOrphan` may let Drop serve later. What
Drop does meanwhile is `Expire` (any number of items at once, since one
instant can be the end of several), `Revive` (an expired item prolonged by a
PATCH that had been accepted while it was live), `Remove` and `Sweep`; an item
whose expiry passed while its POST was served is born expired. Waiting between
retries is left out: any delay is a behaviour already.

*BridgedDrop.* `Serve` is Create of the store as `DropSpec` has it: `Post`
while the key is free, the answer from the key's item otherwise. `PostOther`,
`Remove`, `Extend` and `Tick` are Drop's other clients, its owner, its sweep
and time; everything else is a step of `TelegramBridge` that leaves Drop
alone. `KeyFor` is injective: the key is made of the bot, the chat and the
message id, and the bridge asks Telegram for `message` and `channel_post`
updates only, so no edit of a message comes with the id of another update.

*IAMSetup.* `OpenTx` takes a connection, `TakeLock` the lock with the snapshot
taken at the request, `LookUp` reads the pending row in that snapshot,
`CheckOwner` needs a free connection, `CommitConfirm`, `CommitLost` and
`Audit` end it, and `GiveUp` is a client that leaves (its context ends the
wait and rolls back). Password hashing and its semaphore are left out. So are
serialization failures and unique violations in ConfirmSetup, which the
advisory lock makes unreachable.

*IAMSessions, IAMPasskeys, IAMShares, IAMAccess.* A login goes through
`CountFailures` (the count of recent denials), `CheckPassword`, and
`RecordDenial` or `StoreSession`; the commit of a session may be reported as
failed (`OpenLost`), and the audit record may be lost because its error is
ignored. A request with a session's cookies goes through `CheckCSRF` and
`Authenticate`, the two statements of requireSessionAndCSRF, and then its
handler, whose answer may fail after it took effect. A session is named by the
request that makes it. A passkey login is `TakeLogin` (DELETE ... RETURNING),
`CheckAssertion` (against credentials read outside any transaction),
`UpdatePasskey` (which takes the row lock) and `CommitLogin`; a deletion waits
for that lock. A redemption is `FindShare`, `CountUse` and
`CreateShareSession`, which never gets further: CreateSession is called with a
nil transaction. Nothing of a request outlives the process, so a crash is the
failure of every request in flight, `FailAttempt`, `FailFinish`,
`FailRequest`. Whether a password, a code or an assertion is right is a
choice; listings, cookie attributes and origins are left out. `Casts` says
which requests happen at all in a behaviour. `IAMSetup` stands apart from
these modules: it ends where login begins.

*DropEvents.* `Commit` and `Publish` are the two moments of a handler that
changes items, `Reply` its answer, upon which the page that asked loads the
list again or edits the one it shows. `ReplyError` is the handler that returns
before it publishes, because the store reported an error, although the change
is committed: a commit whose answer was lost (`CommitCreateLost` and
`CommitDeleteLost` of `DropStore`), or the Get that UpdateExpiry makes after
its UPDATE. Such a change is `silent`, as an expiry is, unless another client
sends the upload again under its Idempotency-Key (`Replay`): then the handler
finds the item and publishes. A replay of what has been published already
makes a page ask once more and is left out. `due` is the history of what a
page has been told of: the changes there were when one was last published to
its stream. `Notify` is the select with a default. `TakeSignal` and
`WriteEvent` are the stream's goroutine, `Break` the end of a stream whichever
side ends it, `Reconnect` the browser's EventSource. A list is the set of
changes it shows; `ReadList` is the moment the server reads it. `Flushes` is
whether the writer that reaches `events` can flush: `{TRUE}` is the handler
without the logging middleware, `{FALSE}` the server as it is built. Expiry
changes the list and nobody publishes it.

*AccessTokens.* Each caller (one request at the edge, or the bridge) goes
through idle, asked, granted, issued, sent. `Authenticate` is the one UPDATE
that looks at the key; from then on only the token counts. Time is kept as
ages, which `Tick` advances up to a cap past which no guard tells them apart,
so the model has no last instant. `lead` is how far IAM's clock is ahead of
the others'. An expired cache entry is forgotten at the next `Ask`, since the
code never uses it again; truncation of claims to whole seconds and the
fallback from a refused key to a session cookie are left out.

## 3. Runs

| Run | Shows | Instance |
|---|---|---|
| `drop_store` | type and holder of the lock, quota, keys, refinement of `DropSpec` | three creations, two of one key, sizes 1, 1, 2 under a quota of 2; one DELETE, one PATCH, the sweep; one fault or crash |
| `drop_files` | files, litter, uploads never stuck, every request answered, expired items leave | an item of two files and one without, which can wait for the sweep together while it takes one at a time; two faults or crashes |
| `telegram_bridge` | at least once, at most once, order, progress | six updates of all five kinds, batches of four, two faults |
| `bridged_drop` | exactly once, end to end; refinement of `TelegramBridge` | two messages, the first with two items to become in turn, an item of another client, a quota of two, one fault |
| `iam_setup` | one owner, tokens, refinement of `OwnerSpec`, every request answered, what alone can stop them all | two setups under two tokens, four confirmations, one of no setup, pool of three, two starts |
| `access_tokens` | revocation takes hold, tokens arrive fresh, the bridge recovers from a rotated key | bridge and one edge request, two signing keys, IAM's clock one unit ahead or behind, two faults |
| `access_tokens_scopes` | **violation**: the token carries every scope of the key | no faults |
| `access_tokens_session` | **violation**: a browser session never gets a token at the edge | no faults |
| `iam_access` | rate limit, late requests, revocation, ceremonies, link uses, deleted passkeys, refinement of `AccessSpec`, every request answered | five casts of at most seven requests (see `IAMAccessMC`), limit 2, two of a kind served at once |
| `iam_shares` | **violation**: a redeemed link opens no session | one link, one redemption |
| `drop_events` | no change unheard, a page at rest is caught up | one page, two list requests in flight, two changes of every kind, handlers that fail after their commit, streams that break or are refused |
| `drop_events_refused` | **violation**: a page never hears of a change | the same, one change, with the writer as it is built |

**Why the bounds are enough.** Drop's hazards need two creations that overlap
and a third that fills the quota, one deletion against the sweep, an expiry,
and one fault at each place; two files are enough for a rename to fail between
them, and two items without a common key for an expired one to wait behind
another that a fault has cost its files. Symmetry is used only in
`drop_store`, between the two requests that differ in name alone, and that run
checks no liveness. Six updates let a batch end before the stream does and put
every kind next to another. Two setups under two tokens and a repeated
confirmation cover the races of ConfirmSetup; its deadlock needs as many
confirmations as connections, so four of them meet a pool of three, one below
the code's. In `bridged_drop` two messages are enough for one to hold the room
or the clock the other needs; the first can be stored twice because it is
given two items, and a fault, a deletion and an expiry can fall in between.
The casts of `iam_access` put together the requests that share a row: the
logins of one name or address, two browsers that revoke each other, the
finishes of one ceremony with the deletion of its passkey, the redemptions of
one link, and a passkey login with a revocation. With `Limit` 2 and `Serving`
2, four logins overshoot the limit as far as it can be; the code's limit is 5,
`Serving` is however many requests the server happens to serve, and the
theorems hold for all. `MaxUses` 1 is the link with most to lose. In
`drop_events` two changes are what it takes for a signal to find the channel
full, and for one that was committed and never published to be carried by the
next; and two list requests for one to overtake the other. Pages do not disturb each
other, so one is enough. The times of `AccessTokens` (token 6, margin 3,
exchange 1, answer 2, way 1, clocks 1) keep the order of the code's 120 s, 30
s, 10 s, 30 s and 15 s; the theorems hold for all times that satisfy
`TimeAssumption`. `MaxClock`, `MaxFaults`, `MaxStarts`, `MaxChanges`, `Loads`,
`Serving`, `Last` and `SendTime` are the bounds of the models, each named so
where it is declared. `CHECK_DEADLOCK FALSE` is set where a finite set of
requests may all have ended, which is every run but `bridged_drop`.
`access_tokens` has no key with a scope that the signer refuses: that no such
scope is ever signed is left to `TypeCorrect`, which is proved for all scopes.

**Fairness.** Weak fairness of each goroutine that can take a step: Go's
scheduler and PostgreSQL do not starve a runnable one, and compose restarts a
worker that died. Requests, faults, expiries, deletions by the user and
restarts are never forced. In `AccessTokens` the bridge keeps asking, as its
loop does while a message fails. In `iam_setup` the properties carry their own
assumptions: `BeginAnswered` that clients do not wait for ever, and
`ConfirmAnswered` that the confirmations under way always leave one connection
free. In `iam_access`, `Serve` is fair as a whole: each request has finitely
many steps, so that some handler goes on is enough for all to be answered. In
`drop_events` a handler goes on after its commit, by publishing or with an
error (`Handle`), and streams and the page's own code are fair; the user,
breaks and failures are not. Faults are finitely many in the liveness runs:
the bridge's loop does stay at a message that Drop refuses for ever, and
nothing in the repository promises otherwise. `Drained` assumes besides that
PATCHes do not for ever revive items that have expired: a message whose item
is expired is refused until that item is swept.

## 4. What the checks show

* The quota holds although each creation sums the live bytes in a snapshot
  older than the lock it waits for: whoever stored an item meanwhile makes the
  snapshot stale, and serializable isolation refuses the later commit. The
  exception is an item that a PATCH revives after its expiry (`QuotaRespected`
  leaves `revived` aside): UpdateExpiry has no quota check. Nor does a
  deletion look at the expiry again: a sweep that had read such an item before
  it was revived deletes it.
* A crash between a deletion's renames and its commit leaves a live row whose
  files are in `tmp/`; a commit whose answer is lost lets the cleanup remove
  files of a stored item. `AttachmentsOpen` and `NoLitter` claim nothing of an
  item that such a fault hit (`hit`), and everything of all others. An item
  without its files can still be deleted, because a missing file is passed
  over; otherwise the sweep would stop at it for ever (`ExpiredLeave`).
* The bridge never loses a message and never reorders; a message gets a second
  item only when one of its items had been deleted, as ADR 0012 allows.
  Against Drop itself, with other clients, a quota and a clock, this makes
  exactly one item (`StoredOnce`).
* Owner setup makes one owner whatever races. Its check for an owner takes a
  second connection while the first is held; enough confirmations at once stop
  each other until a client leaves, which the pool of four postpones. Nothing
  else of theirs can (`StuckOnlyOnPool`): all connections are held by
  confirmations, one with the lock, the others queued for it.
* A revoked or expired key is accepted for less than one token's life.
* Logins that overlap all pass the count of denials, but a name or an address
  never has more than the limit plus what is served at once (`LimitHolds`), as
  far as denials are recorded: a lost audit record does not count.
* Between the CSRF check, the authentication and the handler a session may
  end; a request sent after that is served nothing (`NoLateEffect`). A
  revocation ends, for good, every session that existed when it was sent
  (`RevokedOut`), also one whose login was never answered. A logout claims
  nothing: its handler ignores the error.
* For all the statements it takes, IAM is as good as one that lets a request
  in at one instant of a live session and revokes at one instant what was
  named (`ImplementsAccessSpec`).
* A passkey login checks its assertion against an old read, yet stores no
  session once the passkey is deleted, because its update takes the row and
  its session commits with it; and however often a finish is repeated, a
  ceremony makes one session.
* A link's uses are counted past its maximum by less than what is redeemed at
  once.
* A page that is subscribed and at rest shows all that was published since
  (`CaughtUp`), however signals fall together, and with it what had been
  committed before without being published. Exceptions are in the property
  because they are in the code: what was published before the subscription, a
  newest list request that failed, and an older answer that came after the
  newest. A change whose handler failed after the commit is never published,
  and neither is an expiry: pages show it with their next list, whenever that
  is.
* Disagreements with the documentation: IAM's exchange signs all scopes of a
  key, where ADR 0012 has the bridge's token carry `drop.item.create` only;
  the edge refuses every browser session, where the architecture overview has
  IAM return a token for it; a share link opens no session at all, where ADR
  0007 has it create a guest session (`LinkOpens`); and Drop's event stream is
  refused with 501, because the logging middleware hides the writer's Flush,
  where Drop's README lists SSE refresh (`Refreshed`).

## 5. Proofs

Each `*Proofs` module, but for `BridgedDropProofs`, proves `Spec => []IInv`
for its module (theorem `Invariance`, from "initially", "each step preserves
it" and PTL) and derives the properties, for all values of the constants that
the named assumptions admit. No proof is left out and no fact is assumed.

*DropStoreProofs*: `TypeCorrect`, `QuotaSafe`, `KeysSafe`, `FilesSafe`,
`NothingLeft`, `Refinement`. None of the properties is inductive. The quota
needs `SnapshotInv`: a snapshot that is not stale contains every live,
unrevived item, so what fitted then still fits at the commit. `FileInv` accounts
for each file by the one handler that can touch it. The refinement shows that
every step is one step of `DropSpec` or leaves its variables alone, using the
quota for `Post`. `UploadsMove` proves `QueueMoves`: of the uploads queued for
the advisory lock one can always go on. `CanCreate` is what the steps of a
creation wait for (`StepsCanCreate`), `LockHeld` says who holds the lock, and
`SpoolInv`, that no sweep, deletion or cleanup takes a spooled file from the
creation it belongs to, that the holder's renames are possible. Whoever waits
for a row waits for a deletion, which holds no other lock and waits for
nothing.

*TelegramBridgeProofs*: `TypeCorrect`, `AtLeastOnce`, `AtMostOnce`, `Ordered`.
`ProgressInv` says that everything below the offset and below the update being
handled has become an item; `ItemInv` that even an abandoned POST belongs to a
message all of whose predecessors have.

*BridgedDropProofs*: `RefinesBridge`, `RefinesDrop`, `KeysHeld`,
`ExactlyOnce`. The key invariant (`KeyInv`: an item holds its key and only its
key while it is stored) needs nothing of the bridge. It gives, for each step
of Drop, what happens to `View`: a POST turns one message's "none" into "live"
or "expired", the clock any set of "live" into "expired", a deletion one into
"none", a PATCH at most one "expired" into "live", and what other clients post
is seen by no message. Each of these is a step of `TelegramBridge`, so the
theorems of `TelegramBridgeProofs` hold here, and they are used rather than
proved again: that module is instantiated with `View` (`BP`), its assumption
follows from `BridgedAssumption` (`BPAssumption`), and its inductive invariant
together with `KeyInv` gives `StoredOnce`. `KeyInv` is an invariant of the
proof only.

*IAMSetupProofs*: `TypeCorrect`, `OwnerUnique`, `TokenSafe`, `AnswersSafe`.
The lock gives the one confirmation past `CheckOwner` the knowledge that there
is no owner until it commits, since only a holder of the lock makes one. With
that invariant, `RefinesOwnerSpec`: the commit is the one step that is a step
of `OwnerSpec`, lost answer or not, and all others, restarts with an old token
included, leave its variables alone. And `StuckOnlyThere`: `CanGo` is what the
steps of a confirmation wait for (`StepsCanGo`), and if no confirmation under
way has it, the lock is held (else nobody would hold a connection) and its
holder is at the second connection. For a pool of any size this says which
deadlock there is, and that it is the only one; that a confirmation which can
go does, and is answered, is `ConfirmAnswered` and stays with TLC.

*AccessTokensProofs*: `TypeCorrect`, `RevocationTakesHold`, `ArrivesFresh`.
`AgeInv` and `GrantInv` bound, with the same formula `Accounted`, the age of
each token and the time its key has been over: by the time spent in the
exchange, then by the cache entry's age plus the exchange's timeout, and on
its way by what is left of a token's life. `TimeAssumption` is what the code's
constants have to satisfy: `ExchangeTime + SendTime + Skew <= Margin` for the
bridge and `HandlerTime + SendTime + Skew < TTL` for the edge.

*IAMAccessProofs*: `TypeCorrect`, `LoginLimit`, `LateRefused`,
`RevokedStaysOut`, `OneSessionPerCeremony`, `LinkUsesBounded`,
`DeletedPasskeyStaysOut`. Frame lemmas say which steps can touch which
variables; `OriginInv` (every session was stored by a login that got that far,
so none is stored twice) then gives that a session that is over stays over,
from which `LateInv` and `DoomInv` follow. `CeremonyInv` and `LockInv` are the
single use of a ceremony and the row that a login holds between its update and
its commit. The two limits are counting arguments: whoever joins found fewer
than the limit and joins fewer than `Serving` others. `RefinesAccessSpec` goes
through the steps of the three modules: `StandingMoves` and `PhaseMoves` say
what a change of one session or request is to the mapping, `LetsIn` that
`Authenticate`, the later of the two statements, is the instant at which a
request is allowed, `Revokes` that a revocation touches the sessions it names
and no other, and `Grants`, for which it needs `OriginInv`, that a login makes
a session that never was. `RowsGivenBack` is `LockInv` itself: a row is held
by a login that can still commit or fail, and by no other.

*DropEventsProofs*: `TypeCorrect`, `PageCaughtUp`. `SignalInv` says that what
was published to a subscribed page, and it has not asked about, is still on
its way, as a signal, a write or an event; `LoadInv` that the newest list
request brings what it was asked for, unless it was overtaken. Together they
give `CaughtUp`. `StillOnItsWay` is `SignalInv` itself, which is what `Heard`
needs besides fairness.

Only model-checked: the liveness properties `RequestsAnswered`,
`ExpiredLeave`, `Drained`, `BeginAnswered`, `ConfirmAnswered`, `Recovers` and
`Heard`, since fairness is beyond the prover, and the four violations, which
are about one instance each. Every invariant and action property of a passing
run has its theorem, and so has every refinement. The theorems say of progress
what can be said without fairness: that a deadlock is impossible
(`UploadsMove`, `RowsGivenBack`) or is of one kind (`StuckOnlyThere`).
`KeyInv` and the inductive invariants are in no run: they are proved.

## 6. Not modelled

* The AI gateway: each request is one call to a provider, translated and
  streamed back. It keeps nothing between requests, so that there is no state
  to state an invariant of; what could go wrong is in the translation of JSON.
* The control plane: a catalog read once, and probes each of which writes its
  own element of a slice that is made for the request.
* IAM's migrations: one transaction under one advisory lock. Drop's are the
  same, in `Open`.
* The portal, httpx, the Rust verifier (which no service uses), configuration,
  Traefik's static routes, compose and the scripts: presentation, stateless
  middleware or configuration.
* Cryptography, parsing, formats, listings and headers everywhere.

`AccessTokens` is not composed with `IAMSessions`: its session is live or
logged out, and the edge sees of it one statement, the same `Live` that
`Authenticate` reads. Joining them would multiply two state spaces that each
take minutes and add no interaction that the two do not have already.
`IAMSetup` ends where login begins.
