# A TLA+ verification of onlinemenu.tr

onlinemenu.tr is a multi-tenant restaurant platform: a Go modular monolith
(`src/backend`), a desktop point of sale (`src/web/apps/pos-desktop`) and web
front ends. Money and kitchen work pass through it, and what is hard about it is
concurrency: cashiers, diners, background workers, a fiscal device (ÖKC) and a
broker act on the same rows, and most operations read something in one
transaction and write in another. This directory holds TLA+ models of those
parts, the TLC runs that check them on small instances, and TLAPS proofs for
every instance.

- [1. Inventory](#1-inventory)
- [2. Modules and the code they model](#2-modules-and-the-code-they-model)
- [3. Runs](#3-runs)
- [4. What the code does not keep](#4-what-the-code-does-not-keep)
- [5. Fairness](#5-fairness)
- [6. Proofs](#6-proofs)
- [7. Not modelled](#7-not-modelled)
- [8. Plan](#8-plan)

## 1. Inventory

Paths are below `src/backend/internal/` unless they start with `src/`.

| Component | State | Operations | Works with | Hard because |
|---|---|---|---|---|
| Fiscal registration (`modules/payment`: `submission_worker`, `payment_service`, `reconciliation`, `fiscal_expire`, webhook) | `payments`, `fiscal_submissions`, `fiscal_receipts`, `payment_outbox` | enqueue, claim, submit, mark, retry, finalize, OnFiscalResult, reconcile, operator expiry, void | device adapter and its webhook; pos reads payment totals | five writers resolve one row; calls to the device sit between transactions; answers are lost, late, duplicated |
| Checks, orders, tables (`modules/pos/service`) | `checks`, `orders`, `order_items`, `tables`, `pos_branch_settings` | open, close, cancel, transfer, merge, move items; place, guest place, accept, reject, advance, cancel; table status; order flow | payment totals, outbox | decisions on totals of another module read before the lock; two-check and two-table operations; guests racing staff |
| Sale registration (`modules/payment`: RegisterSale) | `payments`, per-check advisory lock | guards, rounding, idempotency, create | check totals from pos | guard reads the check in pos and two sums under READ COMMITTED |
| Transactional outbox, event bus (`platform/outbox`, `platform/eventbus`) | `*_outbox` rows, claims | insert, claim, publish, apply results, reclaim, dead-letter | NATS JetStream | publish outside the transaction; crash between publish and result; order per aggregate |
| HTTP idempotency, rate limit (`platform/httpx`) | cached responses, in-flight locks in Redis | look up, lock, run, store, replay, unlock | every mutating handler | look-up before the lock; lock expiring under a slow handler; a lock deleted by somebody else; Redis failing |
| Cash sessions (`modules/payment/service/cash_session*`) | `cash_sessions`, `cash_movements`, participants, PIN attempts | open, join, move cash, count, close | RegisterSale, fiscal submissions | sale racing the close; figures that are computed on every read and must stand still once the session is closed; lock-out counters |
| Kitchen feed (`modules/pos/ws`) | rooms, connections, send buffers | snapshot, register, handle event, broadcast, shed slow consumer, drain | event bus, boards (`src/web/apps/admin`), POS desktop | snapshot against live events; redelivered and reordered messages that carry no status |
| POS desktop (`src/web/apps/pos-desktop`) | printed-order memory and file, print queue, poller state | connect, print, remember, reprint, stop, restart; poll fiscal results | kitchen feed, HTTP API, printers | crash between paper and memory; failed prints; duplicate and lost tickets |
| Inventory (`modules/inventory`) | `stock_levels`, `stock_movements`, `branch_transfer_orders`, `shipments`, receipts | create, submit, approve, reject, cancel, fulfil; ship, receive; record a movement | catalog | statuses and levels read without a lock and overwritten by id; several shipments of one order |
| Storefront (`modules/storefront`) | QR codes, guest sessions | scan, session, order, rotate | pos (PlaceGuest) | rotation against live sessions |
| Billing (`modules/billing`) | invoices | create, submit, cancel | e-invoice provider | submission outside the transaction |
| Edge sync (`modules/edge-sync`) | local outbox | drain, heartbeat | no peer yet | skeleton |
| Identity, tenant, catalog, hr-core, party | their tables | single-transaction CRUD | Keycloak, storage | little beyond uniqueness |
| Manufacturing, notification | none | none | | stubs |
| Auth, tenant transactions, cache, storage, vault | per request | | external services | `WithTenantTx` fixes the isolation level the models assume |

What makes each of the modelled components correct:

- *fiscal registration*: the payment row, the submission row, the receipts and the
  events always tell one story; an outcome is never rewritten; a basket reaches
  the device again only for a reason that is on record; a printed receipt is missing
  from the books only for a known reason; every sale is resolved, or, where AutoExpire
  is off, has at least reached the vendor.
- *checks and sales*: a table has one open check and the floor plan follows it; a
  check is not charged twice, not closed unpaid, not cancelled with money on it; a
  retried sale is not refused because of itself;
  a settled check does not move; the kitchen does not cook for a dead check.
- *outbox*: what is marked processed was stored; what is dead was tried; duplicates
  have a cause; every event is delivered or given up.
- *inventory*: goods are neither made nor lost between two warehouses; an order's
  counts are those of its shipments; goods travel for live orders only; an order
  closes exactly when it is delivered.
- *cash sessions*: a cash sale belongs to the session whose drawer took it, however
  a close interleaves; a closed report stands still; the difference between count
  and expectation has a cause.
- *kitchen feed and till*: one ticket per order unless the till lost track of it, and
  none swallowed; a board shows the order's status once it rests.
- *idempotency*: work under one key is repeated only for a cause that is known;
  handlers of one key do not run side by side; nobody is told of a success that is
  not his.

The hazards behind these properties, each at its line, are in `PROJECT.json`.

## 2. Modules and the code they model

| Module | Role |
|---|---|
| `FiscalPipeline` | the fiscal registration pipeline |
| `Registration` | abstract: what the payment module promises about a payment |
| `Checks` | checks, orders, tables and sale registration, composed |
| `Outbox` | the outbox dispatcher and the broker's deduplication window |
| `Inventory` | stock levels, shipments and the transfer order they fulfil |
| `CashSessions` | the cash drawer of a branch: sessions, cash sales, closing figures |
| `KitchenFeed` | one order's way from its events over the hub to a board or a till's printer |
| `Idempotency` | the Idempotency-Key middleware over Redis |
| `<module>Proofs` | the theorems about the module (all seven), the refinement of `Registration` included |
| `Sums` | theorems about sums over finite sets, for the proofs about money and goods |
| `MC<module>` | values of the constants, symmetry sets |

Common to all: one action is one database transaction, one statement where the
isolation level lets another transaction in between, or one call to a device or
broker. Row locks and unique indexes are what make a step atomic; a request that
is refused changes nothing and has no action unless the refusal is itself an
answer a property speaks of. Counters that no column bounds (faults, posts) are
bounded by constants named as bounds; the theorems hold for any value of them.
Definitions whose comment begins with "Mutant:" are deliberate wrong versions of
the definition after them; they are not used by any specification and serve to
show that each property can fail.

### 2.1 FiscalPipeline

`payment`, `submission`, `retryCount`, `gate`, `corrupt`, `receipts`,
`completedEvents` and `voidedEvents` are the columns and rows; `gate` folds
`claimed_at` and `next_retry_at` into what ClaimPending distinguishes, `corrupt` says
that the stored payload does not parse. `shards[w]` is a worker's batch as
shardByTerminal groups it, what is left of each group in claim order; `task[w][p]` is
where the worker is with a row of it, `snapshot` the retry count it read. The next
batch is claimed when every shard is empty (the barrier in RunOnce), and only the
head of a shard is worked on (processShard). UPDATE ... RETURNING promises no order, so
a batch comes in any. The limit on shards worked on at once (errgroup's SetLimit) only
delays shards and is left out.
`reached`, `answered`, `printed`, `webhooks` and `voidAsked` are the vendor, known
from how the adapter and the webhook handler use it: it may print, refuse or stay
silent, a submit may fail although the basket arrived or the receipt was printed, and
its webhooks are a set whose members are delivered any number of times, in any order.
`sweep`, `desk` and `voiding` are calls of the reconciler, the operator and VoidSale
between their transactions. `dropped` is a history: the payments without a receipt
whose "completed" the sink could not apply.

| Action | Code |
|---|---|
| `EnqueueSale` | RegisterSale's insert of payment and submission |
| `ClaimPending` | FiscalSubmissionRepo.ClaimPending, from RunOnce, after the barrier |
| `SubmitAccepted`, `SubmitErrored`, `SubmitAnswered` | the SubmitSale call of process, for a row `AtHead` of its shard |
| `MarkSubmitted`, `ApplySyncResult`, `MarkRetry`, `FinalizeFailure` | what process writes after the call; `NextRow` goes on to the next of the shard |
| `FinalizeCorrupt` | process: a payload that does not parse fails the sale without a call |
| `LoseWrite` | one of those writes fails: the row stays claimed, the shard goes on |
| `StopWorker` | the process dies or is stopped: every row of its batch stays claimed |
| `ClaimExpires`, `ClaimOverlaps`, `BackoffElapses` | time against StaleClaimAfter and next_retry_at |
| `OnFiscalResult` (`Transitions`, `ApplyResult`, `DropResult`) | the result sink with MarkResult's status guard and warnIfLostAfterExpire |
| `Webhook`, `DevicePrints`, `DeviceRefuses`, `DeviceVoids` | webhook handler; the vendor |
| `ListStaleSubmitted`, `ReconcilerExpire`, `ReconcilerWarn` | Reconciler |
| `ExpireCheck`, `ExpireWrite`, `ExpireAnswer` | ExpireSubmission, three transactions |
| `VoidCheck`, `VoidSale` | PaymentService.VoidSale |

### 2.2 Checks

The state is the tables of pos (`check`, `tableOf`, `table`, `flow`, `order`,
`checkOf`, `orderOf`), the payment status a sale request led to (`pay`), and for
each call in progress what it has read so far: `sale`, `desk`, `waiter`, `guest`.
That is the point of the module: Close, Cancel, Merge and MoveItems read the
completed and the pending total of a check in two transactions before they lock
it, RegisterSale prices the check in pos before it takes its own per-check lock
and then runs two sums, a transition reads the order's header before it locks the
check, and a diner looks for a check before opening one.

| Action | Code |
|---|---|
| `OpenCheck`, `Transfer`, `SetStatus` | CheckService.Open, Transfer; TableService.SetStatus |
| `SetOrderFlow`, `PlaceOrder` | branch settings; OrderService.Place |
| `PeekOrder`, `Transition`, `TransitionRefused` | lockOrderForTransition with Accept, Reject, Advance, Cancel |
| `GuestJoins`, `GuestFindsNone`, `GuestOpens`, `GuestRefused` | PlaceGuest, with its one retry on the unique index |
| `AskCheck`, `ReadTotal`, `LockSale`, `SumPending`, `CreatePayment`, `SettleSale`, `SaleEnds` | RegisterSale and its guards |
| `PaymentCompletes`, `PaymentFails`, `PaymentVoided` | outcomes, as FiscalPipeline establishes them |
| `ReadPaid`, `ReadPending`, `DeskEnds` | the two reads before the lock, or a call given up |
| `CloseCheck`, `CancelCheck`, `MergeChecks`, `MoveItems` | the locking transaction of each |

`Total` is the bill as the repository computes it: the lines of the check's orders
that are neither rejected nor cancelled. The history variables `late`, `flipped`,
`peak` and `override` record which race a state owes itself to, so that a property
can excuse exactly that race and no other.

Checks abstracts FiscalPipeline to what `StatusesAgree` and `ResolvedIsFinal` prove
of it: a payment goes from pending to completed or failed, and from completed to
voided.

### 2.3 Outbox

One table. `inserted`, `processed`, `dead`, `backoff`, `retryCount` and `claimAge`
are the columns; `task` and `snapshot` a dispatcher's batch; `stored` and `fresh`
the stream and what the broker remembers of an id. Time is ticks, because the
claim's age and the window are compared.

| Action | Code |
|---|---|
| `InsertOutbox` | InsertOutbox, in the announcing transaction |
| `ClaimBatch` | claimBatch; SKIP LOCKED lets any part of `Claimable` come back |
| `Publish`, `PublishFails` | the loop of dispatchTable with publishWithTimeout; a failure may have reached the broker |
| `ApplyResults` | applyResults |
| `Abandon` | the process dies, stops, or the results transaction fails |
| `BackoffElapses`, `Tick` | retryBackoff; the clock |

`Dispatch(d)` is one dispatcher's cycle, step by step. The rows of an aggregate are
published in any order: claimBatch orders by `aggregate_id, event_id` and event ids
are random.

### 2.4 Inventory

One order (`bto`, `line`), shipments of one line each (`ship`, `shipped`), the levels
(`onHand`, `reserved`) and the hand movements recorded. Every operation reads the
status of its row without a lock, checks the edge in memory and overwrites the row
by id, so `call[k]` carries what a clerk's call has read: `saw`, the status; `had`,
the level the availability guard looked at; `order` and `all`, what
transitionLinkedBTO and AllReceived read. Rows a call has written stay locked until
it commits (`HoldsShipment`, `HoldsLevel`, `HoldsLine`), and only the commit makes
its writes visible. `raced`, `crossed`, `stale` and `skewed` are histories: which
status was overwritten unseen, which level had changed since it was looked at, and
whether two arrivals counted the lines without each other's.

| Action | Code |
|---|---|
| `CreateOrder`, `ReadOrder`, `WriteOrder` (with `Approve`) | TransferOrderService.Create; Submit, Approve, Reject, Cancel and Fulfil in two steps |
| `CreateShipment`, `ReadShipment`, `WriteShipment` | ShipmentService.Create; Approve and Cancel |
| `Look`, `Write`, `CountLines`, `CommitShipment` (`ShipOut`, `BookIn`), `Refuse` | Advance and Receive, with transitionLinkedBTO |
| `RecordMovement` | InventoryService.RecordMovement |

### 2.5 CashSessions

`status`, `openedAt`, `closedAt`, `net` and `counted` are a session's columns, `sale`
and `createdAt` a payment's. A cash sale holds the session row FOR SHARE from its
guard to its commit (`Sharers`), the session's own operations take it FOR UPDATE
(`Held`). The three timestamps come from the API host and are taken before the
statement that stores them, hence steps of their own against one `clock`; the host's
clock is assumed not to run backwards, and to be one clock for the branch. A sum of
money is the set of the sales it sums. `under`, `settled` and `shown` are histories:
the session a sale's guard found, the sales decided since the last count, and the
figures Close answered with.

| Action | Code |
|---|---|
| `PassSessionGuard`, `RefuseSale`, `CreatePayment`, `FinishSale` | RegisterSale with GetActiveByBranchForShare |
| `ApplyResult` | OnFiscalResult, which locks no session |
| `StampOpen`, `InsertSession` | Open and its unique index |
| `RecordMovement`, `SubmitClosingCount` | the same |
| `LockForClose`, `GuardClose`, `FinishClose` | Close with cannotClose |

### 2.6 KitchenFeed

One order. `unsent`, `dead`, `todo` and `last` are its outbox rows, those the dispatcher
gave up, the messages the durable consumer has not acknowledged, and the stream
sequence; `hub` the message in hand with the status read for it, since a message
carries none. A station's connection (`phase`, `given`, `buf`) gets its snapshot before
it joins its room. A board keeps `board`, the entry with the highest sequence; a till
keeps `inflight`, `job` and `tickets` (paper). What a till remembers is a bounded set in
order of recency: `memory[c]` is the number of ids more recent than this order's, and
`MaxIds` when it is not in the set; `file[c]` is the same of the saved file. `forgot`,
`evicted` and `torn` are histories: the restarts, the evictions and the failing prints by
which the till lost track of a ticket (`Lapses`). `missed` is the history of what a
connected station has not been told: 0, or the first message that can make good for it.

| Action | Code |
|---|---|
| `PlaceOrder`, `ChangeOrder`, `DeliverOnClose` | birth as pending, or as accepted with a second event; transitions; Close's cascade in a simple-flow branch |
| `Publish`, `GiveUp` | the dispatcher of `Outbox`, in any order; a row it declares dead |
| `LoadOrder`, `Broadcast`, `RestartHub` | handleOrderEvent and broadcast, acknowledged or not; drain or a crash |
| `ReadSnapshot`, `WriteSnapshot`, `Register`, `WriteFrame`, `Disconnect` | ServeKitchenWS, writePump, heartbeatPump |
| `See` (`Applied`, `Replaced`, `Queue`) | applyKitchenMessage of the board; readLoop, shouldPrint and enqueue of the till |
| `StartPrint`, `PrintTicket`, `FailToPrint`, `Record`, `Release` | printLoop, process, printKitchenTicket and release; a failed print may leave paper |
| `Reprint`, `PrintOther` | a ticket by hand; tickets of other orders, which push this one out of the set |
| `StopTill`, `CrashTill` (with `Open`) | Stop; a crash, and a start that reads the file, cannot read it or finds it corrupt |

### 2.7 Idempotency

`entry` is the request whose answer is stored under the key, `lock` the request that
set the in-flight lock, `phase`, `body` and `answer` what a request has done, sent
and been told. `ran` are the requests whose handler did its work; a handler that
answers other than 2xx is taken to have done none. `faults` are the causes a repeat
may have: the request's lookup failed or missed before another's answer was stored,
its answer was not stored, or its lock ended before it did.

| Action | Code |
|---|---|
| `Look`, `LookBlindly` | lookupCachedEntry; an error counts as a miss |
| `Acquire`, `AcquireFails` | SETNX; on an error the lock may have been set |
| `Handle`, `Save`, `SaveFails`, `Release`, `ReleaseFails` | the handler; SET of the entry; the deferred DEL, whoever holds the lock |
| `LockExpires`, `EntryExpires`, `Stop` | the two TTLs; the process dies |

### 2.8 What is abstracted

Payloads, amounts of money beyond small integers, currency, tax, names, wording,
logging and metrics; pax and seats; branch and tenant authorization (one branch of
one tenant); pricing against the catalogue (a line has a price); the rounding
switches of a branch (on; the step and the ceiling are constants); outbox rows
written by pos operations. A line may have price zero, as in the code. The
cash-session gate of RegisterSale is one more way for a sale to end without a
payment in `Checks` (`SaleEnds`) and is modelled in full in `CashSessions`, which in
turn leaves checks out. Units of measure and costs in inventory.

## 3. Runs

| Run | Instance | States | Shows |
|---|---|---|---|
| `fiscal_async` | one payment, two workers, asynchronous adapter, AutoExpire on, retry budget 1, one abandoned and one overlapping claim, at most five posts, fair | 658,000 | books, statuses and answers agree, and with the paper; no outcome is rewritten; claims are exclusive and reposts accounted for; a printed receipt the books do not know was expired over or posted twice; the pipeline implements `Registration`; every sale is resolved though the vendor may stay silent |
| `fiscal_shards` | two payments of one terminal, one worker, synchronous adapter, at most three posts | 582,000 | one basket at a time on a terminal |
| `checks_sales` | one check, five sale requests: three of one key (one without a check), three rounded by 1 under a ceiling of 1 | 895,000 | a request never sums a payment of its own key; roundings within the ceiling; overcharge only after a payment completed between two sums |
| `checks_floor` | two tables, two checks, two diners, one clerk | 990,000 | one open check per table; the floor plan follows |
| `checks_orders` | two checks, two orders, one line, a sale that pays it, one clerk, a waiter, all statuses, both flows | 565,000 | no live ticket on a dead check; closed checks are paid; money left on a dead check was raced; the bill of a settled check never changes, stale order headers included |
| `outbox` | two events in batches of two, two dispatchers, retry budget 1, two faults of any kind, window 1, claim stale after 1, fair | 468,000 | verdicts are true; duplicates have a cause; resolved rows stay; every event ends up processed or dead though the broker may refuse everything |
| `inventory_stock` | two warehouses, two items, a shipment of each for one order, two clerks, one issue by hand, approvals of 0 | 2,186,000 | goods are conserved; counts agree; goods move for live orders; orders close on delivery |
| `cash_sessions` | two sessions, two managers, two cash sales and a card sale, net movement within 1 | 1,925,000 | cash sales lie in their window; a closed window is settled; closed reports move only by voids; differences have a cause |
| `kitchen_feed` | one station, board or till, two events of the order, a send buffer of 1, a memory of two ids, one lapse, fair | 543,000 | no second ticket without a cause; sightings are queued; boards catch up; tills print |
| `idempotency` | three requests of one key, two bodies | 654,000 | repeated work has a cause; handlers run alone; answers are true |

`checks_double_charge` and `inventory_refused` end in a violation; see section 4.

AutoExpire is off by default (section 4). The run has it on, because only then does the
reconciler write; it may still do no more than warn at any sweep, so the invariants
and action properties are checked for the default as well. What the default promises of
liveness is the second alternative of `EverySaleIsResolved`; with `AutoExpire = FALSE`
in `FiscalAsync.cfg` the run has 631,000 states and passes.

Each module has a `TypeOK`, proved for every instance. The runs leave it out, except
`checks_orders`, where it says that no sum a call carries is negative, and `outbox`,
where it carries a fact of its own: no row is claimed whose budget is spent.

Why these bounds. Every race in the code is between two parties over one row, so two
workers, two stations, two diners, two clerks or a clerk and a station suffice, and one
payment, order or session at a time except where the property relates two (a terminal, a
batch, a key, a successor session). Three requests of a key are one more than a race:
the third meets a lock that the second lost to the first. A retry budget of 1 gives a
first failure that is retried and a second that is final; one abandoned claim followed
by a retry exercises every reclaim, and `MaxFaults` = 2 lets one fault follow another on
the same event. A sale's amount of two against lines of three tells apart part payment,
overpayment by a race, and the part of a bill that moves with a line. Approved
quantities of 0 give an order that is delivered before anything arrives. A memory of two
ids tells apart an order that has aged and one that is evicted; one lapse of each kind
gives one ticket too many, and the bound `1 + Lapses` is met. `fiscal_shards` has one
terminal: with two, shards run side by side and have nothing in common, which
`TerminalsAreAlwaysExclusive` covers for any split. Two events give an order that is
placed and accepted, accepted at birth, or ended while its ticket is owed, with every
message redelivered any number of times; a send buffer of 1 is full after one frame.
`Flows` and `Asks` let runs that are not about orders leave the order machine at rest.
Those properties that are also proved (section 6) do not depend on any of this; what is
left to the bounds is liveness.

Symmetry is used only where the constants treat the members alike: checks, tables,
orders and lines in a run without sales (`FloorSymmetry`), orders (`OrderSymmetry`),
lines of one price (`ItemSymmetry`), clerks (`ClerkSymmetry`), sessions, managers and
cash sales (`CashSymmetry`), requests and bodies (`RequestSymmetry`). No run that
checks liveness uses symmetry. Deadlock checking is off: a finite set of payments,
checks, requests or events is finished at some point, and there is then nothing left
to do.

## 4. What the code does not keep

Two runs end in a violation of a statement made in the repository; `PROJECT.json`
quotes it.

- `checks_double_charge`: guardAgainstOverpayment sums completed and then pending
  payments in two READ COMMITTED statements. A payment that completes in between
  is in neither, and a second station charges the check in full.
  `DoubleChargeNeedsAFlip` shows that this is the only way.
- `inventory_refused`: the first arrival that completes a transfer order closes it;
  a second shipment of the order that is already on the road finds "closed" instead
  of "received", its Receive is refused, and the goods stay in transit for good.

Other statements do not hold as written; the properties that follow from the weaker
truth are checked and proved instead.

- `fiscal_expire.go:117-126` says that every lost transition but the one of an
  expired row is expected and stays at debug level. When every SubmitSale call of a
  basket times out although the basket arrived, the budget fails the payment, and
  the device's genuine receipt is dropped at debug level. And a receipt whose news
  never comes at all (a webhook that is lost, a synchronous submit that errors after
  printing) is lost after a single post, without any alarm, as soon as somebody expires
  the row. `LostReceiptsAreExplained`: an expiry and a second post are the only ways
  a printed receipt is missing from a closed row, and a result that does arrive is
  dropped without an alarm only after a second post.
- A sale may stay pending for good. `reconciliation.go:38-44`, `:80-84`,
  `fiscal_expire.go:30-39` and `check_service.go:31-39` say so: AutoExpire is off by
  default, since no adapter can ask the vendor whether a receipt was printed, and the
  check waits for an operator. `EverySaleIsResolved` therefore promises a resolution
  only where AutoExpire is on, and otherwise that the sale reaches the vendor.
- `printedids.go:1-8` says that the same order is never printed twice, and that an id old
  enough to be evicted belongs to an order that is no longer live. The set drops its
  oldest id beyond 500 (`:122`), and an order that is still pending or accepted by then
  is printed again at its next announcement or snapshot, with no restart and no failed
  print; `hub.go:217-218` speaks of a branch with 738 live orders. A file that cannot be
  read, or is corrupt, at a start, and a printer that fails with the ticket on paper
  (`network_printer.go:171`), have the same effect. `DuplicateTicketsHaveACause`: these
  and the crash between paper and memory are the only causes.
- `check_service.go:521-523` says that a check with any collected money is not
  cancelled. Cancel, Merge and MoveItems read the completed and the pending total in
  two transactions (`:534`, `:538`), and a payment that completes in between is in
  neither. `OrphanedMoneyWasRaced`: this and the documented race with a payment that
  arrives during the call are the only ways.
- ADR DATA-001 (`:74`, `:114`) promises that events of an aggregate are processed in
  order. claimBatch orders them by random ids, and a failed publish is retried after
  later ones; `Outbox` publishes them in any order and `KitchenFeed` takes them so.
- ADR DATA-001 lets the broker's deduplication window (two minutes) protect across
  a crash, but a claim is taken over only after StaleClaimAfter (five minutes), so
  a crash between publish and result stores the event twice.
  `DuplicatesAreAccountedFor` bounds the copies by the crashes and the lost
  acknowledgements.
- `cash_session_repo.go:351-355` says that the formula must stop moving once the
  session is closed. A void of one of its sales moves it: `ReportsMoveOnlyByVoids`.
- `idempotency.go:183-184` gives the in-flight lock as the answer to two requests
  that miss the cache together. A request that missed before the first one's answer
  was stored takes the lock after the first has released it, and runs again; and the
  deferred DEL at `:198` may delete the lock of another request once its own has
  expired. `RepeatedWorkHasACause` and `HandlersRunAlone` name these causes.
- lockOrderForTransition calls an order's check_id immutable after insert; Merge
  rewrites it. `SettledChecksAreStill` shows that nothing wrong is written: the
  transition is refused, although the order sits on an open check.

Met while modelling and not modelled: `purchase_receipt_service.go:239-251` holds that
taking a second pool connection inside a transaction "cannot deadlock outright"; but
acquiring from the pool waits for a free connection, and as many receipts as the pool
has connections can all wait while none gives one back, until their contexts end. The
comment at `inventory_service.go:119-121` says that reserve increases its column, while
signedDelta returns a negative delta for it (`:129`); reservations by hand are not in
`Inventory`.

Met while modelling, with no statement in the repository to hold it against: in the full
order flow a paid check closes with live orders, whose later transitions are all
refused; Close with a stale paid total answers "insufficient payment" where "fiscal
pending" would be true; a claim that is taken over from a dispatcher still at work can
bring a dead outbox row back to life, since applyResults writes `is_dead`
unconditionally (hence the condition on `overlaps` in `ResolvedRowsStay`); a message the
hub read before the order's last change is announced over a newer snapshot, and stays
until the next message; an order event whose outbox row is given up is never announced
to the stations that are connected, and if it was the last one, they keep the old status
until they reconnect (hence `missed`); a sighting that comes after process has returned
and before release (`kitchen_dispatcher.go:285-286`) finds the mark of a job that is
over and is swallowed, so an order whose print has just failed waits for the one after;
in inventory every status is overwritten by id after an unlocked read, so a shipment
received twice at once is booked in twice (hence `raced`), a shipment that looked at a
level before another took it ships goods that are not there, its level clamped at zero
(hence `stale`), and two last arrivals that do not see each other leave a delivered
order "shipped" (hence `skewed`).

## 5. Fairness

Only what the code schedules by itself is fair. Worker and dispatcher processes
poll on a ticker, so a claim that stays possible is made; SubmitSale and publish
calls carry a timeout, so they end, one way or another; transactions end; claims
grow stale and backoffs elapse with the clock; the reconciler sweeps on a ticker, and
expires what it finds only where AutoExpire is on. In
`Outbox` one weak fairness per dispatcher suffices, since `Dispatch(d)` is always
enabled while there is work for it. ReconcilerExpire has strong fairness: the row
leaves and re-enters the sweep, but a row older than the basket's lifetime stays so
and a sweep reaches it at last. In `KitchenFeed` the dispatcher comes to an end with
every row, by publishing it or by giving it up (`Publish \/ GiveUp`: a broker that
refuses everything leaves every row dead); the consumer, the
stations' reconnecting, the pumps and the printer worker are weakly fair;
`Broadcast(TRUE)` strongly: a message keeps being redelivered, and an acknowledgement
gets through at last. Nothing is assumed of vendor, webhook, broker, operator, staff,
printer or network: the vendor may be silent, the broker may refuse every publish,
connections may drop and prints fail for ever. `BoardsCatchUp` and
`TillsPrintInTheEnd` say what that leaves: they excuse the station that missed an
announcement between snapshot and room, or an event whose row was given up, until a
later message makes good for it, and the till whose last print failed or that is
stopped over and over (`StaysUp`).

Faults are bounded in number (`MaxAbandons`, `MaxOverlaps`, `MaxFaults`, `MaxLapses`)
and so are `MaxPosts`, `MaxMoves` and `MaxNet`: with a crash in every cycle nothing
could be promised. `MaxPosts` is set high enough that it stops no worker for good in
these runs: a submission it held back would stay pending.

## 6. Proofs

All from the constants' assumptions alone (`ConstantsAssumption`,
`ChecksAssumption`, `OutboxAssumption`, `InventoryAssumption`, `CashAssumption`,
`KitchenAssumption`, `RequestAssumption`: bounds are naturals, functions have their
domains, prices and quantities are naturals, the value for "nobody" is no session or
request; lines, sales, warehouses and shipments, over which the code sums, are finite
sets), so for any number of payments, workers, checks, diners, events, dispatchers,
warehouses, shipments, clerks, sessions, stations and requests, any retry budget and
any number of faults. Every invariant and action property that a run checks, and that
holds, is also a theorem.

**Sums.** A sum over a set is `SumFunctionOnSet` of the community modules: a fold whose
order is a CHOOSE. The proofs need of it what the code takes for granted of SQL's SUM:
the order does not matter (`SumElement`), disjoint sets add up (`SumUnion`), a part is
no more than the whole (`SumSubset`), one changed entry changes the sum by the
difference (`SumChange`), a sum of positive numbers is zero only over nothing
(`SumZero`). The library's induction theorems have an operator parameter, which the
provers here cannot instantiate; `SubsetInduction` states induction over the subsets of
a finite set with a set of good subsets in its place, and is proved from the strict
inclusion of such subsets being well-founded. `AddersExist` shows that the function the
fold chooses exists; the rest follows by that induction.

**FiscalPipelineProofs.** `TypeOK` is inductive. The steps are classed once by what they
do to the books (`BookStep`: register, apply a result through the sink, or leave alone),
and `BookInv` = `TypeOK`, `StatusesAgree` and `BooksAgree` is inductive over those
classes; either part alone is not, since the sink decides on the submission and writes
the payment and the receipt. From it follow `OutcomesAreFinal` and
`PipelineImplementsRegistration`. `WorkInv` says of every row whose claims never
overlapped who holds it, in which gate, with which retry count, and how many posts that
makes (`Claims`, `Accounts`); it gives `ClaimsAreAlwaysExclusive` and
`RepostsAreAlwaysAccountedFor`. `DeskInv` carries the operator's check across the race,
`PrintInv` follows the evidence of a receipt from device to books; with `BookInv` it
gives `BooksAreAlwaysTrue`. `TerminalsAreAlwaysExclusive` needs `HeadsAreOut`: a row
that a worker has out is at the head of its shard. All rows of a terminal are in one
shard, whatever the order of the batch, and a shard has one head.
`LostReceiptsAreAlwaysExplained` rests on `AnswerInv`. A row is looked at alone, and a
step posts it, answers it or keeps it (`RowStep`). `PostsAreCounted`: the vendor deals
only with baskets that were posted, and a retry count above zero, in the row or in the
copy a worker took at its claim, was left by an earlier post; so a worker that finds the
budget spent has posted for the second time, since `MaxRetries` is at least 1.
`VoidsWereReceipted`: only a payment with a receipt is voided on request.
`OneAnswerPerPost`: while a basket has been posted once and no receipt is filed, the
news of a printed receipt and the news or the record of a refusal exclude each other. A
row that is closed without the receipt, or against its news, has therefore met an expiry
or a second post (`ClosedWithoutPaper`); and the sink drops a "completed" with the
alarm, or after a second post (`SinkDrops`). A corrupt payload is closed without a post,
and so without paper.

**ChecksProofs.** The actions are classed by what they do to tables (`FloorMove`)
and to orders (`OrderMove`). `FloorInv` gives `TablesAreNeverShared` and
`FloorPlanAlwaysAgrees`. `OrderInv` adds
to the kitchen property what keeps stale headers harmless: a header that is no
longer the order's names a merged check (`StaleHeadersNameMergedChecks`), on which
the lock refuses every transition; from it `KitchenForgetsDeadChecks` and
`SettledChecksNeverMove`.

The theorems about money use `Sums` and class the steps by what they do to payments
(`MoneyMove`). `MoneyTypes` is what the types need: every sum in a call's hands is a
natural number (`ChecksTypes`). `ConcessionsStayWithinCeiling` is inductive: a payment
is written in the transaction that sums the concessions. `ClosedChecksStayPaid` needs
`DeskReadsArePaid`: what a call read as paid before the lock is at most what is paid
now, until a payment of the check is voided. `OverchargesNeedAFlip` needs `ChargeInv`:
no total exceeds the recorded peak, the total a sale was priced at was one
(`PricesWerePeaked`), one sale of a check at a time is between its lock and its end
(`LocksExclude`), and so what its guard summed is not outdated, unless a payment
completed between the two sums (`GuardsHold`). `RetriesAreNeverRefused` needs the lock
as well: whoever would pay the check with a key that was looked up under the lock holds
that lock itself, and is done with it when it has paid. `OrphansWereRaced` needs
`EmptyReadsAreTrue`: when a call has found a check without money, every payment the
check has by now came late or completed between the reads, and the histories name it.

**OutboxProofs.** `TypeOK` needs that a row with a spent budget is dead
(`SpentAreDead`), since otherwise it could be claimed once more. `RowInv` holds
per row: `Ledger` relates attempts, retry count, copies and results in hand whatever
happens, and gives `VerdictsAreAlwaysTrue`; `Claims`, for rows whose claims never
overlapped, that one dispatcher holds the row, that it is unresolved, and how many
copies its faults allow.

**InventoryProofs.** `InventoryInv` relates the calls in progress to the rows:
shipped goods to the order's status at the time (`ShippedForLive`), a call's saw and
order to the edges it checked, the order's lines to what a call with a count in hand
counted. A commit then closes the order only on a count that still holds, or raises
`crossed` or `skewed`. It gives `GoodsForLiveOrders` and, from the two directions
`ClosedOrdersReceived` and `DeliveredOrdersAreClosed`, `OrdersCloseAsDelivered`.

The two sums need what the row locks give (`HoldInv`): an Advance wrote only on a level
that was enough when it looked (`LooksWereEnough`), a call that has written holds its
level alone (`LevelsAreHeld`), and so it still finds what it takes, or the level had
moved between look and lock and the item is in `stale` (`HeldStockSuffices`). The clamp
at zero in `MoveStock` then takes nothing away, and each commit moves the same quantity
between `Stored` and `Travelling` (`GoodsAreConserved`) and onto the order's line
(`OrderCountsAreTrue`); a shipment that moved off the edges of its status is in `raced`.

**CashSessionsProofs.** `CashInv` says which locks are held by whom, that the times of
sessions and sales lie on the clock in the order of the steps that took them, and
what each figure contains. The share lock makes a sale's stamp fall between the
opening of its session and its close (`SalesInWindow`); the guard under the exclusive
lock makes a closed window settled (`WindowSettled`); a result then finds no pending
sale in it, which leaves voids (`ReportsStand`, `DifferencesExplained`).

**KitchenFeedProofs.** `KitchenInv` counts the tickets against the lapses, for any bound
of the memory (`TicketsAreNotRepeated`). Ticket count and lapses alone are not inductive:
`PaperOf` adds that a till which may print without knowing of a ticket (`Ignorant`: a job
at the printer, or neither the memory nor a job knows of paper) has no more tickets than
lapses, so the next one is at most one more; whatever makes a till ignorant again, an
eviction, a restart or a torn print, is a lapse. `SightingsAreAlwaysQueued` is an action
property: each way a station handles a frame or a snapshot leaves a job, finds the order
remembered or falls before a release, from `TypeOK`'s inflight mark being as long as the
job.

**IdempotencyProofs.** `IdemInv`: the lock belongs to the request inside or one of the
two was overrun; the work of a request that ran without a fault is stored or still
its own to store; a request that missed has no stored answer before it, or a fault.
It gives `RepeatsAreExplained`, `LockedOut` and `RepliesAreTrue`.

Left to TLC: liveness (`EverySaleIsResolved`,
`EveryEventIsResolved`, `BoardsCatchUp`, `TillsPrintInTheEnd`), since fairness and
ENABLED are beyond the prover.

## 7. Not modelled

Front ends and mobile apps, except how a board applies kitchen messages; migrations
other than the unique indexes the models use; authorization policies; wire formats
and signatures of the device adapters; reports and read models; stubs (manufacturing,
notification) and the edge-sync skeleton; single-transaction CRUD (tenant, catalog,
identity, hr-core, party), where there is nothing between two steps to go wrong. These
make up most of the repository's lines: the models stand for the part of it where the
order of steps matters.

Of the modelled components: tables missing in a deployment and the pending gauge of
the dispatcher; row locks as locks in `Checks` (they are atomic steps) and the
connections of the database pool; purchase receipts, supply policies and costs in
inventory; participants, PIN join and lock-out of cash sessions; several replicas of
the hub on one durable consumer, a limitation `hub.go` states; entries without a body
hash and the rate limiter; the fiscal poller and the kitchen notices of the desktop.

## 8. Plan

Done: `FiscalPipeline` with `Registration`, `Checks` (composing pos with sale
registration), `Outbox`, `Inventory`, `CashSessions`, `KitchenFeed` (composing the
outbox's reorderings, the hub and the stations), `Idempotency`.

Open, in this order:

1. A model of waiting: the order in which merges, moves, transfers and guests lock
   checks, tables and orders, and the pool connections of nested transactions;
   freedom from deadlock.
2. PIN join, switch and lock-out of cash sessions.
3. The fiscal poller of the desktop, QR rotation of the storefront, submission of
   invoices.
4. Pure functions against reference definitions: rounding, tax split, backoff.
