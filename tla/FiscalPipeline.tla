--------------------------- MODULE FiscalPipeline ---------------------------
(***************************************************************************)
(* The asynchronous fiscal registration of payments (payment module).      *)
(*                                                                         *)
(* RegisterSale writes a pending payment and, in the same transaction, one *)
(* pending row of fiscal_submissions.  Worker processes claim the pending  *)
(* rows, hand each basket to the fiscal device adapter outside any         *)
(* transaction and record what happened in a second, short transaction.    *)
(* An asynchronous adapter answers later through the vendor's webhook.     *)
(* Reconciler, operator and void requests race the workers and the         *)
(* webhook; everyone who knows an outcome calls OnFiscalResult.            *)
(*                                                                         *)
(* A payment has exactly one submission, so one identifier names both.     *)
(* Every action is one database transaction or one call to the vendor.     *)
(***************************************************************************)
EXTENDS Naturals, FiniteSets, Sequences

CONSTANTS
  Payment,         \* payments, and the one submission of each
  Terminal,        \* fiscal devices, one per (tenant, branch)
  TerminalOf,      \* the device the driver resolves from a payment's branch
  Worker,          \* processes running a SubmissionWorker
  BatchSize,       \* rows of one claim
  MaxRetries,      \* retry budget of a submission
  Sync,            \* TRUE: the adapter answers in the call; FALSE: by webhook
  AutoExpire,      \* ReconcilerConfig.AutoExpire
  MaxAbandons,     \* bound: crashes and lost bookkeeping writes per submission
  MaxOverlaps,     \* bound: claims that go stale under a working worker
  MaxPosts         \* bound: SubmitSale calls per submission

ASSUME ConstantsAssumption ==
  /\ TerminalOf \in [Payment -> Terminal]
  /\ {BatchSize, MaxRetries, MaxPosts} \subseteq Nat \ {0}
  /\ {MaxAbandons, MaxOverlaps} \subseteq Nat
  /\ {Sync, AutoExpire} \subseteq BOOLEAN

VARIABLES
  payment,     \* payments.status; "none" before RegisterSale
  submission,  \* fiscal_submissions.status
  retryCount,  \* fiscal_submissions.retry_count
  gate,        \* claimed_at and next_retry_at: may a worker claim the row?
  corrupt,     \* fiscal_submissions.sale_payload does not unmarshal
  receipts,    \* number of fiscal_receipts rows of the payment
  completedEvents, voidedEvents,  \* outbox rows payment.completed, payment.voided
  task,        \* what each worker is doing with each row of its batch
  snapshot,    \* the retry_count a worker read when it claimed the row
  shards,      \* the worker's batch by terminal: the rows not yet dealt with
  reached,     \* external: baskets the vendor received for the submission
  answered,    \* external: baskets the device has dealt with
  printed,     \* external: receipts the device printed for it
  webhooks,    \* external: results the vendor sends, any number of times
  voidAsked,   \* external: payments the vendor was asked to void
  sweep,       \* rows the reconciler listed and has not visited
  desk,        \* the operator's ExpireSubmission call on each row
  voiding,     \* VoidSale calls that passed the status check
  posts,       \* history: SubmitSale calls made for the submission
  abandons, overlaps,             \* history: counted faults
  dropped,       \* history: payments without a receipt whose "completed" was dropped
  alarms         \* payments warnIfLostAfterExpire raised a warning for

dbVars     == <<payment, submission, retryCount, gate, corrupt, receipts,
                completedEvents, voidedEvents>>
workerVars == <<task, shards, snapshot, posts, abandons, overlaps>>
vendorVars == <<reached, answered, printed, webhooks, voidAsked>>
deskVars   == <<sweep, desk, voiding>>
lossVars   == <<dropped, alarms>>
vars == <<dbVars, workerVars, vendorVars, deskVars, lossVars>>

-----------------------------------------------------------------------------
PaymentStatus == {"none", "pending", "completed", "failed", "voided"}

SubmissionStatus ==
  {"none", "pending", "submitted", "completed", "failed", "voided", "expired"}

Result == {"completed", "failed", "voided", "expired"}

\* "due": unclaimed and past its backoff; "backoff": next_retry_at ahead;
\* "claimed": claimed_at set; "stale": claimed longer than StaleClaimAfter ago.
Gate == {"due", "backoff", "claimed", "stale"}

\* A claimed row waits in its shard, then its SubmitSale call was accepted (nil
\* result), failed, or returned a result: "printed" or "refused".
Phase == {"none", "queued", "accepted", "errored", "printed", "refused"}

InFlight == {"accepted", "errored", "printed", "refused"}

Desk == {"idle", "checked", "written", "expired", "conflict"}

\* Every column and every call in progress has one of the values the code gives it.
TypeOK ==
  /\ payment \in [Payment -> PaymentStatus]
  /\ submission \in [Payment -> SubmissionStatus]
  /\ retryCount \in [Payment -> Nat]
  /\ gate \in [Payment -> Gate]
  /\ corrupt \in [Payment -> BOOLEAN]
  /\ receipts \in [Payment -> Nat]
  /\ completedEvents \in [Payment -> Nat]
  /\ voidedEvents \in [Payment -> Nat]
  /\ task \in [Worker -> [Payment -> Phase]]
  /\ DOMAIN shards = Worker /\ \A w \in Worker : DOMAIN shards[w] \subseteq Terminal
  /\ snapshot \in [Worker -> [Payment -> Nat]]
  /\ reached \in [Payment -> Nat]
  /\ answered \in [Payment -> Nat]
  /\ printed \in [Payment -> Nat]
  /\ webhooks \in SUBSET (Payment \X Result)
  /\ voidAsked \in SUBSET Payment
  /\ sweep \in SUBSET Payment
  /\ desk \in [Payment -> Desk]
  /\ voiding \in SUBSET Payment
  /\ posts \in [Payment -> Nat]
  /\ abandons \in [Payment -> Nat]
  /\ overlaps \in [Payment -> Nat]
  /\ dropped \in SUBSET Payment
  /\ alarms \in SUBSET Payment

Init ==
  /\ payment = [p \in Payment |-> "none"]
  /\ submission = [p \in Payment |-> "none"]
  /\ retryCount = [p \in Payment |-> 0]
  /\ gate = [p \in Payment |-> "due"]
  /\ corrupt = [p \in Payment |-> FALSE]
  /\ receipts = [p \in Payment |-> 0]
  /\ completedEvents = [p \in Payment |-> 0]
  /\ voidedEvents = [p \in Payment |-> 0]
  /\ task = [w \in Worker |-> [p \in Payment |-> "none"]]
  /\ shards = [w \in Worker |-> <<>>]
  /\ snapshot = [w \in Worker |-> [p \in Payment |-> 0]]
  /\ reached = [p \in Payment |-> 0]
  /\ answered = [p \in Payment |-> 0]
  /\ printed = [p \in Payment |-> 0]
  /\ webhooks = {}
  /\ voidAsked = {}
  /\ sweep = {}
  /\ desk = [p \in Payment |-> "idle"]
  /\ voiding = {}
  /\ posts = [p \in Payment |-> 0]
  /\ abandons = [p \in Payment |-> 0]
  /\ overlaps = [p \in Payment |-> 0]
  /\ dropped = {}
  /\ alarms = {}

-----------------------------------------------------------------------------
(* The result sink.                                                        *)

\* Mutant: a submitted row is taken for a resolved one.
SourceStatesPending(result) ==
  IF result = "voided" THEN {"pending", "completed"} ELSE {"pending"}

\* FiscalSubmissionRepo.MarkResult: the states a result may overwrite.
SourceStates(result) ==
  IF result = "voided" THEN {"pending", "submitted", "completed"}
                       ELSE {"pending", "submitted"}

\* PaymentRepo.Complete, Fail and Void: the states the payment may be in.  A
\* miss is ErrNotFound, which rolls the whole transaction back.
PaymentSources(result) ==
  IF result = "voided" THEN {"pending", "completed"} ELSE {"pending"}

PaymentOutcome(result) == IF result = "expired" THEN "failed" ELSE result

Bump(counter, p) == [counter EXCEPT ![p] = @ + 1]

BumpIf(cond, counter, p) == IF cond THEN Bump(counter, p) ELSE counter

\* OnFiscalResult wrote nothing: the row was already resolved, and one kind of
\* loss is logged as a warning; or the payment's guard rolled everything back.
DropResult(p, result) ==
  /\ alarms' = IF result \in {"completed", "voided"} /\ submission[p] = "expired"
               THEN alarms \cup {p} ELSE alarms
  /\ dropped' = IF /\ result = "completed"
                   /\ submission[p] \notin SourceStates(result)
                   /\ receipts[p] = 0
                THEN dropped \cup {p} ELSE dropped
  /\ UNCHANGED dbVars

\* OnFiscalResult performed the transition: receipt, payment and outbox rows are
\* written with it.
ApplyResult(p, result) ==
  /\ submission' = [submission EXCEPT ![p] = result]
  /\ gate' = [gate EXCEPT ![p] = "due"]
  /\ payment' = [payment EXCEPT ![p] = PaymentOutcome(result)]
  /\ receipts' = BumpIf(result = "completed", receipts, p)
  /\ completedEvents' = BumpIf(result = "completed", completedEvents, p)
  /\ voidedEvents' = BumpIf(result = "voided", voidedEvents, p)
  /\ UNCHANGED <<retryCount, corrupt, lossVars>>

\* Mutant: a completed row is taken for an open one and the payment's own
\* status guard is gone.
TransitionsUnguarded(p, result) ==
  submission[p] \in {"pending", "submitted", "completed"}

Transitions(p, result) ==
  /\ submission[p] \in SourceStates(result)
  /\ payment[p] \in PaymentSources(result)

OnFiscalResult(p, result) ==
  \/ Transitions(p, result) /\ ApplyResult(p, result)
  \/ ~Transitions(p, result) /\ DropResult(p, result)

-----------------------------------------------------------------------------
(* The sale.                                                               *)

\* Mutant: a failed payment's row is reused for a new attempt.
EnqueueSaleAgain(p) ==
  /\ payment[p] \in {"none", "failed"}
  /\ payment' = [payment EXCEPT ![p] = "pending"]
  /\ submission' = [submission EXCEPT ![p] = "pending"]
  /\ \E broken \in BOOLEAN : corrupt' = [corrupt EXCEPT ![p] = broken]
  /\ UNCHANGED <<retryCount, gate, receipts, completedEvents, voidedEvents,
                 workerVars, vendorVars, deskVars, lossVars>>

\* The write of RegisterSale: payment and submission, one transaction.  A payload
\* that will not unmarshal is told apart only when a worker takes the row.
EnqueueSale(p) ==
  /\ payment[p] = "none"
  /\ payment' = [payment EXCEPT ![p] = "pending"]
  /\ submission' = [submission EXCEPT ![p] = "pending"]
  /\ \E broken \in BOOLEAN : corrupt' = [corrupt EXCEPT ![p] = broken]
  /\ UNCHANGED <<retryCount, gate, receipts, completedEvents, voidedEvents,
                 workerVars, vendorVars, deskVars, lossVars>>

-----------------------------------------------------------------------------
(* The submission worker.                                                  *)

\* Mutant: claimed_at is not looked at.
ClaimableIgnoringClaims ==
  {p \in Payment : submission[p] = "pending" /\ gate[p] # "backoff"}

Claimable == {p \in Payment : submission[p] = "pending" /\ gate[p] \in {"due", "stale"}}

\* The batch ClaimPending may return: SKIP LOCKED passes over rows other transactions
\* hold, so any part of the eligible rows, and UPDATE ... RETURNING names no order.
Batches ==
  {batch \in UNION {[1..n -> Claimable] : n \in 1..BatchSize} :
     \A i, j \in DOMAIN batch : batch[i] = batch[j] => i = j}

Rows(batch) == {batch[i] : i \in DOMAIN batch}

\* Mutant: the serial on the row takes part in the key, so that rows which print on one
\* device may fall into different shards.
shardKeyOfSerial(p) == <<TerminalOf[p], p>>

\* The key is (tenant, branch), from which the driver resolves the device.
shardKeyOf(p) == TerminalOf[p]

\* The rows of each terminal, in claim order.
shardByTerminal(batch) ==
  [key \in {shardKeyOf(p) : p \in Rows(batch)} |->
     SelectSeq(batch, LAMBDA p : shardKeyOf(p) = key)]

\* RunOnce returns when every shard has drained, and only then claims again.
Idle(w) == \A key \in DOMAIN shards[w] : shards[w][key] = <<>>

SetTask(w, p, phase) == [task EXCEPT ![w][p] = phase]

\* ClaimPending, and the sharding of what it returned.
ClaimPending(w) ==
  /\ Idle(w)
  /\ \E batch \in Batches :
       /\ gate' = [p \in Payment |-> IF p \in Rows(batch) THEN "claimed" ELSE gate[p]]
       /\ task' = [task EXCEPT ![w] =
                     [p \in Payment |-> IF p \in Rows(batch) THEN "queued" ELSE @[p]]]
       /\ snapshot' = [snapshot EXCEPT ![w] =
                         [p \in Payment |-> IF p \in Rows(batch) THEN retryCount[p] ELSE @[p]]]
       /\ shards' = [shards EXCEPT ![w] = shardByTerminal(batch)]
  /\ UNCHANGED <<payment, submission, retryCount, corrupt, receipts, completedEvents,
                 voidedEvents, posts, abandons, overlaps, vendorVars, deskVars,
                 lossVars>>

\* The row processShard has in hand; the shards of a batch run in parallel.
AtHead(w, p) ==
  /\ shardKeyOf(p) \in DOMAIN shards[w]
  /\ shards[w][shardKeyOf(p)] # <<>>
  /\ Head(shards[w][shardKeyOf(p)]) = p

\* processShard has reached the row and calls process.
Reached(w, p) == task[w][p] = "queued" /\ AtHead(w, p)

\* process gets as far as SubmitSale.
MayStart(w, p) == Reached(w, p) /\ ~corrupt[p] /\ posts[p] < MaxPosts

\* process returned, with or without an error: processShard goes on to the next row.
NextRow(w, p) ==
  /\ task' = SetTask(w, p, "none")
  /\ shards' = [shards EXCEPT ![w][shardKeyOf(p)] = Tail(@)]

\* adapter.SubmitSale returned nil: the vendor has the basket and answers later.
SubmitAccepted(w, p) ==
  /\ ~Sync
  /\ MayStart(w, p)
  /\ task' = SetTask(w, p, "accepted")
  /\ reached' = Bump(reached, p)
  /\ posts' = Bump(posts, p)
  /\ UNCHANGED <<dbVars, shards, snapshot, abandons, overlaps, answered, printed,
                 webhooks, voidAsked, deskVars, lossVars>>

\* adapter.SubmitSale failed or timed out; the basket may have got through.
SubmitErrored(w, p) ==
  /\ MayStart(w, p)
  /\ task' = SetTask(w, p, "errored")
  /\ posts' = Bump(posts, p)
  /\ \E delivered \in BOOLEAN :
       /\ reached' = BumpIf(delivered, reached, p)
       /\ printed' = BumpIf(delivered /\ Sync, printed, p)
  /\ UNCHANGED <<dbVars, shards, snapshot, abandons, overlaps, answered, webhooks,
                 voidAsked, deskVars, lossVars>>

\* A synchronous adapter returned the device's result.
SubmitAnswered(w, p) ==
  /\ Sync
  /\ MayStart(w, p)
  /\ posts' = Bump(posts, p)
  /\ reached' = Bump(reached, p)
  /\ \/ task' = SetTask(w, p, "printed") /\ printed' = Bump(printed, p)
     \/ task' = SetTask(w, p, "refused") /\ printed' = printed
  /\ UNCHANGED <<dbVars, shards, snapshot, abandons, overlaps, answered, webhooks,
                 voidAsked, deskVars, lossVars>>

\* Mutant: the UPDATE has no status condition.
MarkSubmittedUnguarded(w, p) ==
  /\ task[w][p] = "accepted"
  /\ NextRow(w, p)
  /\ submission' = [submission EXCEPT ![p] = "submitted"]
  /\ gate' = [gate EXCEPT ![p] = "due"]
  /\ UNCHANGED <<payment, retryCount, corrupt, receipts, completedEvents, voidedEvents,
                 snapshot, posts, abandons, overlaps, vendorVars, deskVars,
                 lossVars>>

\* MarkSubmitted: a no-op when the vendor's result was faster.
MarkSubmitted(w, p) ==
  /\ task[w][p] = "accepted"
  /\ NextRow(w, p)
  /\ IF submission[p] = "pending"
     THEN /\ submission' = [submission EXCEPT ![p] = "submitted"]
          /\ gate' = [gate EXCEPT ![p] = "due"]
     ELSE UNCHANGED <<submission, gate>>
  /\ UNCHANGED <<payment, retryCount, corrupt, receipts, completedEvents, voidedEvents,
                 snapshot, posts, abandons, overlaps, vendorVars, deskVars,
                 lossVars>>

\* process: the result of a synchronous call goes straight to the sink.
ApplySyncResult(w, p) ==
  /\ \/ task[w][p] = "printed" /\ OnFiscalResult(p, "completed")
     \/ task[w][p] = "refused" /\ OnFiscalResult(p, "failed")
  /\ NextRow(w, p)
  /\ UNCHANGED <<snapshot, posts, abandons, overlaps, vendorVars, deskVars>>

\* Mutant: the retry does not count.
MarkRetryUncounted(w, p) ==
  /\ task[w][p] = "errored"
  /\ snapshot[w][p] + 1 <= MaxRetries
  /\ NextRow(w, p)
  /\ gate' = [gate EXCEPT ![p] = IF submission[p] = "pending" THEN "backoff" ELSE @]
  /\ UNCHANGED <<payment, submission, retryCount, corrupt, receipts, completedEvents,
                 voidedEvents, snapshot, posts, abandons, overlaps, vendorVars,
                 deskVars, lossVars>>

\* handleSubmitError with budget left.  MarkRetry writes the count the worker
\* computed from what it read at the claim, not an increment.
MarkRetry(w, p) ==
  /\ task[w][p] = "errored"
  /\ snapshot[w][p] + 1 <= MaxRetries
  /\ NextRow(w, p)
  /\ IF submission[p] = "pending"
     THEN /\ retryCount' = [retryCount EXCEPT ![p] = snapshot[w][p] + 1]
          /\ gate' = [gate EXCEPT ![p] = "backoff"]
     ELSE UNCHANGED <<retryCount, gate>>
  /\ UNCHANGED <<payment, submission, corrupt, receipts, completedEvents, voidedEvents,
                 snapshot, posts, abandons, overlaps, vendorVars, deskVars,
                 lossVars>>

\* handleSubmitError with the budget spent: the payment fails through the sink.
FinalizeFailure(w, p) ==
  /\ task[w][p] = "errored"
  /\ snapshot[w][p] + 1 > MaxRetries
  /\ NextRow(w, p)
  /\ OnFiscalResult(p, "failed")
  /\ UNCHANGED <<snapshot, posts, abandons, overlaps, vendorVars, deskVars>>

\* A payload that does not unmarshal fails its payment at once, without a SubmitSale.
FinalizeCorrupt(w, p) ==
  /\ Reached(w, p)
  /\ corrupt[p]
  /\ NextRow(w, p)
  /\ OnFiscalResult(p, "failed")
  /\ UNCHANGED <<snapshot, posts, abandons, overlaps, vendorVars, deskVars>>

\* The bookkeeping write after SubmitSale fails, or the submit was cut off by the
\* shutdown: the row stays claimed.
LoseWrite(w, p) ==
  /\ task[w][p] \in InFlight
  /\ abandons[p] < MaxAbandons
  /\ NextRow(w, p)
  /\ abandons' = Bump(abandons, p)
  /\ UNCHANGED <<dbVars, snapshot, posts, overlaps, vendorVars, deskVars, lossVars>>

\* The worker stops or crashes: all rows it holds stay claimed.
StopWorker(w) ==
  /\ \E p \in Payment : task[w][p] # "none"
  /\ \A p \in Payment : task[w][p] # "none" => abandons[p] < MaxAbandons
  /\ task' = [task EXCEPT ![w] = [p \in Payment |-> "none"]]
  /\ shards' = [shards EXCEPT ![w] = <<>>]
  /\ abandons' = [p \in Payment |-> IF task[w][p] # "none" THEN abandons[p] + 1
                                                          ELSE abandons[p]]
  /\ UNCHANGED <<dbVars, snapshot, posts, overlaps, vendorVars, deskVars, lossVars>>

Held(p) == \E w \in Worker : task[w][p] # "none"

\* StaleClaimAfter passes over a claim nobody works on any more.
ClaimExpires(p) ==
  /\ submission[p] = "pending"
  /\ gate[p] = "claimed"
  /\ ~Held(p)
  /\ gate' = [gate EXCEPT ![p] = "stale"]
  /\ UNCHANGED <<payment, submission, retryCount, corrupt, receipts, completedEvents,
                 voidedEvents, workerVars, vendorVars, deskVars, lossVars>>

\* StaleClaimAfter passes while a slow worker still has the row in its batch.
ClaimOverlaps(p) ==
  /\ submission[p] = "pending"
  /\ gate[p] = "claimed"
  /\ Held(p)
  /\ overlaps[p] < MaxOverlaps
  /\ gate' = [gate EXCEPT ![p] = "stale"]
  /\ overlaps' = Bump(overlaps, p)
  /\ UNCHANGED <<payment, submission, retryCount, corrupt, receipts, completedEvents,
                 voidedEvents, task, shards, snapshot, posts, abandons, vendorVars,
                 deskVars, lossVars>>

\* retryBackoff passes: next_retry_at is no longer ahead.
BackoffElapses(p) ==
  /\ gate[p] = "backoff"
  /\ gate' = [gate EXCEPT ![p] = "due"]
  /\ UNCHANGED <<payment, submission, retryCount, corrupt, receipts, completedEvents,
                 voidedEvents, workerVars, vendorVars, deskVars, lossVars>>

-----------------------------------------------------------------------------
(* The vendor and its device (external), and the webhook.                  *)

\* A basket the device has received and not dealt with.
BasketOpen(p) == ~Sync /\ answered[p] < reached[p]

Notify(p, result) == webhooks' = webhooks \cup {<<p, result>>}

\* The device registers a basket.  What it does with a second copy of one is
\* undocumented, so it may print again.
DevicePrints(p) ==
  /\ BasketOpen(p)
  /\ answered' = Bump(answered, p)
  /\ printed' = Bump(printed, p)
  /\ Notify(p, "completed")
  /\ UNCHANGED <<dbVars, workerVars, reached, voidAsked, deskVars, lossVars>>

\* The device refuses the basket (status -1), or the cashier cancels it there
\* (status 99).
DeviceRefuses(p) ==
  /\ BasketOpen(p)
  /\ answered' = Bump(answered, p)
  /\ \E result \in {"failed", "voided"} : Notify(p, result)
  /\ UNCHANGED <<dbVars, workerVars, reached, printed, voidAsked, deskVars, lossVars>>

\* The device voids the receipt, or refuses to.
DeviceVoids(p) ==
  /\ p \in voidAsked
  /\ voidAsked' = voidAsked \ {p}
  /\ \E result \in {"failed", "voided"} : Notify(p, result)
  /\ UNCHANGED <<dbVars, workerVars, reached, answered, printed, deskVars, lossVars>>

\* TokenXWebhookHandler.handleCompleted.  A result is delivered any number of
\* times, in any order, or never.
Webhook(p) ==
  /\ \E result \in {"completed", "failed", "voided"} :
       /\ <<p, result>> \in webhooks
       /\ OnFiscalResult(p, result)
  /\ UNCHANGED <<workerVars, vendorVars, deskVars>>

-----------------------------------------------------------------------------
(* Reconciler, operator and void requests.                                 *)

\* Mutant: the sweep looks at the wrong status.
ListStalePending ==
  /\ sweep = {}
  /\ \E rows \in SUBSET {p \in Payment : submission[p] = "pending"} :
       /\ rows # {}
       /\ sweep' = rows
  /\ UNCHANGED <<dbVars, workerVars, vendorVars, desk, voiding, lossVars>>

\* Reconciler.RunOnce lists rows that have been submitted for long.
ListStaleSubmitted ==
  /\ sweep = {}
  /\ \E rows \in SUBSET {p \in Payment : submission[p] = "submitted"} :
       /\ rows # {}
       /\ sweep' = rows
  /\ UNCHANGED <<dbVars, workerVars, vendorVars, desk, voiding, lossVars>>

\* Reconciler.expire, in a transaction of its own after the listing; off by default.
ReconcilerExpire(p) ==
  /\ AutoExpire
  /\ p \in sweep
  /\ OnFiscalResult(p, "expired")
  /\ sweep' = sweep \ {p}
  /\ UNCHANGED <<workerVars, vendorVars, desk, voiding>>

\* A listed row that is not past the vendor's basket lifetime, and every one unless
\* AutoExpire is on, is only warned of.
ReconcilerWarn(p) ==
  /\ p \in sweep
  /\ sweep' = sweep \ {p}
  /\ UNCHANGED <<dbVars, workerVars, vendorVars, desk, voiding, lossVars>>

SetDesk(p, to) == desk' = [desk EXCEPT ![p] = to]

\* ExpireSubmission reads the row and refuses one that is already resolved.
ExpireCheck(p) ==
  /\ desk[p] = "idle"
  /\ submission[p] # "none"
  /\ IF submission[p] \in {"pending", "submitted"} THEN SetDesk(p, "checked")
                                                   ELSE SetDesk(p, "conflict")
  /\ UNCHANGED <<dbVars, workerVars, vendorVars, sweep, voiding, lossVars>>

\* Mutant: the row is expired without going through the sink.
ExpireWriteBypassingSink(p) ==
  /\ desk[p] = "checked"
  /\ submission' = [submission EXCEPT ![p] = IF @ \in {"pending", "submitted"}
                                             THEN "expired" ELSE @]
  /\ SetDesk(p, "written")
  /\ UNCHANGED <<payment, retryCount, gate, corrupt, receipts, completedEvents, voidedEvents,
                 workerVars, vendorVars, sweep, voiding, lossVars>>

ExpireWrite(p) ==
  /\ desk[p] = "checked"
  /\ OnFiscalResult(p, "expired")
  /\ SetDesk(p, "written")
  /\ UNCHANGED <<workerVars, vendorVars, sweep, voiding>>

\* Mutant: success is reported without reading the row again.
ExpireAnswerBlindly(p) ==
  /\ desk[p] = "written"
  /\ SetDesk(p, "expired")
  /\ UNCHANGED <<dbVars, workerVars, vendorVars, sweep, voiding, lossVars>>

\* The sink swallows a lost race, so ExpireSubmission reads the row again.
ExpireAnswer(p) ==
  /\ desk[p] = "written"
  /\ IF submission[p] = "expired" THEN SetDesk(p, "expired") ELSE SetDesk(p, "conflict")
  /\ UNCHANGED <<dbVars, workerVars, vendorVars, sweep, voiding, lossVars>>

\* VoidSale reads the submission; only a completed one goes to the adapter.
VoidCheck(p) ==
  /\ submission[p] = "completed"
  /\ voiding' = voiding \cup {p}
  /\ UNCHANGED <<dbVars, workerVars, vendorVars, sweep, desk, lossVars>>

\* adapter.VoidSale: an asynchronous vendor takes the request, a synchronous
\* device voids, refuses or fails.
VoidSale(p) ==
  /\ p \in voiding
  /\ voiding' = voiding \ {p}
  /\ \/ /\ ~Sync
        /\ voidAsked' = voidAsked \cup {p}
        /\ UNCHANGED <<dbVars, lossVars>>
     \/ /\ Sync
        /\ OnFiscalResult(p, "voided")
        /\ UNCHANGED voidAsked
     \/ UNCHANGED <<dbVars, voidAsked, lossVars>>
  /\ UNCHANGED <<workerVars, reached, answered, printed, webhooks, sweep, desk>>

-----------------------------------------------------------------------------
WorkerStep(w, p) ==
  \/ SubmitAccepted(w, p)
  \/ SubmitErrored(w, p)
  \/ SubmitAnswered(w, p)
  \/ MarkSubmitted(w, p)
  \/ ApplySyncResult(w, p)
  \/ MarkRetry(w, p)
  \/ FinalizeFailure(w, p)
  \/ FinalizeCorrupt(w, p)

VendorStep(p) == DevicePrints(p) \/ DeviceRefuses(p) \/ DeviceVoids(p)

DeskStep(p) ==
  \/ ReconcilerExpire(p)
  \/ ReconcilerWarn(p)
  \/ ExpireCheck(p)
  \/ ExpireWrite(p)
  \/ ExpireAnswer(p)
  \/ VoidCheck(p)
  \/ VoidSale(p)

Next ==
  \/ \E p \in Payment :
       \/ EnqueueSale(p)
       \/ VendorStep(p)
       \/ Webhook(p)
       \/ DeskStep(p)
       \/ ClaimExpires(p)
       \/ ClaimOverlaps(p)
       \/ BackoffElapses(p)
  \/ \E w \in Worker :
       \/ ClaimPending(w)
       \/ StopWorker(w)
       \/ \E p \in Payment : WorkerStep(w, p) \/ LoseWrite(w, p)
  \/ ListStaleSubmitted

Spec == Init /\ [][Next]_vars

\* Every worker process polls on a ticker, every started call ends (SubmitSale
\* has a timeout), and time passes.  The reconciler sweeps on a ticker and a row
\* outlives the vendor's basket lifetime at last.  Nothing is assumed of the
\* vendor, the webhook, the operator or the faults.
Fairness ==
  /\ \A w \in Worker : WF_vars(ClaimPending(w))
  /\ \A w \in Worker, p \in Payment : WF_vars(WorkerStep(w, p))
  /\ \A p \in Payment : WF_vars(ClaimExpires(p)) /\ WF_vars(BackoffElapses(p))
  /\ \A p \in Payment :
       /\ WF_vars(ListStaleSubmitted /\ p \in sweep')
       /\ SF_vars(ReconcilerExpire(p))

FairSpec == Spec /\ Fairness

-----------------------------------------------------------------------------
(* Properties.                                                             *)

Unresolved == {"pending", "submitted"}

\* payments.status and fiscal_submissions.status always tell the same story,
\* whoever resolved the row and in whatever order the results came in.
StatusesAgree ==
  \A p \in Payment :
    /\ payment[p] = "none" <=> submission[p] = "none"
    /\ payment[p] = "pending" <=> submission[p] \in Unresolved
    /\ payment[p] = "completed" <=> submission[p] = "completed"
    /\ payment[p] = "failed" <=> submission[p] \in {"failed", "expired"}
    /\ payment[p] = "voided" <=> submission[p] = "voided"

\* applyCompleted and applyVoided ran at most once per payment: a completed
\* payment has exactly one receipt and one payment.completed event, a voided one
\* exactly one payment.voided event, a pending or failed one has none.
BooksAgree ==
  \A p \in Payment :
    /\ receipts[p] = completedEvents[p]
    /\ receipts[p] <= 1
    /\ payment[p] = "completed" => receipts[p] = 1
    /\ payment[p] \in {"none", "pending", "failed"} => receipts[p] = 0
    /\ voidedEvents[p] = IF payment[p] = "voided" THEN 1 ELSE 0

\* A receipt the books know was printed by the device: no fault, retry or race
\* makes OnFiscalResult record a registration that did not take place.
RecordedReceiptsWerePrinted ==
  \A p \in Payment : receipts[p] > 0 => printed[p] > 0

\* The books are consistent with each other and with the paper: every completed
\* payment has its one receipt and event, and the device did print it.
BooksAreTrue == BooksAgree /\ RecordedReceiptsWerePrinted

\* While no claim goes stale under a working worker, a submission is in the
\* batch of at most one worker (ClaimPending with SKIP LOCKED and claimed_at).
ClaimsAreExclusive ==
  \A p \in Payment, v, w \in Worker :
    overlaps[p] = 0 /\ task[v][p] # "none" /\ task[w][p] # "none" => v = w

\* While claims are exclusive, every SubmitSale call after the first is paid for
\* by one recorded submit error or one lost bookkeeping write, so a basket is
\* posted at most MaxRetries + 1 times plus the faults.
RepostsAreAccountedFor ==
  \A p \in Payment :
    overlaps[p] = 0 => /\ posts[p] <= retryCount[p] + 1 + abandons[p]
                       /\ retryCount[p] <= MaxRetries

\* Within one process a terminal never has two baskets in flight (RunOnce's
\* barrier and shardByTerminal).
OneBasketPerTerminal ==
  \A w \in Worker : \A p, q \in Payment :
    task[w][p] \in InFlight /\ task[w][q] \in InFlight /\ TerminalOf[p] = TerminalOf[q]
      => p = q

\* ExpireSubmission answers success only for a row that is expired, its payment
\* failed; it reports a conflict only for a row somebody else resolved.
OperatorAnswerIsTrue ==
  \A p \in Payment :
    /\ desk[p] = "expired" => submission[p] = "expired" /\ payment[p] = "failed"
    /\ desk[p] = "conflict" => submission[p] \notin Unresolved

\* MarkResult's gate: a resolved submission changes only by a void of a
\* completed one, so a late or repeated result never rewrites an outcome.
ResolvedIsFinal ==
  [][\A p \in Payment :
       submission[p] \notin (Unresolved \cup {"none"}) /\ submission'[p] # submission[p]
         => submission[p] = "completed" /\ submission'[p] = "voided"]_vars

\* The pipeline implements the promise of Registration: seen through payments,
\* fiscal_receipts and the outbox, every step of worker, webhook, reconciler and
\* operator is one registration step or none.
Promise == INSTANCE Registration WITH
  status <- payment, completed <- completedEvents, voided <- voidedEvents

ImplementsRegistration == Promise!Spec

\* A receipt is on paper and its row was closed without one.
Unrecorded(p) == printed[p] > 0 /\ receipts[p] = 0 /\ submission[p] \notin Unresolved

\* Whatever becomes of the news of a printed receipt (a webhook that never comes, a
\* submit that errors after the paper, a lost write), the books close without it only
\* where somebody expired the row or the basket was posted more than once; and a
\* "completed" that the sink has to drop is announced by warnIfLostAfterExpire, unless
\* the basket was posted more than once.
LostReceiptsAreExplained ==
  \A p \in Payment :
    /\ Unrecorded(p) => submission[p] = "expired" \/ posts[p] > 1
    /\ p \in dropped => p \in alarms \/ posts[p] > 1

\* Every registered sale comes to an end, whatever crashes and lost writes come between:
\* an answer, the exhausted retry budget or the reconciler resolves it.  With AutoExpire
\* off, the default, the code promises less: once the vendor has accepted the basket, a
\* sale whose result never comes stays pending until an operator expires it.
EverySaleIsResolved ==
  \A p \in Payment :
    payment[p] = "pending" ~>
      payment[p] # "pending" \/ (~AutoExpire /\ submission[p] = "submitted")
=============================================================================
