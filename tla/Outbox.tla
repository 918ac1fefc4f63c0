------------------------------- MODULE Outbox -------------------------------
(***************************************************************************)
(* The transactional outbox dispatcher (platform/outbox) over one outbox   *)
(* table.  A module inserts an event in its own transaction; dispatchers   *)
(* of any number of processes claim batches, publish every row of a batch  *)
(* outside any transaction, and write all the results in a second short    *)
(* transaction.  A dispatcher that dies in between leaves its rows claimed *)
(* until the claim is stale.  JetStream drops a message whose Nats-Msg-Id  *)
(* it has stored within its deduplication window.                          *)
(*                                                                         *)
(* Every action is one transaction or one call to the broker.  Time is     *)
(* counted in ticks, since StaleClaimAfter and the window are compared.    *)
(***************************************************************************)
EXTENDS Naturals, FiniteSets

CONSTANTS
  Event,            \* rows of the table, by event_id
  Dispatcher,       \* processes running a Dispatcher
  BatchSize,        \* Config.BatchSize
  MaxRetries,       \* Config.MaxRetries
  StaleClaimAfter,  \* Config.StaleClaimAfter, in ticks
  Window,           \* the stream's deduplication window, in ticks
  MaxFaults         \* bound: dead cycles, lost acknowledgements and overlapping claims in all

ASSUME OutboxAssumption ==
  /\ {BatchSize, StaleClaimAfter, Window} \subseteq Nat \ {0}
  /\ {MaxRetries, MaxFaults} \subseteq Nat

VARIABLES
  inserted,    \* rows that exist
  processed,   \* rows with processed_at
  dead,        \* rows with is_dead
  backoff,     \* rows whose next_retry_at is ahead
  retryCount,  \* retry_count
  claimAge,    \* ticks since claimed_at; StaleClaimAfter when NULL or older
  task,        \* what each dispatcher has done with each row of its batch
  snapshot,    \* the retry_count a dispatcher read when it claimed the row
  stored,      \* external: copies of the event in the stream
  fresh,       \* external: ticks the broker still remembers the event's id
  attempts,    \* history: publish calls, counted up to MaxRetries + 1
  abandons, lostAcks, overlaps,  \* history: the faults each event met
  faults       \* history: the faults there were

rowVars     == <<inserted, processed, dead, backoff, retryCount, claimAge>>
brokerVars  == <<stored, fresh>>
cycleVars   == <<task, snapshot>>
faultVars   == <<abandons, lostAcks, overlaps, faults>>
vars == <<rowVars, brokerVars, cycleVars, faultVars, attempts>>

-----------------------------------------------------------------------------
\* A claimed row waits for its publish, which succeeds or fails.
Phase == {"none", "queued", "sent", "failed"}

\* Every column is well typed, and no row is claimed once its retry budget is spent.
TypeOK ==
  /\ inserted \subseteq Event /\ processed \subseteq Event /\ dead \subseteq Event
  /\ backoff \subseteq Event
  /\ retryCount \in [Event -> 0 .. MaxRetries + 1]
  /\ claimAge \in [Event -> 0 .. StaleClaimAfter]
  /\ task \in [Dispatcher -> [Event -> Phase]]
  /\ snapshot \in [Dispatcher -> [Event -> 0 .. MaxRetries]]
  /\ stored \in [Event -> Nat]
  /\ fresh \in [Event -> 0 .. Window]
  /\ attempts \in [Event -> Nat]
  /\ abandons \in [Event -> Nat]
  /\ lostAcks \in [Event -> Nat]
  /\ overlaps \in [Event -> Nat]
  /\ faults \in 0 .. MaxFaults

Init ==
  /\ inserted = {} /\ processed = {} /\ dead = {} /\ backoff = {}
  /\ retryCount = [e \in Event |-> 0]
  /\ claimAge = [e \in Event |-> StaleClaimAfter]
  /\ task = [d \in Dispatcher |-> [e \in Event |-> "none"]]
  /\ snapshot = [d \in Dispatcher |-> [e \in Event |-> 0]]
  /\ stored = [e \in Event |-> 0]
  /\ fresh = [e \in Event |-> 0]
  /\ attempts = [e \in Event |-> 0]
  /\ abandons = [e \in Event |-> 0]
  /\ lostAcks = [e \in Event |-> 0]
  /\ overlaps = [e \in Event |-> 0]
  /\ faults = 0

-----------------------------------------------------------------------------
\* InsertOutbox, in the transaction of the change it announces.
InsertOutbox(e) ==
  /\ e \notin inserted
  /\ inserted' = inserted \cup {e}
  /\ UNCHANGED <<processed, dead, backoff, retryCount, claimAge, brokerVars, cycleVars,
                 faultVars, attempts>>

\* One of the faults the bound allows.
AnotherFault == faults < MaxFaults /\ faults' = faults + 1

Held(e) == \E d \in Dispatcher : task[d][e] # "none"

Batch(d) == {e \in Event : task[d][e] # "none"}

\* Mutant: is_dead is not looked at.
ClaimableDead == {e \in inserted \ (processed \cup backoff) : claimAge[e] = StaleClaimAfter}

\* Mutant: processed_at is not looked at.
ClaimableProcessed == {e \in inserted \ (dead \cup backoff) : claimAge[e] = StaleClaimAfter}

\* Mutant: the claim a dead process left behind never counts as stale.
ClaimableNeverStale ==
  {e \in inserted \ (processed \cup dead \cup backoff) :
     claimAge[e] = StaleClaimAfter /\ abandons[e] = 0}

\* The WHERE clause of claimBatch.
Claimable ==
  {e \in inserted \ (processed \cup dead \cup backoff) : claimAge[e] = StaleClaimAfter}

\* claimBatch, once the dispatcher has finished its last cycle.  SKIP LOCKED passes
\* over rows another transaction holds, so any part of the eligible rows may come back.
ClaimBatch(d) ==
  /\ Batch(d) = {}
  /\ \E batch \in SUBSET Claimable :
       /\ batch # {}
       /\ Cardinality(batch) <= BatchSize
       /\ IF \E e \in batch : Held(e) THEN AnotherFault ELSE UNCHANGED faults
       /\ claimAge' = [e \in Event |-> IF e \in batch THEN 0 ELSE claimAge[e]]
       /\ task' = [task EXCEPT ![d] = [e \in Event |-> IF e \in batch THEN "queued" ELSE "none"]]
       /\ snapshot' = [snapshot EXCEPT ![d] =
                         [e \in Event |-> IF e \in batch THEN retryCount[e] ELSE @[e]]]
       /\ overlaps' = [e \in Event |-> IF e \in batch /\ Held(e) THEN overlaps[e] + 1
                                                                 ELSE overlaps[e]]
  /\ UNCHANGED <<inserted, processed, dead, backoff, retryCount, brokerVars, abandons,
                 lostAcks, attempts>>

\* JetStream stores a message unless it remembers its id.
Store(e) ==
  IF fresh[e] > 0
  THEN UNCHANGED brokerVars
  ELSE /\ stored' = [stored EXCEPT ![e] = @ + 1]
       /\ fresh' = [fresh EXCEPT ![e] = Window]

Publishing(d, e, outcome) ==
  /\ task[d][e] = "queued"
  /\ task' = [task EXCEPT ![d][e] = outcome]
  /\ attempts' = [attempts EXCEPT ![e] = IF @ > MaxRetries THEN @ ELSE @ + 1]
  /\ UNCHANGED <<rowVars, snapshot, abandons, overlaps>>

\* publishWithTimeout, row after row.  ORDER BY aggregate_id, event_id with random
\* event ids: the rows of an aggregate come in any order.
Publish(d, e) ==
  /\ Publishing(d, e, "sent")
  /\ Store(e)
  /\ UNCHANGED <<lostAcks, faults>>

\* Mutant: the error of a publish is dropped.
PublishFailsUnnoticed(d, e) ==
  /\ Publishing(d, e, "sent")
  /\ UNCHANGED <<brokerVars, lostAcks, faults>>

\* The publish fails or times out; the broker may have stored the message.
PublishFails(d, e) ==
  /\ Publishing(d, e, "failed")
  /\ \/ UNCHANGED <<brokerVars, lostAcks, faults>>
     \/ /\ AnotherFault
        /\ Store(e)
        /\ lostAcks' = [lostAcks EXCEPT ![e] = @ + 1]

\* The batch of a cycle goes with it.
Forget(d) ==
  /\ task' = [task EXCEPT ![d] = [e \in Event |-> "none"]]
  /\ snapshot' = [snapshot EXCEPT ![d] = [e \in Event |-> 0]]

\* The failures whose retry budget is spent.
Exhausted(d) == {e \in Event : task[d][e] = "failed" /\ snapshot[d][e] + 1 > MaxRetries}

\* applyResults: successes are marked, failures give their claim back; neither UPDATE
\* looks at what the row has become since the claim.
ApplyResults(d) ==
  LET sent   == {e \in Event : task[d][e] = "sent"}
      failed == {e \in Event : task[d][e] = "failed"}
  IN /\ Batch(d) # {}
     /\ Batch(d) = sent \cup failed
     /\ processed' = processed \cup sent
     /\ retryCount' = [e \in Event |-> IF e \in failed THEN snapshot[d][e] + 1
                                                       ELSE retryCount[e]]
     /\ dead' = (dead \ failed) \cup Exhausted(d)
     /\ backoff' = backoff \cup failed
     /\ claimAge' = [e \in Event |-> IF e \in failed THEN StaleClaimAfter ELSE claimAge[e]]
     /\ Forget(d)
     /\ UNCHANGED <<inserted, brokerVars, faultVars, attempts>>

\* The process stops or dies, or the results transaction fails: nothing is written.
Abandon(d) ==
  /\ Batch(d) # {}
  /\ AnotherFault
  /\ abandons' = [e \in Event |-> IF e \in Batch(d) THEN abandons[e] + 1 ELSE abandons[e]]
  /\ Forget(d)
  /\ UNCHANGED <<rowVars, brokerVars, lostAcks, overlaps, attempts>>

\* retryBackoff passes.
BackoffElapses(e) ==
  /\ e \in backoff
  /\ backoff' = backoff \ {e}
  /\ UNCHANGED <<inserted, processed, dead, retryCount, claimAge, brokerVars, cycleVars,
                 faultVars, attempts>>

\* Time passes: claims grow old and the broker forgets ids.
Tick ==
  /\ \E e \in Event : claimAge[e] < StaleClaimAfter \/ fresh[e] > 0
  /\ claimAge' = [e \in Event |-> IF claimAge[e] < StaleClaimAfter THEN claimAge[e] + 1
                                                                   ELSE StaleClaimAfter]
  /\ fresh' = [e \in Event |-> IF fresh[e] > 0 THEN fresh[e] - 1 ELSE 0]
  /\ UNCHANGED <<inserted, processed, dead, backoff, retryCount, stored, cycleVars,
                 faultVars, attempts>>

-----------------------------------------------------------------------------
\* The next step of a running dispatch cycle.
Dispatch(d) ==
  \/ ClaimBatch(d)
  \/ \E e \in Event : Publish(d, e) \/ PublishFails(d, e)
  \/ ApplyResults(d)

Next ==
  \/ \E e \in Event : InsertOutbox(e) \/ BackoffElapses(e)
  \/ \E d \in Dispatcher : Dispatch(d) \/ Abandon(d)
  \/ Tick

Spec == Init /\ [][Next]_vars

\* Every dispatcher polls on a ticker and takes the steps of its cycle one by one: a
\* publish call has a timeout, a transaction ends.  Time passes.  The broker may
\* refuse every publish.
Fairness ==
  /\ \A d \in Dispatcher : WF_vars(Dispatch(d))
  /\ \A e \in Event : WF_vars(BackoffElapses(e))
  /\ WF_vars(Tick)

FairSpec == Spec /\ Fairness

-----------------------------------------------------------------------------
(* Properties.                                                             *)

\* A row is marked processed only if the broker has the event, whoever published it
\* and whichever cycle wrote the result.
ProcessedWereStored == \A e \in processed : stored[e] > 0

\* An event is given up only after MaxRetries + 1 publish calls, crashes and
\* overlapping claims included.
DeadWereTried == \A e \in dead : attempts[e] > MaxRetries

\* What the dispatchers write about an event is what happened to it.
VerdictsAreTrue == ProcessedWereStored /\ DeadWereTried

\* While no claim is taken over from a dispatcher that still works on the row, the
\* stream holds an event once, plus once for each cycle that died before its results
\* and each acknowledgement that was lost.
DuplicatesAreAccountedFor ==
  \A e \in Event : overlaps[e] = 0 => stored[e] <= 1 + abandons[e] + lostAcks[e]

\* While claims do not overlap, a processed or dead row is never written again: it
\* stays what it is, though applyResults does not look at the row it updates.
ResolvedRowsStay ==
  [][\A e \in processed \cup dead :
       overlaps[e] = 0 =>
         /\ e \in processed <=> e \in processed'
         /\ e \in dead <=> e \in dead'
         /\ retryCount'[e] = retryCount[e]]_vars

\* Every event is delivered or, when the broker refuses it for long enough, given up
\* as dead: none stays behind, whatever dies on the way.
EveryEventIsResolved ==
  \A e \in Event : e \in inserted ~> e \in processed \cup dead
=============================================================================
