---------------------------- MODULE OutboxProofs ----------------------------
(***************************************************************************)
(* Proofs about Outbox for any number of events, dispatchers and retries,  *)
(* any batch size, and any lengths of StaleClaimAfter and of the window.   *)
(***************************************************************************)
EXTENDS Outbox, TLAPS

\* Only dead rows have spent their budget: retry_count and is_dead are written
\* together, so the claim's is_dead condition bounds what a dispatcher reads.
SpentAreDead == \A e \in Event : retryCount[e] > MaxRetries => e \in dead

TypeInv == TypeOK /\ SpentAreDead

\* Storing a message keeps the broker's state well typed.
LEMMA StoreKeepsTypes ==
  ASSUME TypeOK, NEW e \in Event, Store(e) \/ UNCHANGED brokerVars
  PROVE  /\ stored' \in [Event -> Nat]
         /\ fresh' \in [Event -> 0 .. Window]
<1>1. CASE UNCHANGED brokerVars
  BY <1>1 DEF TypeOK, brokerVars
<1>2. CASE Store(e) /\ ~(UNCHANGED brokerVars)
  <2>1. /\ stored' = [stored EXCEPT ![e] = @ + 1]
        /\ fresh' = [fresh EXCEPT ![e] = Window]
    BY <1>2 DEF Store
  <2> QED
    BY <2>1, OutboxAssumption DEF TypeOK
<1> QED
  BY <1>1, <1>2

\* No step leaves the types, or revives a spent row without its budget.
LEMMA NextKeepsTypes ==
  ASSUME TypeInv, [Next]_vars
  PROVE  TypeInv'
<1> USE OutboxAssumption
<1>1. ASSUME NEW e \in Event, InsertOutbox(e)
      PROVE  TypeInv'
  BY <1>1 DEF InsertOutbox, TypeInv, TypeOK, SpentAreDead, brokerVars, cycleVars, faultVars
<1>2. ASSUME NEW e \in Event, BackoffElapses(e)
      PROVE  TypeInv'
  BY <1>2 DEF BackoffElapses, TypeInv, TypeOK, SpentAreDead, brokerVars, cycleVars, faultVars
<1>3. ASSUME NEW d \in Dispatcher, ClaimBatch(d)
      PROVE  TypeInv'
  <2>1. PICK batch \in SUBSET Claimable :
          /\ claimAge' = [e \in Event |-> IF e \in batch THEN 0 ELSE claimAge[e]]
          /\ task' = [task EXCEPT ![d] =
                        [e \in Event |-> IF e \in batch THEN "queued" ELSE "none"]]
          /\ snapshot' = [snapshot EXCEPT ![d] =
                            [e \in Event |-> IF e \in batch THEN retryCount[e] ELSE @[e]]]
          /\ overlaps' = [e \in Event |-> IF e \in batch /\ Held(e) THEN overlaps[e] + 1
                                                                    ELSE overlaps[e]]
    BY <1>3 DEF ClaimBatch
  <2>0. faults' \in 0 .. MaxFaults
    BY <1>3 DEF ClaimBatch, AnotherFault, TypeInv, TypeOK
  <2>2. \A e \in batch : retryCount[e] \in 0 .. MaxRetries
    BY <2>1 DEF Claimable, TypeInv, TypeOK, SpentAreDead
  <2>3. snapshot' \in [Dispatcher -> [Event -> 0 .. MaxRetries]]
    BY <2>1, <2>2 DEF TypeInv, TypeOK
  <2>4. task' \in [Dispatcher -> [Event -> Phase]]
    BY <2>1 DEF TypeInv, TypeOK, Phase
  <2>5. claimAge' \in [Event -> 0 .. StaleClaimAfter] /\ overlaps' \in [Event -> Nat]
    BY <2>1 DEF TypeInv, TypeOK
  <2> QED
    BY <1>3, <2>0, <2>3, <2>4, <2>5 DEF ClaimBatch, TypeInv, TypeOK, SpentAreDead, brokerVars
<1>4. ASSUME NEW d \in Dispatcher, NEW e \in Event, Publish(d, e) \/ PublishFails(d, e)
      PROVE  TypeInv'
  <2>1. Store(e) \/ UNCHANGED brokerVars
    BY <1>4 DEF Publish, PublishFails
  <2>2. PICK outcome \in {"sent", "failed"} : Publishing(d, e, outcome)
    BY <1>4 DEF Publish, PublishFails
  <2>3. lostAcks' \in [Event -> Nat] /\ faults' \in 0 .. MaxFaults
    <3>1. CASE UNCHANGED <<lostAcks, faults>>
      BY <3>1 DEF TypeInv, TypeOK
    <3>2. CASE AnotherFault /\ lostAcks' = [lostAcks EXCEPT ![e] = @ + 1]
      BY <3>2 DEF AnotherFault, TypeInv, TypeOK
    <3> QED
      BY <1>4, <3>1, <3>2 DEF Publish, PublishFails
  <2>4. task' \in [Dispatcher -> [Event -> Phase]] /\ attempts' \in [Event -> Nat]
    BY <2>2 DEF Publishing, TypeInv, TypeOK, Phase
  <2> QED
    BY <2>1, <2>2, <2>3, <2>4, StoreKeepsTypes DEF Publishing, TypeInv, TypeOK, SpentAreDead,
                                                   rowVars
<1>5. ASSUME NEW d \in Dispatcher, ApplyResults(d)
      PROVE  TypeInv'
  <2>1. /\ task' \in [Dispatcher -> [Event -> Phase]]
        /\ snapshot' \in [Dispatcher -> [Event -> 0 .. MaxRetries]]
    BY <1>5 DEF ApplyResults, Forget, TypeInv, TypeOK, Phase
  <2>2. retryCount' \in [Event -> 0 .. MaxRetries + 1]
    BY <1>5 DEF ApplyResults, TypeInv, TypeOK
  <2>3. SpentAreDead'
    BY <1>5 DEF ApplyResults, Exhausted, TypeInv, TypeOK, SpentAreDead
  <2> QED
    BY <1>5, <2>1, <2>2, <2>3 DEF ApplyResults, Exhausted, TypeInv, TypeOK, brokerVars, faultVars
<1>6. ASSUME NEW d \in Dispatcher, Abandon(d)
      PROVE  TypeInv'
  <2>1. /\ task' \in [Dispatcher -> [Event -> Phase]]
        /\ snapshot' \in [Dispatcher -> [Event -> 0 .. MaxRetries]]
    BY <1>6 DEF Abandon, Forget, TypeInv, TypeOK, Phase
  <2>2. faults' \in 0 .. MaxFaults
    BY <1>6 DEF Abandon, AnotherFault, TypeInv, TypeOK
  <2> QED
    BY <1>6, <2>1, <2>2 DEF Abandon, TypeInv, TypeOK, SpentAreDead, rowVars, brokerVars
<1>7. ASSUME Tick
      PROVE  TypeInv'
  BY <1>7 DEF Tick, TypeInv, TypeOK, SpentAreDead, cycleVars, faultVars
<1>8. CASE UNCHANGED vars
  BY <1>8 DEF vars, rowVars, brokerVars, cycleVars, faultVars, TypeInv, TypeOK, SpentAreDead
<1> QED
  BY <1>1, <1>2, <1>3, <1>4, <1>5, <1>6, <1>7, <1>8 DEF Next, Dispatch

\* So they hold in every reachable state.
LEMMA TypesAreInvariant == Spec => []TypeInv
<1>1. Init => TypeInv
  BY OutboxAssumption DEF Init, TypeInv, TypeOK, SpentAreDead, Phase
<1> QED
  BY <1>1, NextKeepsTypes, PTL DEF Spec

\* Every reachable state is well typed and no dispatcher holds a row whose budget was
\* spent when it claimed it, overlapping claims included.
THEOREM TypeCorrect == Spec => []TypeOK
<1>1. TypeInv => TypeOK
  BY DEF TypeInv
<1> QED
  BY <1>1, TypesAreInvariant, PTL

-----------------------------------------------------------------------------
(* What each row and each claim remember of the broker.                    *)

\* What is known of a row whatever the claims: a count of retries, written or about to
\* be written, is never ahead of the publish calls, and what is marked or about to be
\* marked processed is in the stream.
Ledger(e) ==
  /\ retryCount[e] <= attempts[e]
  /\ e \in dead => attempts[e] > MaxRetries
  /\ e \in processed => stored[e] > 0
  /\ fresh[e] > 0 => stored[e] > 0
  /\ \A d \in Dispatcher :
       /\ task[d][e] # "none" => snapshot[d][e] <= attempts[e]
       /\ task[d][e] = "failed" => snapshot[d][e] < attempts[e]
       /\ task[d][e] = "sent" => stored[e] > 0

\* A copy in the stream that no fault accounts for is marked, or about to be.
Settled(e) == e \in processed \/ \E d \in Dispatcher : task[d][e] = "sent"

\* What is known while claims do not overlap: one holder, of an unresolved row, and the
\* copies in the stream.
Claims(e) ==
  /\ \A c, d \in Dispatcher : task[c][e] # "none" /\ task[d][e] # "none" => c = d
  /\ Held(e) => e \notin processed \cup dead
  /\ stored[e] <= abandons[e] + lostAcks[e] + (IF Settled(e) THEN 1 ELSE 0)

RowInv == \A e \in Event : Ledger(e) /\ (overlaps[e] = 0 => Claims(e))

\* Nothing that concerns a row has changed, but the broker may have forgotten its id.
Untouched(e) ==
  /\ \A d \in Dispatcher :
       /\ task'[d][e] = task[d][e]
       /\ task[d][e] # "none" => snapshot'[d][e] = snapshot[d][e]
  /\ retryCount'[e] = retryCount[e] /\ attempts'[e] = attempts[e]
  /\ e \in dead' <=> e \in dead
  /\ e \in processed' <=> e \in processed
  /\ stored'[e] = stored[e] /\ (fresh'[e] > 0 => fresh[e] > 0)
  /\ abandons'[e] = abandons[e] /\ lostAcks'[e] = lostAcks[e] /\ overlaps'[e] = overlaps[e]

\* Then what is known of the row is still known.
LEMMA UntouchedRow ==
  ASSUME NEW e \in Event, Ledger(e), overlaps[e] = 0 => Claims(e), Untouched(e)
  PROVE  Ledger(e)' /\ (overlaps'[e] = 0 => Claims(e)')
<1>1. Ledger(e)'
  BY DEF Ledger, Untouched
<1>2. (Held(e) <=> Held(e)') /\ (Settled(e) <=> Settled(e)')
  BY DEF Held, Settled, Untouched
<1>3. ASSUME overlaps[e] = 0
      PROVE  Claims(e)'
  BY <1>2, <1>3 DEF Claims, Untouched
<1> QED
  BY <1>1, <1>3 DEF Untouched

\* Every step keeps what is known of every row.
LEMMA NextKeepsRows ==
  ASSUME TypeInv, RowInv, [Next]_vars, NEW e \in Event
  PROVE  Ledger(e)' /\ (overlaps'[e] = 0 => Claims(e)')
<1> USE OutboxAssumption
<1>0. Ledger(e) /\ (overlaps[e] = 0 => Claims(e))
  BY DEF RowInv
<1>1. CASE Untouched(e)
  BY <1>0, <1>1, UntouchedRow
<1>2. ASSUME NEW f \in Event, InsertOutbox(f) \/ BackoffElapses(f)
      PROVE  Untouched(e)
  BY <1>2 DEF InsertOutbox, BackoffElapses, Untouched, brokerVars, cycleVars, faultVars
<1>3. ASSUME Tick
      PROVE  Untouched(e)
  BY <1>3 DEF Tick, Untouched, cycleVars, faultVars
<1>4. CASE UNCHANGED vars
  BY <1>1, <1>4 DEF vars, rowVars, brokerVars, cycleVars, faultVars, Untouched
<1>5. ASSUME NEW d \in Dispatcher, ClaimBatch(d)
      PROVE  Ledger(e)' /\ (overlaps'[e] = 0 => Claims(e)')
  <2>1. PICK batch \in SUBSET Claimable :
          /\ task' = [task EXCEPT ![d] =
                        [f \in Event |-> IF f \in batch THEN "queued" ELSE "none"]]
          /\ snapshot' = [snapshot EXCEPT ![d] =
                            [f \in Event |-> IF f \in batch THEN retryCount[f] ELSE @[f]]]
          /\ overlaps' = [f \in Event |-> IF f \in batch /\ Held(f) THEN overlaps[f] + 1
                                                                    ELSE overlaps[f]]
    BY <1>5 DEF ClaimBatch
  <2>2. /\ task[d][e] = "none"
        /\ UNCHANGED <<processed, dead, retryCount, stored, fresh, attempts, abandons, lostAcks>>
    BY <1>5 DEF ClaimBatch, Batch, brokerVars
  <2>3. CASE e \notin batch
    BY <1>1, <2>1, <2>2, <2>3 DEF Untouched, TypeInv, TypeOK
  <2>4. CASE e \in batch
    <3>1. /\ task'[d][e] = "queued" /\ snapshot'[d][e] = retryCount[e]
          /\ \A c \in Dispatcher \ {d} : /\ task'[c][e] = task[c][e]
                                          /\ snapshot'[c][e] = snapshot[c][e]
      BY <2>1, <2>4 DEF TypeInv, TypeOK
    <3>2. Ledger(e)'
      BY <1>0, <2>2, <3>1 DEF Ledger
    <3>3. ASSUME overlaps'[e] = 0
          PROVE  Claims(e)'
      <4>1. overlaps[e] = 0 /\ ~Held(e)
        BY <2>1, <2>4, <3>3 DEF TypeInv, TypeOK
      <4>2. e \notin processed \cup dead
        BY <2>4 DEF Claimable
      <4>3. ~Settled(e) /\ ~Settled(e)'
        BY <2>2, <3>1, <4>1, <4>2 DEF Settled, Held
      <4> QED
        BY <1>0, <2>2, <3>1, <4>1, <4>2, <4>3 DEF Claims, Held
    <3> QED
      BY <3>2, <3>3
  <2> QED
    BY <2>3, <2>4
<1>6. ASSUME NEW d \in Dispatcher, NEW f \in Event, Publish(d, f) \/ PublishFails(d, f)
      PROVE  Ledger(e)' /\ (overlaps'[e] = 0 => Claims(e)')
  <2>1. PICK outcome \in {"sent", "failed"} :
          /\ Publishing(d, f, outcome)
          /\ outcome = "sent" => Store(f) /\ lostAcks' = lostAcks
          /\ outcome = "failed" =>
               \/ UNCHANGED <<brokerVars, lostAcks>>
               \/ Store(f) /\ lostAcks' = [lostAcks EXCEPT ![f] = @ + 1]
    BY <1>6 DEF Publish, PublishFails
  <2>2. \/ UNCHANGED <<stored, fresh>> /\ (outcome = "sent" => fresh[f] > 0)
        \/ /\ stored' = [stored EXCEPT ![f] = @ + 1]
           /\ fresh' = [fresh EXCEPT ![f] = Window]
    BY <2>1 DEF Store, brokerVars
  <2>3. /\ task[d][f] = "queued"
        /\ task' = [task EXCEPT ![d][f] = outcome]
        /\ attempts' = [attempts EXCEPT ![f] = IF @ > MaxRetries THEN @ ELSE @ + 1]
        /\ UNCHANGED <<processed, dead, retryCount, snapshot, abandons, overlaps>>
    BY <2>1 DEF Publishing, rowVars
  <2>4. CASE e # f
    <3>1. stored'[e] = stored[e] /\ fresh'[e] = fresh[e] /\ lostAcks'[e] = lostAcks[e]
      BY <2>1, <2>2, <2>4 DEF TypeInv, TypeOK, brokerVars
    <3>2. \A c \in Dispatcher : task'[c][e] = task[c][e]
      BY <2>3, <2>4 DEF TypeInv, TypeOK
    <3> QED
      BY <1>1, <2>3, <2>4, <3>1, <3>2 DEF Untouched, TypeInv, TypeOK
  <2>5. CASE e = f
    <3>1. /\ task'[d][e] = outcome
          /\ attempts'[e] = IF attempts[e] > MaxRetries THEN attempts[e] ELSE attempts[e] + 1
          /\ \A c \in Dispatcher \ {d} : task'[c][e] = task[c][e]
      BY <2>3, <2>5 DEF TypeInv, TypeOK
    <3>2. /\ stored'[e] \in {stored[e], stored[e] + 1}
          /\ stored[e] \in Nat /\ lostAcks[e] \in Nat /\ abandons[e] \in Nat
          /\ attempts[e] \in Nat
          /\ (outcome = "sent" \/ stored'[e] # stored[e] \/ fresh'[e] > 0) => stored'[e] > 0
      BY <1>0, <2>2, <2>5 DEF TypeInv, TypeOK, Ledger
    <3>3. /\ lostAcks'[e] \in Nat /\ lostAcks'[e] >= lostAcks[e]
          /\ outcome = "failed" /\ stored'[e] = stored[e] + 1 => lostAcks'[e] = lostAcks[e] + 1
      BY <2>1, <2>5, <3>2 DEF TypeInv, TypeOK, brokerVars
    <3>4. Ledger(e)'
      <4>1. retryCount[e] \in Nat /\ \A c \in Dispatcher : snapshot[c][e] \in 0 .. MaxRetries
        BY DEF TypeInv, TypeOK
      <4>2. stored[e] > 0 => stored'[e] > 0
        BY <3>2
      <4> QED
        BY <1>0, <2>3, <2>5, <3>1, <3>2, <4>1, <4>2 DEF Ledger
    <3>5. ASSUME overlaps'[e] = 0
          PROVE  Claims(e)'
      <4>1. Claims(e)
        BY <1>0, <2>3, <3>5
      <4>2. e \notin processed \cup dead /\ \A c \in Dispatcher \ {d} : task[c][e] = "none"
        BY <2>3, <2>5, <4>1 DEF Claims, Held
      <4>3. ~Settled(e) /\ (Settled(e)' <=> outcome = "sent")
        BY <2>3, <2>5, <3>1, <4>2 DEF Settled
      <4>4. stored'[e] <= abandons'[e] + lostAcks'[e] + (IF Settled(e)' THEN 1 ELSE 0)
        <5>1. stored[e] <= abandons[e] + lostAcks[e]
          BY <3>2, <4>1, <4>3 DEF Claims
        <5>2. CASE outcome = "sent"
          BY <2>3, <3>2, <3>3, <4>3, <5>1, <5>2
        <5>3. CASE outcome = "failed"
          BY <2>3, <3>2, <3>3, <4>3, <5>1, <5>3
        <5> QED
          BY <5>2, <5>3
      <4> QED
        BY <2>3, <3>1, <4>2, <4>4 DEF Claims
    <3> QED
      BY <3>4, <3>5
  <2> QED
    BY <2>4, <2>5
<1>7. ASSUME NEW d \in Dispatcher, ApplyResults(d)
      PROVE  Ledger(e)' /\ (overlaps'[e] = 0 => Claims(e)')
  <2>1. /\ \A c \in Dispatcher : task'[c][e] = IF c = d THEN "none" ELSE task[c][e]
        /\ \A c \in Dispatcher : task[c][e] = "none" \/ c = d \/ snapshot'[c][e] = snapshot[c][e]
        /\ UNCHANGED <<stored, fresh, abandons, lostAcks, overlaps, attempts>>
        /\ task[d][e] \in {"none", "sent", "failed"}
    BY <1>7 DEF ApplyResults, Forget, Batch, TypeInv, TypeOK, brokerVars, faultVars, Phase
  <2>2. /\ e \in processed' <=> e \in processed \/ task[d][e] = "sent"
        /\ task[d][e] # "failed" => /\ retryCount'[e] = retryCount[e]
                                    /\ e \in dead' <=> e \in dead
        /\ task[d][e] = "failed" => /\ retryCount'[e] = snapshot[d][e] + 1
                                    /\ e \in dead' <=> snapshot[d][e] + 1 > MaxRetries
    BY <1>7 DEF ApplyResults, Exhausted
  <2>3. CASE task[d][e] = "none"
    BY <1>1, <2>1, <2>2, <2>3 DEF Untouched
  <2>4. CASE task[d][e] # "none"
    <3>1. /\ retryCount[e] \in Nat /\ attempts[e] \in Nat /\ stored[e] \in Nat
          /\ \A c \in Dispatcher : snapshot[c][e] \in Nat
      BY DEF TypeInv, TypeOK
    <3>2. Ledger(e)'
      BY <1>0, <2>1, <2>2, <2>4, <3>1 DEF Ledger
    <3>3. ASSUME overlaps'[e] = 0
          PROVE  Claims(e)'
      <4>1. Claims(e)
        BY <1>0, <2>1, <3>3
      <4>2. e \notin processed /\ \A c \in Dispatcher \ {d} : task[c][e] = "none"
        BY <2>4, <4>1 DEF Claims, Held
      <4>3. ~Held(e)'
        BY <2>1, <4>2 DEF Held
      <4>4. Settled(e) <=> Settled(e)'
        BY <2>1, <2>2, <4>2 DEF Settled
      <4> QED
        BY <2>1, <4>1, <4>3, <4>4 DEF Claims, Held
    <3> QED
      BY <3>2, <3>3
  <2> QED
    BY <2>3, <2>4
<1>8. ASSUME NEW d \in Dispatcher, Abandon(d)
      PROVE  Ledger(e)' /\ (overlaps'[e] = 0 => Claims(e)')
  <2>1. /\ \A c \in Dispatcher : task'[c][e] = IF c = d THEN "none" ELSE task[c][e]
        /\ \A c \in Dispatcher : task[c][e] = "none" \/ c = d \/ snapshot'[c][e] = snapshot[c][e]
        /\ UNCHANGED <<processed, dead, retryCount, stored, fresh, lostAcks, overlaps, attempts>>
        /\ abandons'[e] = IF task[d][e] # "none" THEN abandons[e] + 1 ELSE abandons[e]
    BY <1>8 DEF Abandon, Forget, Batch, TypeInv, TypeOK, rowVars, brokerVars
  <2>2. CASE task[d][e] = "none"
    BY <1>1, <2>1, <2>2 DEF Untouched
  <2>3. CASE task[d][e] # "none"
    <3>1. Ledger(e)'
      BY <1>0, <2>1 DEF Ledger
    <3>2. ASSUME overlaps'[e] = 0
          PROVE  Claims(e)'
      <4>1. Claims(e)
        BY <1>0, <2>1, <3>2
      <4>2. ~Held(e)'
        BY <2>1, <2>3, <4>1 DEF Claims, Held
      <4>3. stored'[e] <= abandons'[e] + lostAcks'[e]
        BY <2>1, <2>3, <4>1 DEF Claims, TypeInv, TypeOK
      <4> QED
        BY <2>1, <4>2, <4>3 DEF Claims, Held, TypeInv, TypeOK
    <3> QED
      BY <3>1, <3>2
  <2> QED
    BY <2>2, <2>3
<1> QED
  BY <1>1, <1>2, <1>3, <1>4, <1>5, <1>6, <1>7, <1>8 DEF Next, Dispatch

\* What is known of every row holds in every reachable state.
LEMMA RowsAreInvariant == Spec => [](TypeInv /\ RowInv)
<1>1. Init => RowInv
  <2> SUFFICES ASSUME Init, NEW e \in Event
               PROVE  Ledger(e) /\ Claims(e)
    BY DEF RowInv
  <2>1. Ledger(e)
    BY OutboxAssumption DEF Init, Ledger
  <2>2. ~Held(e)
    BY DEF Init, Held
  <2>3. stored[e] = 0 /\ abandons[e] = 0 /\ lostAcks[e] = 0
    BY DEF Init
  <2> QED
    BY <2>1, <2>2, <2>3 DEF Claims, Held
<1>2. TypeInv /\ RowInv /\ [Next]_vars => RowInv'
  BY NextKeepsRows DEF RowInv
<1> QED
  BY <1>1, <1>2, TypesAreInvariant, PTL DEF Spec

\* A row is marked processed only if the broker has the event: lost acknowledgements,
\* dead cycles and overlapping claims never hide an event that was not delivered.
THEOREM ProcessedWereAlwaysStored == Spec => []ProcessedWereStored
<1>1. TypeInv /\ RowInv => ProcessedWereStored
  BY DEF TypeInv, TypeOK, RowInv, Ledger, ProcessedWereStored
<1> QED
  BY <1>1, RowsAreInvariant, PTL

\* No event is given up before MaxRetries + 1 publish calls.
THEOREM DeadWereAlwaysTried == Spec => []DeadWereTried
<1>1. TypeInv /\ RowInv => DeadWereTried
  BY DEF TypeInv, TypeOK, RowInv, Ledger, DeadWereTried
<1> QED
  BY <1>1, RowsAreInvariant, PTL

\* A processed event is in the broker, a dead one was tried to the end of its budget.
THEOREM VerdictsAreAlwaysTrue == Spec => []VerdictsAreTrue
<1>1. ProcessedWereStored /\ DeadWereTried => VerdictsAreTrue
  BY DEF VerdictsAreTrue
<1> QED
  BY <1>1, ProcessedWereAlwaysStored, DeadWereAlwaysTried, PTL

\* Every copy of an event after the first is paid for by a cycle that died before its
\* results or a lost acknowledgement, unless claims overlapped.
THEOREM DuplicatesAreAlwaysAccountedFor == Spec => []DuplicatesAreAccountedFor
<1>1. TypeInv /\ RowInv => DuplicatesAreAccountedFor
  BY DEF TypeInv, TypeOK, RowInv, Claims, DuplicatesAreAccountedFor
<1> QED
  BY <1>1, RowsAreInvariant, PTL

\* A processed or dead row is never written again while claims do not overlap: nobody
\* holds such a row, and only its holder would write it.
THEOREM ResolvedRowsAreFinal == Spec => ResolvedRowsStay
<1>1. ASSUME TypeInv, RowInv, [Next]_vars
      PROVE  [\A e \in processed \cup dead :
                overlaps[e] = 0 =>
                  /\ e \in processed <=> e \in processed'
                  /\ e \in dead <=> e \in dead'
                  /\ retryCount'[e] = retryCount[e]]_vars
  <2> SUFFICES ASSUME NEW e \in processed \cup dead, overlaps[e] = 0
               PROVE  /\ e \in processed <=> e \in processed'
                      /\ e \in dead <=> e \in dead'
                      /\ retryCount'[e] = retryCount[e]
    OBVIOUS
  <2>1. e \in Event /\ ~Held(e)
    BY <1>1 DEF TypeInv, TypeOK, RowInv, Claims
  <2>2. ASSUME NEW d \in Dispatcher, ApplyResults(d)
        PROVE  /\ e \in processed <=> e \in processed'
               /\ e \in dead <=> e \in dead'
               /\ retryCount'[e] = retryCount[e]
    <3>1. task[d][e] = "none"
      BY <2>1 DEF Held
    <3> QED
      BY <2>1, <2>2, <3>1 DEF ApplyResults, Exhausted
  <2>3. CASE UNCHANGED <<processed, dead, retryCount>>
    BY <2>3
  <2> QED
    BY <1>1, <2>2, <2>3 DEF Next, Dispatch, InsertOutbox, BackoffElapses, ClaimBatch, Publish, PublishFails,
                            Publishing, Abandon, Tick, vars, rowVars
<1> QED
  BY <1>1, RowsAreInvariant, PTL DEF Spec, ResolvedRowsStay

=============================================================================
