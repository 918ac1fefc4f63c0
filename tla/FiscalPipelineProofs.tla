------------------------ MODULE FiscalPipelineProofs ------------------------
(***************************************************************************)
(* Theorems about FiscalPipeline, for any sets of payments, terminals and  *)
(* workers, any retry budget and either kind of adapter.                   *)
(***************************************************************************)
EXTENDS FiscalPipeline, TLAPS

-----------------------------------------------------------------------------
(* Every database write of the pipeline keeps the types; the actions that  *)
(* call the sink share this lemma.                                         *)

\* The variables the result sink writes.
SinkTypeOK ==
  /\ payment \in [Payment -> PaymentStatus]
  /\ submission \in [Payment -> SubmissionStatus]
  /\ retryCount \in [Payment -> Nat]
  /\ gate \in [Payment -> Gate]
  /\ corrupt \in [Payment -> BOOLEAN]
  /\ receipts \in [Payment -> Nat]
  /\ completedEvents \in [Payment -> Nat]
  /\ voidedEvents \in [Payment -> Nat]
  /\ dropped \in SUBSET Payment
  /\ alarms \in SUBSET Payment

\* Whatever result arrives for whatever payment, OnFiscalResult keeps the types
\* of the rows it writes.
LEMMA SinkKeepsTypes ==
  ASSUME TypeOK, NEW p \in Payment, NEW result \in Result, OnFiscalResult(p, result)
  PROVE  SinkTypeOK'
<1>1. CASE Transitions(p, result) /\ ApplyResult(p, result)
  BY <1>1 DEF TypeOK, SinkTypeOK, ApplyResult, PaymentOutcome, Bump, BumpIf, Result,
     PaymentStatus, SubmissionStatus, Gate, lossVars
<1>2. CASE DropResult(p, result)
  BY <1>2 DEF TypeOK, SinkTypeOK, DropResult, dbVars
<1> QED
  BY <1>1, <1>2 DEF OnFiscalResult

\* Going on to the next row of a shard keeps the types of what the worker holds.
LEMMA NextRowKeepsTypes ==
  ASSUME TypeOK, NEW w \in Worker, NEW p \in Payment, NextRow(w, p)
  PROVE  /\ task' \in [Worker -> [Payment -> Phase]]
         /\ DOMAIN shards' = Worker /\ \A v \in Worker : DOMAIN shards'[v] \subseteq Terminal
<1>1. task' \in [Worker -> [Payment -> Phase]]
  BY DEF TypeOK, NextRow, SetTask, Phase
<1>2. DOMAIN shards' = Worker /\ \A v \in Worker : DOMAIN shards'[v] = DOMAIN shards[v]
  BY DEF TypeOK, NextRow
<1> QED
  BY <1>1, <1>2 DEF TypeOK

\* What a claim does, for the set of rows it returned.
LEMMA ClaimedRows ==
  ASSUME NEW w \in Worker, ClaimPending(w)
  PROVE  \E rows \in SUBSET Claimable :
           /\ gate' = [p \in Payment |-> IF p \in rows THEN "claimed" ELSE gate[p]]
           /\ task' = [task EXCEPT ![w] =
                         [p \in Payment |-> IF p \in rows THEN "queued" ELSE @[p]]]
           /\ snapshot' = [snapshot EXCEPT ![w] =
                             [p \in Payment |-> IF p \in rows THEN retryCount[p] ELSE @[p]]]
<1>1. PICK batch \in Batches :
        /\ gate' = [p \in Payment |-> IF p \in Rows(batch) THEN "claimed" ELSE gate[p]]
        /\ task' = [task EXCEPT ![w] =
                      [p \in Payment |-> IF p \in Rows(batch) THEN "queued" ELSE @[p]]]
        /\ snapshot' = [snapshot EXCEPT ![w] =
             [p \in Payment |-> IF p \in Rows(batch) THEN retryCount[p] ELSE @[p]]]
  BY DEF ClaimPending
<1>2. Rows(batch) \subseteq Claimable
  BY DEF Batches, Rows
<1> QED
  BY <1>1, <1>2

\* The shards of a claim are keyed by terminal.
LEMMA ClaimedShards ==
  ASSUME TypeOK, NEW w \in Worker, ClaimPending(w)
  PROVE  DOMAIN shards' = Worker /\ \A v \in Worker : DOMAIN shards'[v] \subseteq Terminal
<1>1. PICK batch \in Batches : shards' = [shards EXCEPT ![w] = shardByTerminal(batch)]
  BY DEF ClaimPending
<1>2. Rows(batch) \subseteq Payment
  BY DEF Batches, Rows, Claimable
<1>3. DOMAIN shardByTerminal(batch) \subseteq Terminal
  BY <1>2, ConstantsAssumption DEF shardByTerminal, shardKeyOf
<1> QED
  BY <1>1, <1>3 DEF TypeOK

\* Every step keeps the types.
LEMMA NextKeepsTypes == TypeOK /\ [Next]_vars => TypeOK'
<1> SUFFICES ASSUME TypeOK, [Next]_vars PROVE TypeOK'
  OBVIOUS
<1> USE DEF SetTask, Bump, BumpIf, dbVars, workerVars, vendorVars, deskVars, lossVars
<1>1. ASSUME NEW p \in Payment, EnqueueSale(p) PROVE TypeOK'
  BY <1>1 DEF TypeOK, EnqueueSale, PaymentStatus, SubmissionStatus
<1>2. ASSUME NEW p \in Payment, VendorStep(p) PROVE TypeOK'
  <2>1. webhooks' \in SUBSET (Payment \X Result)
    BY <1>2 DEF TypeOK, VendorStep, DevicePrints, DeviceRefuses, DeviceVoids, Notify, Result
  <2>2. CASE DevicePrints(p)
    BY <2>1, <2>2 DEF TypeOK, DevicePrints
  <2>3. CASE DeviceRefuses(p)
    <3>1. answered' \in [Payment -> Nat]
      BY <2>3 DEF TypeOK, DeviceRefuses
    <3> QED
      BY <2>1, <2>3, <3>1 DEF TypeOK, DeviceRefuses
  <2>4. CASE DeviceVoids(p)
    BY <2>1, <2>4 DEF TypeOK, DeviceVoids
  <2> QED
    BY <1>2, <2>2, <2>3, <2>4 DEF VendorStep
<1>3. ASSUME NEW p \in Payment, Webhook(p) PROVE TypeOK'
  BY <1>3, SinkKeepsTypes DEF TypeOK, SinkTypeOK, Webhook, Result
<1>4. ASSUME NEW p \in Payment, DeskStep(p) PROVE TypeOK'
  <2>1. CASE ReconcilerExpire(p)
    BY <2>1, SinkKeepsTypes DEF TypeOK, SinkTypeOK, ReconcilerExpire, Result
  <2>2. CASE ReconcilerWarn(p)
    BY <2>2 DEF TypeOK, ReconcilerWarn
  <2>3. CASE ExpireCheck(p) \/ ExpireAnswer(p)
    BY <2>3 DEF TypeOK, ExpireCheck, ExpireAnswer, SetDesk, Desk
  <2>4. CASE ExpireWrite(p)
    BY <2>4, SinkKeepsTypes DEF TypeOK, SinkTypeOK, ExpireWrite, SetDesk, Desk, Result
  <2>5. CASE VoidCheck(p)
    BY <2>5 DEF TypeOK, VoidCheck
  <2>6. CASE VoidSale(p)
    <3>1. CASE OnFiscalResult(p, "voided") /\ UNCHANGED voidAsked
      BY <2>6, <3>1, SinkKeepsTypes DEF TypeOK, SinkTypeOK, VoidSale, Result
    <3>2. CASE UNCHANGED <<dbVars, lossVars>>
      BY <2>6, <3>2 DEF TypeOK, VoidSale
    <3> QED
      BY <2>6, <3>1, <3>2 DEF VoidSale
  <2> QED
    BY <1>4, <2>1, <2>2, <2>3, <2>4, <2>5, <2>6 DEF DeskStep
<1>5. ASSUME NEW p \in Payment, ClaimExpires(p) \/ ClaimOverlaps(p) \/ BackoffElapses(p)
      PROVE  TypeOK'
  <2>1. gate' \in [Payment -> Gate]
    BY <1>5 DEF TypeOK, ClaimExpires, ClaimOverlaps, BackoffElapses, Gate
  <2> QED
    BY <1>5, <2>1 DEF TypeOK, ClaimExpires, ClaimOverlaps, BackoffElapses
<1>6. ASSUME NEW w \in Worker, ClaimPending(w) PROVE TypeOK'
  <2>1. /\ gate' \in [Payment -> Gate]
        /\ task' \in [Worker -> [Payment -> Phase]]
        /\ snapshot' \in [Worker -> [Payment -> Nat]]
    <3> PICK rows \in SUBSET Claimable :
          /\ gate' = [p \in Payment |-> IF p \in rows THEN "claimed" ELSE gate[p]]
          /\ task' = [task EXCEPT ![w] =
                        [p \in Payment |-> IF p \in rows THEN "queued" ELSE @[p]]]
          /\ snapshot' = [snapshot EXCEPT ![w] =
                            [p \in Payment |-> IF p \in rows THEN retryCount[p] ELSE @[p]]]
      BY <1>6, ClaimedRows
    <3> QED
      BY DEF TypeOK, Gate, Phase
  <2> QED
    BY <1>6, <2>1, ClaimedShards DEF TypeOK, ClaimPending
<1>7. ASSUME NEW w \in Worker, NEW p \in Payment, WorkerStep(w, p) PROVE TypeOK'
  <2>1. CASE SubmitAccepted(w, p)
    BY <2>1 DEF TypeOK, SubmitAccepted, Phase
  <2>2. CASE SubmitErrored(w, p)
    BY <2>2 DEF TypeOK, SubmitErrored, Phase
  <2>3. CASE SubmitAnswered(w, p)
    <3>1. CASE task' = SetTask(w, p, "printed") /\ printed' = Bump(printed, p)
      BY <2>3, <3>1 DEF TypeOK, SubmitAnswered, Phase
    <3>2. CASE task' = SetTask(w, p, "refused") /\ printed' = printed
      BY <2>3, <3>2 DEF TypeOK, SubmitAnswered, Phase
    <3> QED
      BY <2>3, <3>1, <3>2 DEF SubmitAnswered
  <2>4. CASE MarkSubmitted(w, p)
    <3>1. submission' \in [Payment -> SubmissionStatus] /\ gate' \in [Payment -> Gate]
      BY <2>4 DEF TypeOK, MarkSubmitted, SubmissionStatus, Gate
    <3> QED
      BY <2>4, <3>1, NextRowKeepsTypes DEF TypeOK, MarkSubmitted
  <2>5. ASSUME NEW result \in Result, OnFiscalResult(p, result), NextRow(w, p),
               UNCHANGED <<snapshot, posts, abandons, overlaps, vendorVars, deskVars>>
        PROVE  TypeOK'
    BY <2>5, SinkKeepsTypes, NextRowKeepsTypes DEF TypeOK, SinkTypeOK
  <2>6. CASE MarkRetry(w, p)
    <3>1. snapshot[w][p] + 1 \in Nat
      BY DEF TypeOK
    <3>2. CASE submission[p] = "pending"
      <4>1. retryCount' \in [Payment -> Nat]
        <5>1. retryCount' = [retryCount EXCEPT ![p] = snapshot[w][p] + 1]
          BY <2>6, <3>2 DEF MarkRetry
        <5>2. retryCount \in [Payment -> Nat]
          BY DEF TypeOK
        <5> QED
          BY <3>1, <5>1, <5>2
      <4>2. gate' \in [Payment -> Gate]
        BY <2>6, <3>2 DEF TypeOK, MarkRetry, Gate
      <4> QED
        BY <2>6, <4>1, <4>2, NextRowKeepsTypes DEF TypeOK, MarkRetry
    <3>3. CASE submission[p] # "pending"
      BY <2>6, <3>3, NextRowKeepsTypes DEF TypeOK, MarkRetry
    <3> QED
      BY <3>2, <3>3
  <2>7. CASE ApplySyncResult(w, p) \/ FinalizeFailure(w, p) \/ FinalizeCorrupt(w, p)
    <3> HIDE DEF SetTask, vendorVars, deskVars
    <3> QED
      BY <2>5, <2>7 DEF ApplySyncResult, FinalizeFailure, FinalizeCorrupt, Result
  <2> QED
    BY <1>7, <2>1, <2>2, <2>3, <2>4, <2>6, <2>7 DEF WorkerStep
<1>8. ASSUME NEW w \in Worker, StopWorker(w) \/ \E p \in Payment : LoseWrite(w, p) PROVE TypeOK'
  <2>1. ASSUME NEW p \in Payment, LoseWrite(w, p) PROVE TypeOK'
    BY <2>1, NextRowKeepsTypes DEF TypeOK, LoseWrite
  <2>2. CASE StopWorker(w)
    <3>1. task' \in [Worker -> [Payment -> Phase]] /\ abandons' \in [Payment -> Nat]
      BY <2>2 DEF TypeOK, StopWorker, Phase
    <3>2. DOMAIN shards' = Worker /\ \A v \in Worker : DOMAIN shards'[v] \subseteq Terminal
      BY <2>2 DEF TypeOK, StopWorker
    <3> QED
      BY <2>2, <3>1, <3>2 DEF TypeOK, StopWorker
  <2> QED
    BY <1>8, <2>1, <2>2
<1>9. CASE ListStaleSubmitted
  BY <1>9 DEF TypeOK, ListStaleSubmitted
<1>10. CASE UNCHANGED vars
  BY <1>10 DEF TypeOK, vars
<1> QED
  BY <1>1, <1>2, <1>3, <1>4, <1>5, <1>6, <1>7, <1>8, <1>9, <1>10 DEF Next

\* Every reachable state is well typed.
THEOREM TypeCorrect == Spec => []TypeOK
<1>1. Init => TypeOK
  BY DEF Init, TypeOK, PaymentStatus, SubmissionStatus, Gate, Phase, Desk
<1> QED
  BY <1>1, NextKeepsTypes, PTL DEF Spec

-----------------------------------------------------------------------------
(* The books: payments, fiscal_submissions, fiscal_receipts and the two    *)
(* outbox topics.  Of all the steps of workers, vendor, reconciler and     *)
(* operator only three kinds write them.                                   *)

bookVars == <<payment, submission, receipts, completedEvents, voidedEvents>>

\* An accepted basket: the row leaves the claimable state, nothing else moves.
Submits(p) ==
  /\ submission[p] = "pending"
  /\ submission' = [submission EXCEPT ![p] = "submitted"]
  /\ UNCHANGED <<payment, receipts, completedEvents, voidedEvents>>

Resolves(p, result) == Transitions(p, result) /\ ApplyResult(p, result)

BookStep ==
  \/ UNCHANGED bookVars
  \/ \E p \in Payment : EnqueueSale(p)
  \/ \E p \in Payment : Submits(p)
  \/ \E p \in Payment, result \in Result : Resolves(p, result)

\* A result is applied as a whole or leaves the books alone.
LEMMA SinkIsABookStep ==
  ASSUME NEW p \in Payment, NEW result \in Result, OnFiscalResult(p, result)
  PROVE  BookStep
<1>1. CASE Resolves(p, result)
  BY <1>1 DEF BookStep
<1>2. CASE DropResult(p, result)
  BY <1>2 DEF BookStep, DropResult, dbVars, bookVars
<1> QED
  BY <1>1, <1>2 DEF OnFiscalResult, Resolves

\* Every step of the pipeline is a registration, a submission, one applied
\* result, or does not touch the books.
LEMMA StepsAreBookSteps == ASSUME [Next]_vars PROVE BookStep
<1> USE DEF dbVars, bookVars
<1>1. ASSUME NEW p \in Payment, EnqueueSale(p) PROVE BookStep
  BY <1>1 DEF BookStep
<1>2. ASSUME NEW p \in Payment, VendorStep(p) PROVE BookStep
  BY <1>2 DEF BookStep, VendorStep, DevicePrints, DeviceRefuses, DeviceVoids
<1>3. ASSUME NEW p \in Payment, Webhook(p) PROVE BookStep
  BY <1>3, SinkIsABookStep DEF Webhook, Result
<1>4. ASSUME NEW p \in Payment, DeskStep(p) PROVE BookStep
  <2>1. CASE ReconcilerExpire(p) \/ ExpireWrite(p)
    BY <2>1, SinkIsABookStep DEF ReconcilerExpire, ExpireWrite, Result
  <2>2. CASE ReconcilerWarn(p) \/ ExpireCheck(p) \/ ExpireAnswer(p) \/ VoidCheck(p)
    BY <2>2 DEF BookStep, ReconcilerWarn, ExpireCheck, ExpireAnswer, VoidCheck
  <2>3. CASE VoidSale(p)
    <3>1. OnFiscalResult(p, "voided") \/ UNCHANGED dbVars
      BY <2>3 DEF VoidSale
    <3> QED
      BY <3>1, SinkIsABookStep DEF BookStep, Result
  <2> QED
    BY <1>4, <2>1, <2>2, <2>3 DEF DeskStep
<1>5. ASSUME NEW p \in Payment, ClaimExpires(p) \/ ClaimOverlaps(p) \/ BackoffElapses(p)
      PROVE  BookStep
  BY <1>5 DEF BookStep, ClaimExpires, ClaimOverlaps, BackoffElapses
<1>6. ASSUME NEW w \in Worker, ClaimPending(w) PROVE BookStep
  BY <1>6 DEF BookStep, ClaimPending
<1>7. ASSUME NEW w \in Worker, NEW p \in Payment, WorkerStep(w, p) PROVE BookStep
  <2>1. CASE SubmitAccepted(w, p) \/ SubmitErrored(w, p) \/ SubmitAnswered(w, p)
    BY <2>1 DEF BookStep, SubmitAccepted, SubmitErrored, SubmitAnswered
  <2>2. CASE MarkSubmitted(w, p)
    BY <2>2 DEF BookStep, MarkSubmitted, Submits
  <2>3. CASE ApplySyncResult(w, p) \/ FinalizeFailure(w, p) \/ FinalizeCorrupt(w, p)
    BY <2>3, SinkIsABookStep DEF ApplySyncResult, FinalizeFailure, FinalizeCorrupt, Result
  <2>4. CASE MarkRetry(w, p)
    BY <2>4 DEF BookStep, MarkRetry
  <2> QED
    BY <1>7, <2>1, <2>2, <2>3, <2>4 DEF WorkerStep
<1>8. ASSUME NEW w \in Worker, StopWorker(w) \/ \E p \in Payment : LoseWrite(w, p)
      PROVE  BookStep
  BY <1>8 DEF BookStep, StopWorker, LoseWrite
<1>9. CASE ListStaleSubmitted
  BY <1>9 DEF BookStep, ListStaleSubmitted
<1>10. CASE UNCHANGED vars
  BY <1>10 DEF BookStep, vars
<1> QED
  BY <1>1, <1>2, <1>3, <1>4, <1>5, <1>6, <1>7, <1>8, <1>9, <1>10 DEF Next

-----------------------------------------------------------------------------
(* The books are consistent.  StatusesAgree and BooksAgree are inductive   *)
(* together: the guards of MarkResult speak of the submission, those of    *)
(* Complete, Fail and Void of the payment.                                 *)

BookInv == TypeOK /\ StatusesAgree /\ BooksAgree

\* A step that submits, resolves once or leaves the books alone keeps them
\* consistent.
LEMMA BookStepsKeepTheBooks ==
  ASSUME BookInv, TypeOK', BookStep
  PROVE  StatusesAgree' /\ BooksAgree'
<1> USE DEF BookInv
<1>1. CASE UNCHANGED bookVars
  BY <1>1 DEF bookVars, StatusesAgree, BooksAgree
<1>2. ASSUME NEW p \in Payment, EnqueueSale(p) PROVE StatusesAgree' /\ BooksAgree'
  BY <1>2 DEF EnqueueSale, TypeOK, StatusesAgree, BooksAgree, Unresolved
<1>3. ASSUME NEW p \in Payment, Submits(p) PROVE StatusesAgree' /\ BooksAgree'
  BY <1>3 DEF Submits, TypeOK, StatusesAgree, BooksAgree, Unresolved
<1>4. ASSUME NEW p \in Payment, NEW result \in Result, Resolves(p, result)
      PROVE  StatusesAgree' /\ BooksAgree'
  <2> USE DEF Resolves, Transitions, SourceStates, PaymentSources, ApplyResult,
          PaymentOutcome, Bump, BumpIf, TypeOK, Unresolved
  <2>1. CASE result = "completed"
    BY <1>4, <2>1 DEF StatusesAgree, BooksAgree
  <2>2. CASE result = "voided"
    BY <1>4, <2>2 DEF StatusesAgree, BooksAgree
  <2>3. CASE result \in {"failed", "expired"}
    BY <1>4, <2>3 DEF StatusesAgree, BooksAgree
  <2> QED
    BY <2>1, <2>2, <2>3 DEF Result
<1> QED
  BY <1>1, <1>2, <1>3, <1>4 DEF BookStep

\* The books are consistent in every reachable state.
LEMMA BooksAreInvariant == Spec => []BookInv
<1>1. Init => BookInv
  <2>1. Init => TypeOK
    BY DEF Init, TypeOK, PaymentStatus, SubmissionStatus, Gate, Phase, Desk
  <2>2. Init => StatusesAgree /\ BooksAgree
    BY DEF Init, StatusesAgree, BooksAgree, Unresolved
  <2> QED
    BY <2>1, <2>2 DEF BookInv
<1>2. BookInv /\ [Next]_vars => BookInv'
  BY NextKeepsTypes, StepsAreBookSteps, BookStepsKeepTheBooks DEF BookInv
<1> QED
  BY <1>1, <1>2, PTL DEF Spec

\* Whoever resolves a row and in whatever order the results come in,
\* payments.status and fiscal_submissions.status tell the same story.
THEOREM StatusesAlwaysAgree == Spec => []StatusesAgree
<1>1. BookInv => StatusesAgree
  BY DEF BookInv
<1> QED
  BY <1>1, BooksAreInvariant, PTL

\* A completed payment has one receipt and one payment.completed event, a voided
\* one has one payment.voided event: results are applied at most once.
THEOREM BooksAlwaysAgree == Spec => []BooksAgree
<1>1. BookInv => BooksAgree
  BY DEF BookInv
<1> QED
  BY <1>1, BooksAreInvariant, PTL

-----------------------------------------------------------------------------
(* What a step may not do, and the promise the pipeline implements.        *)

\* A late, repeated or contradicting result never rewrites a resolved
\* submission; only the void of a completed one changes it.
THEOREM OutcomesAreFinal == Spec => ResolvedIsFinal
<1> DEFINE Final == \A p \in Payment :
      submission[p] \notin (Unresolved \cup {"none"}) /\ submission'[p] # submission[p]
        => submission[p] = "completed" /\ submission'[p] = "voided"
<1>1. BookInv /\ BookStep => Final
  <2> SUFFICES ASSUME BookInv, BookStep PROVE Final
    OBVIOUS
  <2> USE DEF BookInv, TypeOK, Unresolved
  <2>1. CASE UNCHANGED bookVars
    BY <2>1 DEF bookVars
  <2>2. ASSUME NEW p \in Payment, EnqueueSale(p) PROVE Final
    BY <2>2 DEF EnqueueSale, StatusesAgree
  <2>3. ASSUME NEW p \in Payment, Submits(p) PROVE Final
    BY <2>3 DEF Submits
  <2>4. ASSUME NEW p \in Payment, NEW result \in Result, Resolves(p, result) PROVE Final
    BY <2>4 DEF Resolves, Transitions, SourceStates, ApplyResult
  <2> QED
    BY <2>1, <2>2, <2>3, <2>4 DEF BookStep
<1>2. BookInv /\ [Next]_vars => [Final]_vars
  BY <1>1, StepsAreBookSteps
<1> QED
  BY <1>2, BooksAreInvariant, PTL DEF Spec, ResolvedIsFinal

\* Seen through payments, receipts and outbox the pipeline is Registration: each
\* step is one Register, Complete, Fail or Void, or a stutter.
THEOREM PipelineImplementsRegistration == Spec => ImplementsRegistration
<1>1. Init => Promise!Init
  BY DEF Init, Promise!Init
<1>2. BookInv /\ BookStep => [Promise!Next]_(Promise!vars)
  <2> SUFFICES ASSUME BookInv, BookStep PROVE [Promise!Next]_(Promise!vars)
    OBVIOUS
  <2> USE DEF BookInv, TypeOK, Promise!Moves
  <2>1. CASE UNCHANGED bookVars
    BY <2>1 DEF bookVars, Promise!vars
  <2>2. ASSUME NEW p \in Payment, EnqueueSale(p) PROVE Promise!Register(p)
    BY <2>2 DEF EnqueueSale, Promise!Register
  <2>3. ASSUME NEW p \in Payment, Submits(p) PROVE UNCHANGED Promise!vars
    BY <2>3 DEF Submits, Promise!vars
  <2>4. ASSUME NEW p \in Payment, NEW result \in Result, Resolves(p, result)
        PROVE  Promise!Complete(p) \/ Promise!Fail(p) \/ Promise!Void(p)
    <3> USE <2>4 DEF Resolves, Transitions, PaymentSources, ApplyResult,
            PaymentOutcome, Bump, BumpIf
    <3>1. CASE result = "completed"
      <4>1. receipts[p] = 0 /\ completedEvents[p] = 0
        BY <3>1 DEF BooksAgree
      <4>2. payment[p] = "pending" /\ payment' = [payment EXCEPT ![p] = "completed"]
        BY <3>1
      <4>3. /\ receipts' = [receipts EXCEPT ![p] = 1]
            /\ completedEvents' = [completedEvents EXCEPT ![p] = 1]
            /\ UNCHANGED voidedEvents
        BY <3>1, <4>1
      <4> QED
        BY <4>2, <4>3 DEF Promise!Complete
    <3>2. CASE result = "voided"
      <4>1. voidedEvents[p] = 0
        BY <3>2 DEF BooksAgree
      <4>2. /\ payment[p] \in {"pending", "completed"}
            /\ payment' = [payment EXCEPT ![p] = "voided"]
        BY <3>2
      <4>3. /\ voidedEvents' = [voidedEvents EXCEPT ![p] = 1]
            /\ UNCHANGED <<receipts, completedEvents>>
        BY <3>2, <4>1
      <4> QED
        BY <4>2, <4>3 DEF Promise!Void
    <3>3. CASE result \in {"failed", "expired"}
      BY <3>3 DEF Promise!Fail
    <3> QED
      BY <3>1, <3>2, <3>3 DEF Result
  <2> QED
    BY <2>1, <2>2, <2>3, <2>4 DEF BookStep, Promise!Next
<1>3. BookInv /\ [Next]_vars => [Promise!Next]_(Promise!vars)
  BY <1>2, StepsAreBookSteps
<1> QED
  BY <1>1, <1>3, BooksAreInvariant, PTL DEF Spec, ImplementsRegistration, Promise!Spec

-----------------------------------------------------------------------------
(* Claims and reposts.  ClaimsAreExclusive and RepostsAreAccountedFor are  *)
(* not inductive: that nobody else holds a row follows from its claim being *)
(* fresh, and that a post is paid for from the count its worker read at the *)
(* claim being the row's.  A row that is queued again has all its earlier   *)
(* posts paid for; a basket in flight is the one that may be outstanding.   *)

Open(p) == submission[p] \in {"none", "pending"}

Claims(p) ==
  /\ \A v, w \in Worker : task[v][p] # "none" /\ task[w][p] # "none" => v = w
  /\ \A w \in Worker : task[w][p] # "none" =>
       /\ submission[p] # "none"
       /\ Open(p) => gate[p] = "claimed" /\ snapshot[w][p] = retryCount[p]

SettledPosts(p) ==
  \/ \E w \in Worker : task[w][p] = "queued"
  \/ Open(p) /\ \A w \in Worker : task[w][p] \notin InFlight

Accounts(p) ==
  /\ retryCount[p] <= MaxRetries
  /\ posts[p] <= retryCount[p] + 1 + abandons[p]
  /\ SettledPosts(p) => posts[p] <= retryCount[p] + abandons[p]

WorkInv == \A p \in Payment : overlaps[p] = 0 => Claims(p) /\ Accounts(p)

\* A step that leaves a row, its claim and its counters alone keeps both parts.
LEMMA UntouchedRow ==
  ASSUME NEW p \in Payment, TypeOK, WorkInv,
         \A w \in Worker : task'[w][p] = task[w][p] /\ snapshot'[w][p] = snapshot[w][p],
         \/ submission'[p] = submission[p] /\ gate'[p] = gate[p]
         \/ submission'[p] \notin {"none", "pending"},
         retryCount'[p] = retryCount[p], posts'[p] = posts[p],
         abandons'[p] = abandons[p], overlaps'[p] = 0, overlaps[p] = 0
  PROVE  Claims(p)' /\ Accounts(p)'
<1>1. Claims(p) /\ Accounts(p)
  BY DEF WorkInv
<1>2. Open(p)' => Open(p) /\ gate'[p] = gate[p] /\ submission'[p] = submission[p]
  BY DEF Open
<1>3. Claims(p)'
  BY <1>1, <1>2 DEF Claims, Open
<1>4. SettledPosts(p)' => SettledPosts(p)
  BY <1>2 DEF SettledPosts
<1> QED
  BY <1>1, <1>3, <1>4 DEF Accounts

\* A result leaves the other rows alone, never reopens one, and closes its own.
LEMMA SinkOnRows ==
  ASSUME BookInv, NEW p \in Payment, NEW result \in Result, OnFiscalResult(p, result)
  PROVE  /\ retryCount' = retryCount
         /\ \A q \in Payment : \/ submission'[q] = submission[q] /\ gate'[q] = gate[q]
                               \/ submission'[q] \notin {"none", "pending"}
         /\ submission[p] # "none" => submission'[p] \notin {"none", "pending"}
<1>1. CASE Transitions(p, result) /\ ApplyResult(p, result)
  BY <1>1 DEF BookInv, TypeOK, ApplyResult, Result
<1>2. CASE ~Transitions(p, result) /\ DropResult(p, result)
  <2>1. submission[p] = "pending" => Transitions(p, result)
    BY DEF BookInv, StatusesAgree, Unresolved, Transitions, SourceStates, PaymentSources
  <2> QED
    BY <1>2, <2>1 DEF DropResult, dbVars
<1> QED
  BY <1>1, <1>2 DEF OnFiscalResult

\* A worker that lets go of a row leaves it closed, or open with one more post
\* paid for by a counted retry or a counted loss.
LEMMA ReleasedRow ==
  ASSUME NEW p \in Payment, NEW w \in Worker, TypeOK, WorkInv, overlaps[p] = 0,
         task[w][p] # "none", task'[w][p] = "none",
         \A v \in Worker : v # w => task'[v][p] = task[v][p],
         snapshot' = snapshot, posts' = posts, retryCount' \in [Payment -> Nat], abandons' \in [Payment -> Nat],
         retryCount'[p] <= MaxRetries,
         \/ submission'[p] \notin {"none", "pending"}
            /\ retryCount'[p] + abandons'[p] >= retryCount[p] + abandons[p]
         \/ retryCount'[p] + abandons'[p] = retryCount[p] + abandons[p] + 1
  PROVE  Claims(p)' /\ Accounts(p)'
<1>1. Claims(p) /\ Accounts(p)
  BY DEF WorkInv
<1>2. \A v \in Worker : task'[v][p] = "none"
  BY <1>1 DEF Claims
<1>3. Claims(p)'
  BY <1>2 DEF Claims
<1>4. SettledPosts(p)' => submission'[p] \in {"none", "pending"}
  BY <1>2 DEF SettledPosts, Open
<1>5. retryCount[p] \in Nat /\ abandons[p] \in Nat /\ posts[p] \in Nat
      /\ retryCount'[p] \in Nat /\ abandons'[p] \in Nat
  BY DEF TypeOK
<1>6. posts[p] <= retryCount[p] + 1 + abandons[p]
  BY <1>1 DEF Accounts
<1>7. Accounts(p)'
  BY <1>4, <1>5, <1>6 DEF Accounts
<1> QED
  BY <1>3, <1>7

\* A basket handed to the adapter is the one outstanding post of its row.
LEMMA PostedRow ==
  ASSUME NEW p \in Payment, NEW w \in Worker, NEW phase \in InFlight, TypeOK, WorkInv,
         overlaps[p] = 0, MayStart(w, p), task' = SetTask(w, p, phase),
         posts' = Bump(posts, p), UNCHANGED <<dbVars, snapshot, abandons, overlaps>>
  PROVE  Claims(p)' /\ Accounts(p)'
<1>1. Claims(p) /\ Accounts(p) /\ task[w][p] = "queued"
  BY DEF WorkInv, MayStart, Reached
<1>2. task'[w][p] = phase /\ phase \notin {"none", "queued"}
      /\ \A v \in Worker : v # w => task'[v][p] = task[v][p] /\ task[v][p] = "none"
  BY <1>1 DEF TypeOK, SetTask, Claims, InFlight
<1>3. Claims(p)'
  BY <1>1, <1>2 DEF Claims, Open, dbVars
<1>4. ~SettledPosts(p)'
  BY <1>2 DEF SettledPosts, InFlight
<1>5. posts[p] <= retryCount[p] + abandons[p]
  BY <1>1 DEF Accounts, SettledPosts
<1>6. posts'[p] = posts[p] + 1
  BY DEF Bump, TypeOK
<1>7. retryCount[p] \in Nat /\ abandons[p] \in Nat /\ posts[p] \in Nat
  BY DEF TypeOK
<1>8. retryCount'[p] = retryCount[p] /\ abandons'[p] = abandons[p]
  BY DEF dbVars
<1>9. retryCount[p] <= MaxRetries
  BY <1>1 DEF Accounts
<1>10. posts'[p] <= retryCount'[p] + 1 + abandons'[p] /\ retryCount'[p] <= MaxRetries
  BY <1>5, <1>6, <1>7, <1>8, <1>9
<1> QED
  BY <1>3, <1>4, <1>10 DEF Accounts

\* Every step keeps claims exclusive and posts accounted for.
LEMMA NextKeepsWork == BookInv /\ WorkInv /\ [Next]_vars => WorkInv'
<1> SUFFICES ASSUME BookInv, WorkInv, [Next]_vars, NEW p \in Payment, overlaps'[p] = 0
             PROVE  Claims(p)' /\ Accounts(p)'
  BY DEF WorkInv
<1> DEFINE Kept == Claims(p)' /\ Accounts(p)'
<1>0. TypeOK /\ TypeOK'
  BY NextKeepsTypes DEF BookInv
<1> USE DEF dbVars, workerVars
<1>1. ASSUME UNCHANGED <<dbVars, workerVars>> PROVE Kept
  BY <1>0, <1>1, UntouchedRow
<1>2. ASSUME NEW q \in Payment, NEW result \in Result, OnFiscalResult(q, result),
             UNCHANGED workerVars
      PROVE  Kept
  BY <1>0, <1>2, SinkOnRows, UntouchedRow
<1>3. ASSUME NEW q \in Payment, EnqueueSale(q) PROVE Kept
  <2>1. CASE q # p
    BY <1>0, <1>3, <2>1, UntouchedRow DEF EnqueueSale, TypeOK
  <2>2. CASE q = p
    <3>1. submission[p] = "none" /\ submission'[p] = "pending"
      BY <1>0, <1>3, <2>2 DEF EnqueueSale, BookInv, StatusesAgree, TypeOK
    <3>2. Claims(p) /\ Accounts(p)
      BY <1>3 DEF WorkInv, EnqueueSale
    <3>3. \A w \in Worker : task[w][p] = "none"
      BY <3>1, <3>2 DEF Claims
    <3>4. SettledPosts(p)
      BY <3>1, <3>3 DEF SettledPosts, Open, InFlight
    <3> QED
      BY <1>3, <3>2, <3>3, <3>4 DEF EnqueueSale, Claims, Accounts
  <2> QED
    BY <2>1, <2>2
<1>4. ASSUME NEW q \in Payment, ClaimExpires(q) \/ ClaimOverlaps(q) \/ BackoffElapses(q)
      PROVE  Kept
  <2>1. CASE q # p
    <3>1. gate'[p] = gate[p] /\ overlaps'[p] = overlaps[p]
      BY <1>0, <1>4, <2>1 DEF ClaimExpires, ClaimOverlaps, BackoffElapses, Bump, TypeOK
    <3>2. UNCHANGED <<task, snapshot, submission, retryCount, posts, abandons>>
      BY <1>4 DEF ClaimExpires, ClaimOverlaps, BackoffElapses
    <3> QED
      BY <1>0, <3>1, <3>2, UntouchedRow
  <2>2. CASE q = p /\ ClaimOverlaps(p)
    BY <1>0, <2>2 DEF ClaimOverlaps, Bump, TypeOK
  <2>3. CASE q = p /\ (ClaimExpires(p) \/ BackoffElapses(p))
    <3>1. Claims(p) /\ Accounts(p)
      BY <2>3 DEF WorkInv, ClaimExpires, BackoffElapses
    <3>2. Open(p) => \A w \in Worker : task[w][p] = "none"
      BY <2>3, <3>1 DEF ClaimExpires, BackoffElapses, Held, Claims
    <3> QED
      BY <2>3, <3>1, <3>2
         DEF ClaimExpires, BackoffElapses, Claims, Accounts, SettledPosts, Open
  <2> QED
    BY <1>4, <2>1, <2>2, <2>3
<1>5. ASSUME NEW w \in Worker, ClaimPending(w) PROVE Kept
  <2>1. PICK rows \in SUBSET Claimable :
          /\ gate' = [q \in Payment |-> IF q \in rows THEN "claimed" ELSE gate[q]]
          /\ task' = [task EXCEPT ![w] =
                        [q \in Payment |-> IF q \in rows THEN "queued" ELSE @[q]]]
          /\ snapshot' = [snapshot EXCEPT ![w] =
                            [q \in Payment |-> IF q \in rows THEN retryCount[q] ELSE @[q]]]
    BY <1>5, ClaimedRows
  <2>2. CASE p \notin rows
    BY <1>0, <1>5, <2>1, <2>2, UntouchedRow DEF ClaimPending, TypeOK
  <2>3. CASE p \in rows
    <3>1. submission[p] = "pending" /\ gate[p] \in {"due", "stale"}
      BY <2>3 DEF Claimable
    <3>2. Claims(p) /\ Accounts(p)
      BY <1>5 DEF WorkInv, ClaimPending
    <3>3. \A v \in Worker : task[v][p] = "none"
      BY <3>1, <3>2 DEF Claims, Open
    <3>4. /\ \A v \in Worker : v # w => task'[v][p] = "none"
          /\ task'[w][p] = "queued" /\ snapshot'[w][p] = retryCount[p]
          /\ gate'[p] = "claimed"
      BY <1>0, <2>1, <2>3, <3>3 DEF TypeOK
    <3>5. Claims(p)'
      BY <1>5, <3>1, <3>4 DEF ClaimPending, Claims, Open
    <3>6. SettledPosts(p)
      BY <3>1, <3>3 DEF SettledPosts, Open, InFlight
    <3>7. Accounts(p)'
      BY <1>5, <3>2, <3>6 DEF ClaimPending, Accounts
    <3> QED
      BY <3>5, <3>7
  <2> QED
    BY <2>2, <2>3
<1>6. ASSUME NEW w \in Worker, NEW q \in Payment,
             SubmitAccepted(w, q) \/ SubmitErrored(w, q) \/ SubmitAnswered(w, q)
      PROVE  Kept
  <2>1. PICK phase \in InFlight :
          /\ MayStart(w, q) /\ task' = SetTask(w, q, phase) /\ posts' = Bump(posts, q)
          /\ UNCHANGED <<dbVars, snapshot, abandons, overlaps>>
    BY <1>6 DEF SubmitAccepted, SubmitErrored, SubmitAnswered, InFlight
  <2>2. CASE q # p
    <3>1. posts'[p] = posts[p] /\ \A v \in Worker : task'[v][p] = task[v][p]
      BY <1>0, <2>1, <2>2 DEF SetTask, Bump, TypeOK
    <3> QED
      BY <1>0, <2>1, <3>1, UntouchedRow
  <2>3. CASE q = p
    BY <1>0, <2>1, <2>3, PostedRow
  <2> QED
    BY <2>2, <2>3
<1>7. ASSUME NEW w \in Worker, NEW q \in Payment,
             task[w][q] # "none", NextRow(w, q),
             UNCHANGED <<snapshot, posts, overlaps>>,
             \A r \in Payment : r # q =>
               /\ \/ submission'[r] = submission[r] /\ gate'[r] = gate[r]
                  \/ submission'[r] \notin {"none", "pending"}
               /\ retryCount'[r] = retryCount[r] /\ abandons'[r] = abandons[r],
             overlaps[q] = 0 =>
               /\ retryCount'[q] <= MaxRetries
               /\ \/ submission'[q] \notin {"none", "pending"}
                     /\ retryCount'[q] + abandons'[q] >= retryCount[q] + abandons[q]
                  \/ retryCount'[q] + abandons'[q] = retryCount[q] + abandons[q] + 1
      PROVE  Kept
  <2>1. CASE q # p
    <3>1. \A v \in Worker : task'[v][p] = task[v][p]
      BY <1>0, <1>7, <2>1 DEF NextRow, SetTask, TypeOK
    <3> QED
      BY <1>0, <1>7, <2>1, <3>1, UntouchedRow
  <2>2. CASE q = p
    <3>1. retryCount' \in [Payment -> Nat] /\ abandons' \in [Payment -> Nat]
      BY <1>0 DEF TypeOK
    <3>2. task'[w][p] = "none" /\ \A v \in Worker : v # w => task'[v][p] = task[v][p]
      BY <1>0, <1>7, <2>2 DEF NextRow, SetTask, TypeOK
    <3> QED
      BY <1>0, <1>7, <2>2, <3>1, <3>2, ReleasedRow
  <2> QED
    BY <2>1, <2>2
<1>8. ASSUME NEW w \in Worker, NEW q \in Payment, task[w][q] # "none", overlaps[q] = 0
      PROVE  /\ submission[q] # "none" /\ retryCount[q] <= MaxRetries
             /\ submission[q] = "pending" => snapshot[w][q] = retryCount[q]
             /\ retryCount[q] \in Nat /\ abandons[q] \in Nat
  BY <1>0, <1>8 DEF WorkInv, Claims, Accounts, Open, TypeOK
<1>9. ASSUME NEW w \in Worker, NEW q \in Payment, NEW result \in Result,
             OnFiscalResult(q, result), task[w][q] # "none",
             NextRow(w, q), UNCHANGED <<snapshot, posts, abandons, overlaps>>
      PROVE  Kept
  <2>1. /\ retryCount' = retryCount
        /\ \A r \in Payment : \/ submission'[r] = submission[r] /\ gate'[r] = gate[r]
                              \/ submission'[r] \notin {"none", "pending"}
        /\ submission[q] # "none" => submission'[q] \notin {"none", "pending"}
    BY <1>9, SinkOnRows
  <2> QED
    BY <1>7, <1>8, <1>9, <2>1
<1>10. ASSUME NEW w \in Worker, NEW q \in Payment, MarkSubmitted(w, q) PROVE Kept
  <2>1. /\ task[w][q] # "none" /\ NextRow(w, q)
        /\ UNCHANGED <<snapshot, posts, overlaps, retryCount, abandons>>
    BY <1>10 DEF MarkSubmitted
  <2>2. \A r \in Payment : r # q => submission'[r] = submission[r] /\ gate'[r] = gate[r]
    BY <1>0, <1>10 DEF MarkSubmitted, TypeOK
  <2>3. submission[q] # "none" => submission'[q] \notin {"none", "pending"}
    BY <1>0, <1>10 DEF MarkSubmitted, TypeOK
  <2> QED
    BY <1>7, <1>8, <2>1, <2>2, <2>3
<1>11. ASSUME NEW w \in Worker, NEW q \in Payment, MarkRetry(w, q) PROVE Kept
  <2>1. /\ task[w][q] # "none" /\ NextRow(w, q)
        /\ UNCHANGED <<snapshot, posts, overlaps, abandons, submission>>
        /\ snapshot[w][q] + 1 <= MaxRetries
    BY <1>11 DEF MarkRetry
  <2>2. \A r \in Payment : r # q => gate'[r] = gate[r] /\ retryCount'[r] = retryCount[r]
    BY <1>0, <1>11 DEF MarkRetry, TypeOK
  <2>3. CASE submission[q] = "pending"
    <3>1. retryCount'[q] = snapshot[w][q] + 1
      BY <1>0, <1>11, <2>3 DEF MarkRetry, TypeOK
    <3> QED
      BY <1>7, <1>8, <2>1, <2>2, <2>3, <3>1
  <2>4. CASE submission[q] # "pending"
    <3>1. retryCount' = retryCount
      BY <1>11, <2>4 DEF MarkRetry
    <3> QED
      BY <1>7, <1>8, <2>1, <2>2, <2>4, <3>1
  <2> QED
    BY <2>3, <2>4
<1>12. ASSUME NEW w \in Worker, NEW q \in Payment, LoseWrite(w, q) PROVE Kept
  <2>1. /\ task[w][q] # "none" /\ NextRow(w, q)
        /\ UNCHANGED <<snapshot, posts, overlaps, retryCount, submission, gate>>
    BY <1>12 DEF LoseWrite, InFlight
  <2>2. \A r \in Payment : abandons'[r] = IF r = q THEN abandons[r] + 1 ELSE abandons[r]
    BY <1>0, <1>12 DEF LoseWrite, Bump, TypeOK
  <2> QED
    BY <1>7, <1>8, <2>1, <2>2
<1>16. ASSUME NEW w \in Worker, StopWorker(w) PROVE Kept
  <2>1. /\ UNCHANGED <<snapshot, posts, overlaps, retryCount, submission, gate>>
        /\ task'[w][p] = "none" /\ \A v \in Worker : v # w => task'[v][p] = task[v][p]
        /\ abandons'[p] = IF task[w][p] # "none" THEN abandons[p] + 1 ELSE abandons[p]
    BY <1>0, <1>16 DEF StopWorker, TypeOK
  <2>2. CASE task[w][p] = "none"
    BY <1>0, <2>1, <2>2, UntouchedRow
  <2>3. CASE task[w][p] # "none"
    <3>1. retryCount' \in [Payment -> Nat] /\ abandons' \in [Payment -> Nat]
      BY <1>0 DEF TypeOK
    <3>2. retryCount'[p] <= MaxRetries
          /\ retryCount'[p] + abandons'[p] = retryCount[p] + abandons[p] + 1
      BY <1>8, <2>1, <2>3
    <3> QED
      BY <1>0, <2>1, <2>3, <3>1, <3>2, ReleasedRow
  <2> QED
    BY <2>2, <2>3
<1>13. ASSUME NEW q \in Payment, VendorStep(q) \/ Webhook(q) \/ DeskStep(q) PROVE Kept
  <2>1. CASE VendorStep(q)
    BY <1>1, <2>1 DEF VendorStep, DevicePrints, DeviceRefuses, DeviceVoids
  <2>2. CASE Webhook(q)
    BY <1>2, <2>2 DEF Webhook, Result
  <2>3. CASE ReconcilerExpire(q) \/ ExpireWrite(q)
    BY <1>2, <2>3 DEF ReconcilerExpire, ExpireWrite, Result
  <2>4. CASE ReconcilerWarn(q) \/ ExpireCheck(q) \/ ExpireAnswer(q) \/ VoidCheck(q)
    BY <1>1, <2>4 DEF ReconcilerWarn, ExpireCheck, ExpireAnswer, VoidCheck
  <2>5. CASE VoidSale(q)
    <3>1. (OnFiscalResult(q, "voided") \/ UNCHANGED dbVars) /\ UNCHANGED workerVars
      BY <2>5 DEF VoidSale
    <3> QED
      BY <1>1, <1>2, <3>1 DEF Result
  <2> QED
    BY <1>13, <2>1, <2>2, <2>3, <2>4, <2>5 DEF DeskStep
<1>14. ASSUME NEW w \in Worker, NEW q \in Payment, WorkerStep(w, q) PROVE Kept
  <2>1. CASE ApplySyncResult(w, q) \/ FinalizeFailure(w, q) \/ FinalizeCorrupt(w, q)
    BY <1>9, <2>1 DEF ApplySyncResult, FinalizeFailure, FinalizeCorrupt, Reached, Result
  <2> QED
    BY <1>6, <1>10, <1>11, <1>14, <2>1 DEF WorkerStep
<1>15. CASE ListStaleSubmitted \/ UNCHANGED vars
  BY <1>1, <1>15 DEF ListStaleSubmitted, vars
<1> QED
  BY <1>3, <1>4, <1>5, <1>12, <1>13, <1>14, <1>15, <1>16 DEF Next

\* Claims and posts are accounted for in every reachable state.
LEMMA WorkIsInvariant == Spec => []WorkInv
<1>1. Init => WorkInv
  BY ConstantsAssumption
     DEF Init, WorkInv, Claims, Accounts, SettledPosts, Open, InFlight
<1> QED
  BY <1>1, NextKeepsWork, BooksAreInvariant, PTL DEF Spec

\* Unless a claim goes stale under a working worker, no two workers ever hold
\* the same submission.
THEOREM ClaimsAreAlwaysExclusive == Spec => []ClaimsAreExclusive
<1>1. WorkInv => ClaimsAreExclusive
  BY DEF WorkInv, Claims, ClaimsAreExclusive
<1> QED
  BY <1>1, WorkIsInvariant, PTL

\* Then every SubmitSale call after the first is paid for by a recorded submit
\* error or a lost bookkeeping write, and the retry budget is kept.
THEOREM RepostsAreAlwaysAccountedFor == Spec => []RepostsAreAccountedFor
<1>1. WorkInv => RepostsAreAccountedFor
  BY DEF WorkInv, Accounts, RepostsAreAccountedFor
<1> QED
  BY <1>1, WorkIsInvariant, PTL

-----------------------------------------------------------------------------
(* The operator's answer and the device.                                   *)

Resolved(p) == submission[p] \notin (Unresolved \cup {"none"})

\* A resolved row stays resolved, an expired one expired, and applying a result
\* to a row leaves it resolved.
LEMMA ResolvedStays ==
  ASSUME BookInv, BookStep, NEW p \in Payment
  PROVE  /\ Resolved(p) => Resolved(p)'
         /\ submission[p] = "expired" => submission'[p] = "expired"
<1> USE DEF BookInv, TypeOK, Unresolved, Resolved
<1>1. CASE UNCHANGED bookVars
  BY <1>1 DEF bookVars
<1>2. ASSUME NEW q \in Payment, EnqueueSale(q)
      PROVE  /\ Resolved(p) => Resolved(p)'
             /\ submission[p] = "expired" => submission'[p] = "expired"
  BY <1>2 DEF EnqueueSale, StatusesAgree
<1>3. ASSUME NEW q \in Payment, Submits(q)
      PROVE  /\ Resolved(p) => Resolved(p)'
             /\ submission[p] = "expired" => submission'[p] = "expired"
  BY <1>3 DEF Submits
<1>4. ASSUME NEW q \in Payment, NEW result \in Result, Resolves(q, result)
      PROVE  /\ Resolved(p) => Resolved(p)'
             /\ submission[p] = "expired" => submission'[p] = "expired"
  BY <1>4 DEF Resolves, Transitions, SourceStates, ApplyResult, Result
<1> QED
  BY <1>1, <1>2, <1>3, <1>4 DEF BookStep

DeskInv ==
  \A p \in Payment :
    /\ desk[p] = "checked" => submission[p] # "none"
    /\ desk[p] \in {"written", "conflict"} => Resolved(p)
    /\ desk[p] = "expired" => submission[p] = "expired"

\* The three steps of ExpireSubmission are the only ones that write desk.
LEMMA OnlyExpireMovesDesk ==
  ASSUME [Next]_vars
  PROVE  \/ UNCHANGED desk
         \/ \E p \in Payment : ExpireCheck(p) \/ ExpireWrite(p) \/ ExpireAnswer(p)
<1> USE DEF deskVars
<1>1. ASSUME NEW p \in Payment, EnqueueSale(p) \/ VendorStep(p) \/ Webhook(p) \/ ClaimExpires(p)
             \/ ClaimOverlaps(p) \/ BackoffElapses(p)
      PROVE  UNCHANGED desk
  BY <1>1 DEF EnqueueSale, VendorStep, DevicePrints, DeviceRefuses, DeviceVoids, Webhook,
     ClaimExpires, ClaimOverlaps, BackoffElapses
<1>2. ASSUME NEW p \in Payment, ReconcilerExpire(p) \/ ReconcilerWarn(p) \/ VoidCheck(p) \/ VoidSale(p)
      PROVE  UNCHANGED desk
  BY <1>2 DEF ReconcilerExpire, ReconcilerWarn, VoidCheck, VoidSale
<1>3. ASSUME NEW w \in Worker, NEW p \in Payment, WorkerStep(w, p) \/ LoseWrite(w, p)
      PROVE  UNCHANGED desk
  BY <1>3 DEF WorkerStep, SubmitAccepted, SubmitErrored, SubmitAnswered, MarkSubmitted,
     ApplySyncResult, MarkRetry, FinalizeFailure, FinalizeCorrupt, LoseWrite
<1>4. ASSUME NEW w \in Worker, ClaimPending(w) \/ StopWorker(w) PROVE UNCHANGED desk
  BY <1>4 DEF ClaimPending, StopWorker
<1>5. CASE ListStaleSubmitted \/ UNCHANGED vars
  BY <1>5 DEF ListStaleSubmitted, vars
<1> QED
  BY <1>1, <1>2, <1>3, <1>4, <1>5 DEF Next, DeskStep

\* Every step keeps what ExpireSubmission has seen and will answer true.
LEMMA NextKeepsDesk == BookInv /\ DeskInv /\ [Next]_vars => DeskInv'
<1> SUFFICES ASSUME BookInv, DeskInv, [Next]_vars, NEW p \in Payment
             PROVE  /\ desk'[p] = "checked" => submission'[p] # "none"
                    /\ desk'[p] \in {"written", "conflict"} => Resolved(p)'
                    /\ desk'[p] = "expired" => submission'[p] = "expired"
  BY DEF DeskInv
<1>1. BookStep
  BY StepsAreBookSteps
<1>2. /\ Resolved(p) => Resolved(p)'
      /\ submission[p] = "expired" => submission'[p] = "expired"
  BY <1>1, ResolvedStays
<1>3. submission[p] # "none" => submission'[p] # "none"
  BY <1>1 DEF BookStep, bookVars, EnqueueSale, Submits, Resolves, ApplyResult, BookInv,
     TypeOK, Result
<1>4. CASE desk'[p] = desk[p]
  BY <1>2, <1>3, <1>4 DEF DeskInv
<1>5. ASSUME NEW q \in Payment, ExpireCheck(q), desk'[p] # desk[p]
      PROVE  /\ desk'[p] \in {"checked", "conflict"} /\ submission[p] # "none"
             /\ desk'[p] = "conflict" => Resolved(p)
  <2>1. q = p
    BY <1>5 DEF ExpireCheck, SetDesk, BookInv, TypeOK
  <2> QED
    BY <1>5, <2>1 DEF ExpireCheck, SetDesk, BookInv, TypeOK, Resolved, Unresolved
<1>6. ASSUME NEW q \in Payment, ExpireWrite(q), desk'[p] # desk[p]
      PROVE  desk'[p] = "written" /\ Resolved(p)'
  <2>1. q = p /\ desk'[p] = "written" /\ submission[p] # "none" /\ OnFiscalResult(p, "expired")
    BY <1>6 DEF ExpireWrite, SetDesk, BookInv, TypeOK, DeskInv
  <2>2. CASE Transitions(p, "expired") /\ ApplyResult(p, "expired")
    BY <2>1, <2>2 DEF ApplyResult, BookInv, TypeOK, Resolved, Unresolved
  <2>3. CASE ~Transitions(p, "expired") /\ DropResult(p, "expired")
    <3>1. Resolved(p)
      BY <2>1, <2>3 DEF Transitions, SourceStates, PaymentSources, BookInv, StatusesAgree,
         Resolved, Unresolved
    <3> QED
      BY <1>2, <2>1, <3>1
  <2> QED
    BY <2>1, <2>2, <2>3 DEF OnFiscalResult
<1>7. ASSUME NEW q \in Payment, ExpireAnswer(q), desk'[p] # desk[p]
      PROVE  /\ desk'[p] \in {"expired", "conflict"} /\ Resolved(p)'
             /\ desk'[p] = "expired" => submission'[p] = "expired"
  <2>1. q = p /\ desk[p] = "written" /\ submission' = submission
        /\ desk'[p] = IF submission[p] = "expired" THEN "expired" ELSE "conflict"
    BY <1>7 DEF ExpireAnswer, SetDesk, BookInv, TypeOK, dbVars
  <2> QED
    BY <1>2, <2>1 DEF DeskInv
<1>8. CASE desk'[p] # desk[p]
  <2>1. PICK q \in Payment : ExpireCheck(q) \/ ExpireWrite(q) \/ ExpireAnswer(q)
    BY <1>8, OnlyExpireMovesDesk
  <2>2. CASE ExpireCheck(q)
    BY <1>2, <1>3, <1>5, <1>8, <2>2
  <2>3. CASE ExpireWrite(q)
    BY <1>6, <1>8, <2>3
  <2>4. CASE ExpireAnswer(q)
    BY <1>7, <1>8, <2>4
  <2> QED
    BY <2>1, <2>2, <2>3, <2>4
<1> QED
  BY <1>4, <1>8

\* ExpireSubmission tells the operator the truth, however the webhook and the
\* reconciler race it.
THEOREM OperatorIsAlwaysToldTheTruth == Spec => []OperatorAnswerIsTrue
<1>1. Init => DeskInv
  BY DEF Init, DeskInv
<1>2. BookInv /\ DeskInv => OperatorAnswerIsTrue
  BY DEF BookInv, DeskInv, OperatorAnswerIsTrue, StatusesAgree, Resolved, Unresolved
<1> QED
  BY <1>1, <1>2, NextKeepsDesk, BooksAreInvariant, PTL DEF Spec

\* A "completed" result that exists anywhere, as a webhook or in a worker's
\* hands, is evidence of a printed receipt, and evidence does not go away.
Evidence(p) ==
  \/ receipts[p] > 0
  \/ <<p, "completed">> \in webhooks
  \/ \E w \in Worker : task[w][p] = "printed"

PrintInv == \A p \in Payment : Evidence(p) => printed[p] > 0

\* Only a completed result files a receipt.
LEMMA SinkFilesReceipts ==
  ASSUME TypeOK, NEW p \in Payment, NEW q \in Payment, NEW result \in Result,
         OnFiscalResult(q, result)
  PROVE  receipts'[p] = receipts[p] \/ (p = q /\ result = "completed")
<1>1. CASE ApplyResult(q, result)
  BY <1>1 DEF ApplyResult, Bump, BumpIf, TypeOK
<1>2. CASE DropResult(q, result)
  BY <1>2 DEF DropResult, dbVars
<1> QED
  BY <1>1, <1>2 DEF OnFiscalResult

\* Every step keeps the evidence: whatever says "completed" goes back to a
\* receipt the device printed.
LEMMA NextKeepsEvidence == TypeOK /\ PrintInv /\ [Next]_vars => PrintInv'
<1> SUFFICES ASSUME TypeOK, PrintInv, [Next]_vars, NEW p \in Payment, Evidence(p)'
             PROVE  printed'[p] > 0
  BY DEF PrintInv
<1> DEFINE Old == Evidence(p) \/ printed'[p] > printed[p]
           Kept == printed'[p] >= printed[p]
<1>0. TypeOK'
  BY NextKeepsTypes
<1>1. SUFFICES Old /\ Kept
  BY <1>0 DEF PrintInv, TypeOK
<1> USE DEF Evidence, TypeOK, dbVars, workerVars, vendorVars
<1>2. ASSUME UNCHANGED <<receipts, webhooks, printed>>,
             \A w \in Worker : task'[w][p] = "printed" => task[w][p] = "printed"
      PROVE  Old /\ Kept
  BY <1>2
<1>3. ASSUME NEW q \in Payment, NEW result \in Result, OnFiscalResult(q, result),
             result = "completed" => Evidence(q), UNCHANGED <<webhooks, printed>>,
             \A w \in Worker : task'[w][p] = "printed" => task[w][p] = "printed"
      PROVE  Old /\ Kept
  <2>1. receipts'[p] = receipts[p] \/ (p = q /\ result = "completed")
    BY <1>3, SinkFilesReceipts
  <2>2. CASE receipts'[p] = receipts[p]
    BY <1>3, <2>2
  <2>3. CASE p = q /\ result = "completed"
    BY <1>3, <2>3
  <2> QED
    BY <2>1, <2>2, <2>3
<1>4. ASSUME NEW q \in Payment, EnqueueSale(q) \/ ClaimExpires(q) \/ ClaimOverlaps(q)
             \/ BackoffElapses(q)
      PROVE  Old /\ Kept
  <2>1. UNCHANGED <<receipts, webhooks, printed, task>>
    BY <1>4 DEF EnqueueSale, ClaimExpires, ClaimOverlaps, BackoffElapses
  <2> QED
    BY <1>2, <2>1
<1>5. ASSUME NEW q \in Payment, VendorStep(q) PROVE Old /\ Kept
  <2>1. CASE DevicePrints(q)
    BY <2>1 DEF DevicePrints, Notify, Bump
  <2>2. CASE DeviceRefuses(q) \/ DeviceVoids(q)
    BY <2>2 DEF DeviceRefuses, DeviceVoids, Notify
  <2> QED
    BY <1>5, <2>1, <2>2 DEF VendorStep
<1>6. ASSUME NEW q \in Payment, Webhook(q) PROVE Old /\ Kept
  BY <1>3, <1>6 DEF Webhook, Result
<1>7. ASSUME NEW q \in Payment, DeskStep(q) PROVE Old /\ Kept
  <2>1. CASE ReconcilerExpire(q) \/ ExpireWrite(q)
    BY <1>3, <2>1 DEF ReconcilerExpire, ExpireWrite, Result
  <2>2. CASE ReconcilerWarn(q) \/ ExpireCheck(q) \/ ExpireAnswer(q) \/ VoidCheck(q)
    BY <1>2, <2>2 DEF ReconcilerWarn, ExpireCheck, ExpireAnswer, VoidCheck
  <2>3. CASE VoidSale(q)
    <3>1. /\ OnFiscalResult(q, "voided") \/ UNCHANGED dbVars
          /\ UNCHANGED <<workerVars, webhooks, printed>>
      BY <2>3 DEF VoidSale
    <3> QED
      BY <1>2, <1>3, <3>1 DEF Result
  <2> QED
    BY <1>7, <2>1, <2>2, <2>3 DEF DeskStep
<1>8. ASSUME NEW w \in Worker, ClaimPending(w) \/ StopWorker(w) PROVE Old /\ Kept
  <2>1. PICK row \in [Payment -> Phase] :
          task' = [task EXCEPT ![w] = row] /\ (row[p] = "printed" => task[w][p] = "printed")
    <3> USE DEF Phase
    <3>1. CASE StopWorker(w)
      <4> WITNESS [q \in Payment |-> "none"] \in [Payment -> Phase]
      <4> QED
        BY <3>1 DEF StopWorker
    <3>2. CASE ClaimPending(w)
      <4>1. PICK batch \in Batches :
              task' = [task EXCEPT ![w] =
                         [q \in Payment |-> IF q \in Rows(batch) THEN "queued" ELSE @[q]]]
        BY <3>2 DEF ClaimPending
      <4> WITNESS [q \in Payment |-> IF q \in Rows(batch) THEN "queued" ELSE task[w][q]]
                    \in [Payment -> Phase]
      <4> QED
        BY <4>1
    <3> QED
      BY <1>8, <3>1, <3>2
  <2>2. \A v \in Worker : task'[v][p] = "printed" => task[v][p] = "printed"
    BY <2>1
  <2> QED
    BY <1>2, <1>8, <2>2 DEF ClaimPending, StopWorker
<1>9. ASSUME NEW w \in Worker, NEW q \in Payment, WorkerStep(w, q) \/ LoseWrite(w, q)
      PROVE  Old /\ Kept
  <2>1. CASE SubmitAccepted(w, q) \/ MarkSubmitted(w, q) \/ MarkRetry(w, q) \/ LoseWrite(w, q)
    <3>1. PICK phase \in {"accepted", "none"} : task' = SetTask(w, q, phase)
      BY <2>1 DEF SubmitAccepted, MarkSubmitted, MarkRetry, LoseWrite, NextRow
    <3>2. \A v \in Worker : task'[v][p] = "printed" => task[v][p] = "printed"
      BY <3>1 DEF SetTask
    <3>3. UNCHANGED <<receipts, webhooks, printed>>
      BY <2>1 DEF SubmitAccepted, MarkSubmitted, MarkRetry, LoseWrite
    <3> QED
      BY <1>2, <3>2, <3>3
  <2>2. CASE SubmitErrored(w, q)
    <3>1. \A v \in Worker : task'[v][p] = "printed" => task[v][p] = "printed"
      BY <2>2 DEF SubmitErrored, SetTask
    <3>2. UNCHANGED <<receipts, webhooks>> /\ Kept
      BY <2>2 DEF SubmitErrored, Bump, BumpIf
    <3> QED
      BY <3>1, <3>2
  <2>3. CASE SubmitAnswered(w, q)
    <3> HIDE DEF Evidence, Old, Kept
    <3>1. CASE task' = SetTask(w, q, "refused") /\ printed' = printed
      <4>1. \A v \in Worker : task'[v][p] = "printed" => task[v][p] = "printed"
        BY <3>1 DEF SetTask
      <4> QED
        BY <1>2, <2>3, <3>1, <4>1 DEF SubmitAnswered
    <3>2. CASE task' = SetTask(w, q, "printed") /\ printed' = Bump(printed, q)
      <4>1. q # p => \A v \in Worker : task'[v][p] = task[v][p]
        BY <3>2 DEF SetTask
      <4>2. q = p => printed'[p] > printed[p]
        BY <3>2 DEF Bump
      <4>3. Kept
        BY <3>2 DEF Bump, Kept
      <4> QED
        BY <2>3, <4>1, <4>2, <4>3 DEF SubmitAnswered, Old, Evidence
    <3> QED
      BY <2>3, <3>1, <3>2 DEF SubmitAnswered
  <2>4. CASE ApplySyncResult(w, q)
    <3>0. task' = SetTask(w, q, "none")
      BY <2>4 DEF ApplySyncResult, NextRow
    <3>1. \A v \in Worker : task'[v][p] = "printed" => task[v][p] = "printed"
      BY <3>0 DEF SetTask
    <3>2. \/ task[w][q] = "printed" /\ OnFiscalResult(q, "completed")
          \/ OnFiscalResult(q, "failed")
      BY <2>4 DEF ApplySyncResult
    <3> QED
      BY <1>3, <2>4, <3>1, <3>2 DEF ApplySyncResult, Result
  <2>5. CASE FinalizeFailure(w, q) \/ FinalizeCorrupt(w, q)
    <3>1. task' = SetTask(w, q, "none")
      BY <2>5 DEF FinalizeFailure, FinalizeCorrupt, NextRow
    <3>2. \A v \in Worker : task'[v][p] = "printed" => task[v][p] = "printed"
      BY <3>1 DEF SetTask
    <3> QED
      BY <1>3, <2>5, <3>2 DEF FinalizeFailure, FinalizeCorrupt, Result
  <2> QED
    BY <1>9, <2>1, <2>2, <2>3, <2>4, <2>5 DEF WorkerStep
<1>10. CASE ListStaleSubmitted \/ UNCHANGED vars
  BY <1>2, <1>10 DEF ListStaleSubmitted, vars
<1> QED
  BY <1>4, <1>5, <1>6, <1>7, <1>8, <1>9, <1>10 DEF Next

\* In every reachable state whatever says "completed" goes back to paper.
LEMMA PaperIsInvariant == Spec => []PrintInv
<1>1. Init => PrintInv
  BY DEF Init, PrintInv, Evidence
<1> QED
  BY <1>1, NextKeepsEvidence, TypeCorrect, PTL DEF Spec

\* The books never record a receipt the device did not print.
THEOREM ReceiptsAreGenuine == Spec => []RecordedReceiptsWerePrinted
<1>1. PrintInv => RecordedReceiptsWerePrinted
  BY DEF PrintInv, Evidence, RecordedReceiptsWerePrinted
<1> QED
  BY <1>1, PaperIsInvariant, PTL

\* Every completed payment has one receipt and one event, and the device printed it.
THEOREM BooksAreAlwaysTrue == Spec => []BooksAreTrue
<1>1. BooksAgree /\ RecordedReceiptsWerePrinted => BooksAreTrue
  BY DEF BooksAreTrue
<1> QED
  BY <1>1, BooksAlwaysAgree, ReceiptsAreGenuine, PTL

-----------------------------------------------------------------------------
(* The terminals.  A basket in flight belongs to the row at the head of    *)
(* its shard: processShard leaves the row there until process returns, and *)
(* RunOnce replaces the shards only when all of them have drained.         *)

HeadsAreOut ==
  \A w \in Worker, p \in Payment : task[w][p] \in InFlight => AtHead(w, p)

\* processShard goes on only from the row it has in hand.
LEMMA NextRowKeepsHeads ==
  ASSUME TypeOK, HeadsAreOut, NEW w \in Worker, NEW q \in Payment, AtHead(w, q), NextRow(w, q)
  PROVE  HeadsAreOut'
<1> SUFFICES ASSUME NEW v \in Worker, NEW p \in Payment, task'[v][p] \in InFlight
             PROVE  AtHead(v, p)'
  BY DEF HeadsAreOut
<1>1. ~(v = w /\ p = q) /\ task'[v][p] = task[v][p]
  BY DEF TypeOK, NextRow, SetTask, InFlight
<1>2. AtHead(v, p)
  BY <1>1 DEF HeadsAreOut
<1>3. CASE v # w
  <2>1. shards'[v] = shards[v]
    BY <1>3 DEF TypeOK, NextRow
  <2> QED
    BY <1>2, <2>1 DEF AtHead, shardKeyOf
<1>4. CASE v = w
  <2>1. shardKeyOf(p) # shardKeyOf(q)
    BY <1>1, <1>2, <1>4 DEF AtHead
  <2>2. DOMAIN shards'[w] = DOMAIN shards[w]
    BY DEF TypeOK, NextRow
  <2>3. shardKeyOf(p) \in DOMAIN shards[w]
    BY <1>2, <1>4 DEF AtHead
  <2>4. shards'[w][shardKeyOf(p)] = shards[w][shardKeyOf(p)]
    BY <2>1, <2>3 DEF TypeOK, NextRow
  <2> QED
    BY <1>2, <1>4, <2>2, <2>4 DEF AtHead, shardKeyOf
<1> QED
  BY <1>3, <1>4

\* Every step keeps the baskets in flight at the heads of their shards.
LEMMA NextKeepsHeads == TypeOK /\ HeadsAreOut /\ [Next]_vars => HeadsAreOut'
<1> SUFFICES ASSUME TypeOK, HeadsAreOut, [Next]_vars PROVE HeadsAreOut'
  OBVIOUS
<1> USE DEF workerVars
<1>1. ASSUME UNCHANGED <<task, shards>> PROVE HeadsAreOut'
  BY <1>1 DEF HeadsAreOut, AtHead, shardKeyOf
<1>2. ASSUME NEW w \in Worker, NEW p \in Payment, NEW phase \in InFlight,
             AtHead(w, p), task' = SetTask(w, p, phase), UNCHANGED shards
      PROVE  HeadsAreOut'
  <2>1. \A v \in Worker, q \in Payment : ~(v = w /\ q = p) => task'[v][q] = task[v][q]
    BY <1>2 DEF TypeOK, SetTask
  <2>2. \A v \in Worker, q \in Payment : AtHead(v, q) => AtHead(v, q)'
    BY <1>2 DEF AtHead, shardKeyOf
  <2> QED
    BY <1>2, <2>1, <2>2 DEF HeadsAreOut
<1>3. ASSUME NEW w \in Worker, ClaimPending(w) \/ StopWorker(w) PROVE HeadsAreOut'
  <2>1. ASSUME NEW v \in Worker, NEW p \in Payment, task'[v][p] \in InFlight
        PROVE  v # w /\ task[v][p] \in InFlight
    <3>1. ~(v = w) => task'[v] = task[v]
      BY <1>3 DEF TypeOK, ClaimPending, StopWorker
    <3>2. CASE v = w /\ StopWorker(w)
      BY <2>1, <3>2 DEF TypeOK, StopWorker, InFlight
    <3>3. CASE v = w /\ ClaimPending(w)
      <4>1. task[w][p] \in InFlight
        BY <2>1, <3>3 DEF TypeOK, ClaimPending, InFlight
      <4>2. AtHead(w, p)
        BY <4>1 DEF HeadsAreOut
      <4> QED
        BY <3>3, <4>2 DEF ClaimPending, Idle, AtHead
    <3> QED
      BY <1>3, <2>1, <3>1, <3>2, <3>3
  <2>2. \A v \in Worker : v # w => shards'[v] = shards[v]
    BY <1>3 DEF TypeOK, ClaimPending, StopWorker
  <2> QED
    BY <2>1, <2>2 DEF HeadsAreOut, AtHead, shardKeyOf
<1>4. ASSUME NEW w \in Worker, NEW p \in Payment, WorkerStep(w, p) \/ LoseWrite(w, p)
      PROVE  HeadsAreOut'
  <2>1. CASE SubmitAccepted(w, p) \/ SubmitErrored(w, p) \/ SubmitAnswered(w, p)
    <3>1. PICK phase \in InFlight : task' = SetTask(w, p, phase)
      BY <2>1 DEF SubmitAccepted, SubmitErrored, SubmitAnswered, InFlight
    <3>2. AtHead(w, p) /\ UNCHANGED shards
      BY <2>1 DEF SubmitAccepted, SubmitErrored, SubmitAnswered, MayStart, Reached
    <3> QED
      BY <1>2, <3>1, <3>2
  <2>2. CASE \/ MarkSubmitted(w, p) \/ ApplySyncResult(w, p) \/ MarkRetry(w, p)
             \/ FinalizeFailure(w, p) \/ FinalizeCorrupt(w, p) \/ LoseWrite(w, p)
    <3>1. NextRow(w, p)
      BY <2>2 DEF MarkSubmitted, ApplySyncResult, MarkRetry, FinalizeFailure, FinalizeCorrupt,
         LoseWrite
    <3>2. task[w][p] \in InFlight \/ AtHead(w, p)
      BY <2>2 DEF MarkSubmitted, ApplySyncResult, MarkRetry, FinalizeFailure, FinalizeCorrupt,
         LoseWrite, Reached, InFlight
    <3>3. AtHead(w, p)
      BY <3>2 DEF HeadsAreOut
    <3> QED
      BY <3>1, <3>3, NextRowKeepsHeads
  <2> QED
    BY <1>4, <2>1, <2>2 DEF WorkerStep
<1>5. ASSUME NEW p \in Payment,
             \/ EnqueueSale(p) \/ VendorStep(p) \/ Webhook(p) \/ DeskStep(p)
             \/ ClaimExpires(p) \/ ClaimOverlaps(p) \/ BackoffElapses(p)
      PROVE  UNCHANGED <<task, shards>>
  <2>1. CASE EnqueueSale(p) \/ Webhook(p) \/ ClaimExpires(p) \/ ClaimOverlaps(p)
             \/ BackoffElapses(p)
    BY <2>1 DEF EnqueueSale, Webhook, ClaimExpires, ClaimOverlaps, BackoffElapses
  <2>2. CASE VendorStep(p)
    BY <2>2 DEF VendorStep, DevicePrints, DeviceRefuses, DeviceVoids
  <2>3. CASE DeskStep(p)
    BY <2>3 DEF DeskStep, ReconcilerExpire, ReconcilerWarn, ExpireCheck, ExpireWrite,
       ExpireAnswer, VoidCheck, VoidSale
  <2> QED
    BY <1>5, <2>1, <2>2, <2>3
<1>6. CASE ListStaleSubmitted \/ UNCHANGED vars
  BY <1>1, <1>6 DEF ListStaleSubmitted, vars
<1> QED
  BY <1>1, <1>3, <1>4, <1>5, <1>6 DEF Next

\* Within one process a terminal never has two baskets in flight, for any batch size, any
\* claim order and any split of the payments over terminals: both would be the head of the
\* one shard that holds the terminal's rows.
THEOREM TerminalsAreAlwaysExclusive == Spec => []OneBasketPerTerminal
<1>1. Init => HeadsAreOut
  BY DEF Init, HeadsAreOut, InFlight
<1>2. HeadsAreOut => OneBasketPerTerminal
  BY DEF HeadsAreOut, OneBasketPerTerminal, AtHead, shardKeyOf
<1> QED
  BY <1>1, <1>2, NextKeepsHeads, TypeCorrect, PTL DEF Spec

-----------------------------------------------------------------------------
(* Lost receipts.                                                          *)

\* The device printed a basket of the row; or the news that it did not is on its way, or
\* has closed the row.
Registered(p) == printed[p] > 0
Declined(p) ==
  \/ \E result \in {"failed", "voided"} : <<p, result>> \in webhooks
  \/ \E w \in Worker : task[w][p] = "refused"
  \/ submission[p] \in {"failed", "voided"}

\* No basket of the row has been dealt with.
Unanswered(p) == posts[p] = 0 \/ (~Sync /\ answered[p] = 0)

\* A worker has found the retry budget of the row spent.
Exhausted(p) ==
  \E w \in Worker : task[w][p] = "errored" /\ snapshot[w][p] + 1 > MaxRetries

\* The vendor deals only with what was posted; a count above zero, in the row or in the
\* copy a worker read, was left by an earlier post.  A payload that does not parse is
\* never posted.
PostsAreCounted(p) ==
  /\ answered[p] <= reached[p] /\ reached[p] <= posts[p]
  /\ retryCount[p] > 0 => posts[p] > 0
  /\ submission[p] = "none" => posts[p] = 0 /\ ~Held(p) /\ ~corrupt[p]
  /\ corrupt[p] => posts[p] = 0
  /\ \A w \in Worker :
       /\ task[w][p] \in InFlight => posts[p] > 0
       /\ task[w][p] # "none" /\ snapshot[w][p] > 0 => posts[p] > 0
       /\ task[w][p] \in InFlight /\ snapshot[w][p] > 0 => posts[p] > 1

\* A void is asked only of a payment whose receipt the books have.
VoidsWereReceipted(p) == p \in voiding \cup voidAsked => receipts[p] > 0

\* A basket that was posted once is answered once: printed or not, never both.
OneAnswerPerPost(p) ==
  /\ ~Sync => \A w \in Worker : task[w][p] \notin {"printed", "refused"}
  /\ receipts[p] = 0 /\ posts[p] <= 1 =>
       /\ ~(Registered(p) /\ Declined(p))
       /\ Unanswered(p) => ~Registered(p) /\ (Declined(p) => corrupt[p])

\* The inductive invariant of a row.
RowInv(p) == PostsAreCounted(p) /\ VoidsWereReceipted(p) /\ OneAnswerPerPost(p)

AnswerInv == \A p \in Payment : RowInv(p)

\* What a step does to one row, whichever row it is about: its results on the way,
SameMail(p) == \A result \in Result : <<p, result>> \in webhooks' <=> <<p, result>> \in webhooks

\* and what the workers do with it, may stay as they are.
SameTasks(p) ==
  \A v \in Worker : task'[v][p] = task[v][p] /\ snapshot'[v][p] = snapshot[v][p]

\* Its basket goes to the adapter.
PostsRow(w, p) ==
  /\ task[w][p] = "queued" /\ ~corrupt[p] /\ ~corrupt'[p]
  /\ task'[w][p] \in IF Sync THEN {"errored", "printed", "refused"} ELSE {"accepted", "errored"}
  /\ \A v \in Worker : v # w => task'[v][p] = task[v][p]
  /\ \A v \in Worker : snapshot'[v][p] = snapshot[v][p]
  /\ posts'[p] = posts[p] + 1
  /\ reached'[p] \in {reached[p], reached[p] + 1}
  /\ answered'[p] = answered[p]
  /\ \/ printed'[p] = printed[p]
     \/ Sync /\ task'[w][p] # "refused" /\ printed'[p] = printed[p] + 1
  /\ submission'[p] = submission[p]
  /\ retryCount'[p] = retryCount[p]
  /\ SameMail(p)
  /\ UNCHANGED <<voiding, voidAsked>>

\* The device deals with its basket, or with a request to void.
AnswersRow(p) ==
  /\ \/ BasketOpen(p) /\ answered'[p] = answered[p] + 1
     \/ p \in voidAsked /\ answered'[p] = answered[p]
  /\ \E result \in {"completed", "failed", "voided"} :
       /\ \A r \in Result : <<p, r>> \in webhooks' <=> <<p, r>> \in webhooks \/ r = result
       /\ answered'[p] = answered[p] => result # "completed"
       /\ printed'[p] = IF result = "completed" THEN printed[p] + 1 ELSE printed[p]
  /\ corrupt'[p] = corrupt[p]
  /\ SameTasks(p)
  /\ posts'[p] = posts[p] /\ reached'[p] = reached[p]
  /\ submission'[p] = submission[p]
  /\ retryCount'[p] = retryCount[p]
  /\ voiding' = voiding /\ voidAsked' \subseteq voidAsked

\* Neither: a worker may claim or release it, a result may close it.
KeepsRow(p) ==
  /\ posts'[p] = posts[p] /\ reached'[p] = reached[p] /\ answered'[p] = answered[p]
  /\ printed'[p] = printed[p]
  /\ \/ corrupt'[p] = corrupt[p]
     \/ submission[p] = "none" /\ submission'[p] = "pending"
  /\ SameMail(p)
  /\ \A v \in Worker :
       \/ task'[v][p] = task[v][p] /\ snapshot'[v][p] = snapshot[v][p]
       \/ task'[v][p] = "none"
       \/ /\ task'[v][p] = "queued" /\ snapshot'[v][p] = retryCount[p]
          /\ submission[p] = "pending"
  /\ retryCount'[p] = retryCount[p] \/ \E w \in Worker : task[w][p] = "errored"
  /\ submission'[p] = "none" => submission[p] = "none"
  /\ submission[p] = "none" /\ submission'[p] # "none" => submission'[p] = "pending"
  /\ submission'[p] \in {"failed", "voided"} =>
       Declined(p) \/ Exhausted(p) \/ p \in voiding \/ corrupt[p]
  /\ p \in voiding' \cup voidAsked' =>
       p \in voiding \cup voidAsked \/ submission[p] = "completed"

\* A step posts a row, answers it or keeps it, and no receipt is ever removed.
RowStep(p) ==
  /\ receipts'[p] >= receipts[p]
  /\ (\E w \in Worker : PostsRow(w, p)) \/ AnswersRow(p) \/ KeepsRow(p)

\* A step that leaves a row alone.
LEMMA RowRests ==
  ASSUME TypeOK, NEW p \in Payment, SameTasks(p), SameMail(p),
         posts'[p] = posts[p], reached'[p] = reached[p], answered'[p] = answered[p],
         printed'[p] = printed[p], corrupt'[p] = corrupt[p],
         retryCount'[p] = retryCount[p], submission'[p] = submission[p],
         receipts'[p] = receipts[p],
         p \in voiding' \cup voidAsked' =>
           p \in voiding \cup voidAsked \/ submission[p] = "completed"
  PROVE  RowStep(p)
<1>1. receipts'[p] >= receipts[p]
  BY DEF TypeOK
<1>2. KeepsRow(p)
  BY DEF KeepsRow, SameTasks, Declined
<1> QED BY <1>1, <1>2 DEF RowStep

\* A result closes its row and touches no other.
LEMMA SinkRow ==
  ASSUME TypeOK, NEW p \in Payment, NEW q \in Payment, NEW result \in Result,
         OnFiscalResult(q, result)
  PROVE  /\ retryCount'[p] = retryCount[p] /\ corrupt'[p] = corrupt[p]
         /\ receipts'[p] >= receipts[p]
         /\ \/ submission'[p] = submission[p]
            \/ p = q /\ submission[p] # "none" /\ submission'[p] = result
<1>1. CASE Transitions(q, result) /\ ApplyResult(q, result)
  BY <1>1 DEF TypeOK, Transitions, SourceStates, ApplyResult, Bump, BumpIf
<1>2. CASE DropResult(q, result)
  BY <1>2 DEF DropResult, dbVars, TypeOK
<1> QED BY <1>1, <1>2 DEF OnFiscalResult

\* A result that is applied had its reason.
LEMMA SinkKeepsRow ==
  ASSUME TypeOK, NEW p \in Payment, NEW q \in Payment, NEW result \in Result,
         OnFiscalResult(q, result),
         result \in {"failed", "voided"} =>
           Declined(q) \/ Exhausted(q) \/ q \in voiding \/ corrupt[q],
         UNCHANGED <<posts, reached, answered, printed, webhooks, voidAsked, snapshot>>,
         voiding' \subseteq voiding,
         \A v \in Worker : task'[v][p] \in {task[v][p], "none"}
  PROVE  RowStep(p)
<1>1. /\ retryCount'[p] = retryCount[p] /\ corrupt'[p] = corrupt[p]
      /\ receipts'[p] >= receipts[p]
      /\ \/ submission'[p] = submission[p]
         \/ p = q /\ submission[p] # "none" /\ submission'[p] = result
  BY SinkRow
<1>2. submission'[p] \in {"failed", "voided"} =>
        Declined(p) \/ Exhausted(p) \/ p \in voiding \/ corrupt[p]
  BY <1>1 DEF Declined
<1>3. submission'[p] = "none" => submission[p] = "none"
  BY <1>1 DEF Result
<1>4. KeepsRow(p)
  BY <1>1, <1>2, <1>3 DEF KeepsRow, SameMail
<1> QED BY <1>1, <1>4 DEF RowStep

\* Every step does one of the three things to every row.
LEMMA StepsAreRowSteps ==
  ASSUME BookInv, [Next]_vars, NEW p \in Payment
  PROVE  RowStep(p)
<1>0. TypeOK
  BY DEF BookInv
<1> USE <1>0 DEF dbVars, workerVars, vendorVars, deskVars
<1>1. ASSUME NEW q \in Payment, EnqueueSale(q) PROVE RowStep(p)
  <2>1. /\ receipts'[p] >= receipts[p] /\ SameMail(p)
        /\ posts'[p] = posts[p] /\ reached'[p] = reached[p] /\ answered'[p] = answered[p]
        /\ printed'[p] = printed[p]
        /\ retryCount'[p] = retryCount[p] /\ voiding' = voiding /\ voidAsked' = voidAsked
        /\ \A v \in Worker : task'[v][p] = task[v][p] /\ snapshot'[v][p] = snapshot[v][p]
    BY <1>1 DEF EnqueueSale, SameMail, TypeOK
  <2>2. \/ submission'[p] = submission[p] /\ corrupt'[p] = corrupt[p]
        \/ submission[p] = "none" /\ submission'[p] = "pending"
    BY <1>1 DEF EnqueueSale, BookInv, StatusesAgree, TypeOK
  <2> QED BY <2>1, <2>2 DEF RowStep, KeepsRow, Declined
<1>2. ASSUME NEW q \in Payment, VendorStep(q) PROVE RowStep(p)
  <2>1. CASE q # p
    <3>1. SameMail(p) /\ answered'[p] = answered[p] /\ printed'[p] = printed[p]
      BY <1>2, <2>1 DEF VendorStep, DevicePrints, DeviceRefuses, DeviceVoids, Notify, SameMail,
         Bump, TypeOK
    <3>2. /\ SameTasks(p) /\ posts'[p] = posts[p] /\ reached'[p] = reached[p]
          /\ retryCount'[p] = retryCount[p] /\ submission'[p] = submission[p]
          /\ receipts'[p] = receipts[p] /\ voiding' = voiding /\ voidAsked' \subseteq voidAsked
          /\ corrupt'[p] = corrupt[p]
      BY <1>2 DEF VendorStep, DevicePrints, DeviceRefuses, DeviceVoids, SameTasks
    <3> QED BY <3>1, <3>2, RowRests
  <2>2. CASE q = p
    <3>1. /\ SameTasks(p) /\ posts'[p] = posts[p] /\ reached'[p] = reached[p]
          /\ retryCount'[p] = retryCount[p] /\ submission'[p] = submission[p]
          /\ receipts'[p] >= receipts[p] /\ voiding' = voiding /\ voidAsked' \subseteq voidAsked
          /\ corrupt'[p] = corrupt[p]
      BY <1>2 DEF VendorStep, DevicePrints, DeviceRefuses, DeviceVoids, SameTasks, TypeOK
    <3>2. CASE DevicePrints(p)
      <4>1. /\ BasketOpen(p) /\ answered'[p] = answered[p] + 1 /\ answered[p] \in Nat
            /\ printed'[p] = printed[p] + 1
        BY <3>2 DEF DevicePrints, Bump, TypeOK
      <4>2. \A r \in Result :
              <<p, r>> \in webhooks' <=> <<p, r>> \in webhooks \/ r = "completed"
        BY <3>2 DEF DevicePrints, Notify
      <4> QED BY <3>1, <4>1, <4>2 DEF AnswersRow, RowStep
    <3>3. CASE DeviceRefuses(p)
      <4>1. /\ BasketOpen(p) /\ answered'[p] = answered[p] + 1 /\ answered[p] \in Nat
            /\ printed'[p] = printed[p]
        BY <3>3 DEF DeviceRefuses, Bump, TypeOK
      <4>2. PICK result \in {"failed", "voided"} : Notify(p, result)
        BY <3>3 DEF DeviceRefuses
      <4>3. \A r \in Result :
              <<p, r>> \in webhooks' <=> <<p, r>> \in webhooks \/ r = result
        BY <4>2 DEF Notify
      <4> QED BY <3>1, <4>1, <4>3 DEF AnswersRow, RowStep
    <3>4. CASE DeviceVoids(p)
      <4>1. p \in voidAsked /\ answered'[p] = answered[p] /\ printed'[p] = printed[p]
        BY <3>4 DEF DeviceVoids
      <4>2. PICK result \in {"failed", "voided"} : Notify(p, result)
        BY <3>4 DEF DeviceVoids
      <4>3. \A r \in Result :
              <<p, r>> \in webhooks' <=> <<p, r>> \in webhooks \/ r = result
        BY <4>2 DEF Notify
      <4> QED BY <3>1, <4>1, <4>3 DEF AnswersRow, RowStep
    <3> QED BY <1>2, <2>2, <3>2, <3>3, <3>4 DEF VendorStep
  <2> QED BY <2>1, <2>2
<1>3. ASSUME NEW q \in Payment, Webhook(q) PROVE RowStep(p)
  <2>1. PICK result \in {"completed", "failed", "voided"} :
          <<q, result>> \in webhooks /\ OnFiscalResult(q, result)
    BY <1>3 DEF Webhook
  <2>2. result \in Result /\ (result \in {"failed", "voided"} => Declined(q))
    BY <2>1 DEF Result, Declined
  <2>3. UNCHANGED <<task, posts, reached, answered, printed, webhooks, voidAsked, snapshot, voiding>>
    BY <1>3 DEF Webhook
  <2> QED BY <2>1, <2>2, <2>3, SinkKeepsRow
<1>4. ASSUME NEW q \in Payment, DeskStep(q) PROVE RowStep(p)
  <2>1. UNCHANGED <<task, posts, reached, answered, printed, webhooks, snapshot>>
    BY <1>4 DEF DeskStep, ReconcilerExpire, ReconcilerWarn, ExpireCheck, ExpireWrite,
       ExpireAnswer, VoidCheck, VoidSale
  <2>2. CASE ReconcilerExpire(q) \/ ExpireWrite(q)
    <3>1. OnFiscalResult(q, "expired") /\ UNCHANGED <<voiding, voidAsked>>
      BY <2>2 DEF ReconcilerExpire, ExpireWrite
    <3>2. "expired" \in Result /\ "expired" \notin {"failed", "voided"}
      BY DEF Result
    <3> QED BY <2>1, <3>1, <3>2, SinkKeepsRow
  <2>3. CASE ReconcilerWarn(q) \/ ExpireCheck(q) \/ ExpireAnswer(q)
    <3>1. UNCHANGED <<dbVars, voiding, voidAsked>>
      BY <2>3 DEF ReconcilerWarn, ExpireCheck, ExpireAnswer
    <3> QED BY <2>1, <3>1, RowRests DEF SameTasks, SameMail
  <2>4. CASE VoidCheck(q)
    <3>1. UNCHANGED <<dbVars, voidAsked>>
      BY <2>4 DEF VoidCheck
    <3>2. p \in voiding' => p \in voiding \/ submission[p] = "completed"
      BY <2>4 DEF VoidCheck
    <3> QED BY <2>1, <3>1, <3>2, RowRests DEF SameTasks, SameMail
  <2>5. CASE VoidSale(q)
    <3>1. q \in voiding /\ voiding' \subseteq voiding /\ voidAsked' \subseteq voidAsked \cup voiding
      BY <2>5 DEF VoidSale
    <3>2. CASE UNCHANGED dbVars
      BY <2>1, <3>1, <3>2, RowRests DEF SameTasks, SameMail
    <3>3. CASE OnFiscalResult(q, "voided") /\ UNCHANGED voidAsked
      <4>1. "voided" \in Result
        BY DEF Result
      <4> QED BY <2>1, <3>1, <3>3, <4>1, SinkKeepsRow
    <3> QED BY <2>5, <3>2, <3>3 DEF VoidSale
  <2> QED BY <1>4, <2>2, <2>3, <2>4, <2>5 DEF DeskStep
<1>5. ASSUME NEW q \in Payment, ClaimExpires(q) \/ ClaimOverlaps(q) \/ BackoffElapses(q)
      PROVE  RowStep(p)
  <2>1. UNCHANGED <<submission, receipts, retryCount, corrupt, task, posts, snapshot,
                    vendorVars, deskVars>>
    BY <1>5 DEF ClaimExpires, ClaimOverlaps, BackoffElapses
  <2> QED BY <2>1, RowRests DEF SameTasks, SameMail
<1>6. ASSUME NEW w \in Worker, ClaimPending(w) PROVE RowStep(p)
  <2>1. UNCHANGED <<submission, receipts, retryCount, corrupt, posts, vendorVars, deskVars>>
    BY <1>6 DEF ClaimPending
  <2>2. PICK rows \in SUBSET Claimable :
          /\ task' = [task EXCEPT ![w] =
                        [q \in Payment |-> IF q \in rows THEN "queued" ELSE @[q]]]
          /\ snapshot' = [snapshot EXCEPT ![w] =
                            [q \in Payment |-> IF q \in rows THEN retryCount[q] ELSE @[q]]]
    BY <1>6, ClaimedRows
  <2>3. \A v \in Worker :
          \/ task'[v][p] = task[v][p] /\ snapshot'[v][p] = snapshot[v][p]
          \/ /\ task'[v][p] = "queued" /\ snapshot'[v][p] = retryCount[p]
             /\ submission[p] = "pending"
    BY <2>2 DEF TypeOK, Claimable
  <2>4. KeepsRow(p)
    BY <2>1, <2>3 DEF KeepsRow, SameMail, Declined
  <2> QED BY <2>1, <2>4 DEF RowStep, TypeOK
<1>7. ASSUME NEW w \in Worker, NEW q \in Payment,
             SubmitAccepted(w, q) \/ SubmitErrored(w, q) \/ SubmitAnswered(w, q)
      PROVE  RowStep(p)
  <2>1. UNCHANGED <<submission, receipts, retryCount, corrupt, snapshot, answered, webhooks,
                    voidAsked, voiding>>
    BY <1>7 DEF SubmitAccepted, SubmitErrored, SubmitAnswered
  <2>2. PICK phase \in (IF Sync THEN {"errored", "printed", "refused"}
                                ELSE {"accepted", "errored"}) :
          task' = SetTask(w, q, phase)
    BY <1>7, ConstantsAssumption DEF SubmitAccepted, SubmitErrored, SubmitAnswered
  <2>3. task[w][q] = "queued" /\ ~corrupt[q] /\ posts' = Bump(posts, q)
    BY <1>7 DEF SubmitAccepted, SubmitErrored, SubmitAnswered, MayStart, Reached
  <2>4. /\ reached' = Bump(reached, q) \/ reached' = reached
        /\ printed' = printed \/ (Sync /\ printed' = Bump(printed, q))
    BY <1>7 DEF SubmitAccepted, SubmitErrored, SubmitAnswered, BumpIf
  <2>7. task' = SetTask(w, q, "refused") => printed' = printed
    <3>1. ASSUME NEW ph \in InFlight, ph # "refused", task' = SetTask(w, q, ph)
          PROVE  task' # SetTask(w, q, "refused")
      <4>1. SetTask(w, q, ph)[w][q] = ph /\ SetTask(w, q, "refused")[w][q] = "refused"
        BY DEF SetTask, TypeOK
      <4> QED BY <3>1, <4>1
    <3>2. \/ \E ph \in {"accepted", "errored", "printed"} : task' = SetTask(w, q, ph)
          \/ printed' = printed
      BY <1>7 DEF SubmitAccepted, SubmitErrored, SubmitAnswered
    <3> QED BY <3>1, <3>2 DEF InFlight
  <2>5. CASE q # p
    <3>1. posts'[p] = posts[p] /\ reached'[p] = reached[p] /\ printed'[p] = printed[p]
      BY <2>3, <2>4, <2>5 DEF Bump, TypeOK
    <3>2. SameTasks(p)
      BY <2>1, <2>2, <2>5 DEF SetTask, SameTasks, TypeOK
    <3> QED BY <2>1, <3>1, <3>2, RowRests DEF SameMail
  <2>6. CASE q = p
    <3>1. posts'[p] = posts[p] + 1 /\ reached'[p] \in {reached[p], reached[p] + 1}
      BY <2>3, <2>4, <2>6 DEF Bump, TypeOK
    <3>4. \/ printed'[p] = printed[p]
          \/ Sync /\ phase # "refused" /\ printed'[p] = printed[p] + 1
      BY <2>2, <2>4, <2>6, <2>7 DEF Bump, TypeOK
    <3>2. task'[w][p] = phase /\ \A v \in Worker : v # w => task'[v][p] = task[v][p]
      BY <2>2, <2>6 DEF SetTask, TypeOK
    <3>3. PostsRow(w, p)
      BY <2>1, <2>2, <2>3, <2>6, <3>1, <3>2, <3>4 DEF PostsRow, SameMail
    <3> QED BY <2>1, <3>3 DEF RowStep, TypeOK
  <2> QED BY <2>5, <2>6
<1>8. ASSUME NEW w \in Worker, NEW q \in Payment, task' = SetTask(w, q, "none")
      PROVE  \A v \in Worker : task'[v][p] \in {task[v][p], "none"}
  BY <1>8 DEF SetTask, TypeOK
<1>9. ASSUME NEW w \in Worker, NEW q \in Payment,
             \/ MarkSubmitted(w, q) \/ MarkRetry(w, q) \/ LoseWrite(w, q)
      PROVE  RowStep(p)
  <2>1. /\ UNCHANGED <<receipts, corrupt, posts, snapshot, vendorVars, deskVars>>
        /\ task' = SetTask(w, q, "none")
    BY <1>9 DEF MarkSubmitted, MarkRetry, LoseWrite, NextRow
  <2>2. retryCount'[p] = retryCount[p] \/ task[w][p] = "errored"
    <3>1. CASE MarkRetry(w, q)
      <4>1. retryCount' = retryCount \/ retryCount' = [retryCount EXCEPT ![q] = snapshot[w][q] + 1]
        BY <3>1 DEF MarkRetry
      <4>2. task[w][q] = "errored"
        BY <3>1 DEF MarkRetry
      <4> QED BY <4>1, <4>2 DEF TypeOK
    <3>2. CASE MarkSubmitted(w, q) \/ LoseWrite(w, q)
      BY <3>2 DEF MarkSubmitted, LoseWrite
    <3> QED BY <1>9, <3>1, <3>2
  <2>3. \/ submission'[p] = submission[p]
        \/ submission[p] = "pending" /\ submission'[p] = "submitted"
    <3>1. CASE MarkSubmitted(w, q)
      <4>1. \/ submission' = submission
            \/ /\ submission[q] = "pending"
               /\ submission' = [submission EXCEPT ![q] = "submitted"]
        BY <3>1 DEF MarkSubmitted
      <4> QED BY <4>1 DEF TypeOK
    <3>2. CASE MarkRetry(w, q) \/ LoseWrite(w, q)
      BY <3>2 DEF MarkRetry, LoseWrite
    <3> QED BY <1>9, <3>1, <3>2
  <2>4. \A v \in Worker : task'[v][p] \in {task[v][p], "none"}
    BY <1>8, <2>1
  <2>5. KeepsRow(p)
    BY <2>1, <2>2, <2>3, <2>4 DEF KeepsRow, SameMail, Declined
  <2> QED BY <2>1, <2>5 DEF RowStep, TypeOK
<1>10. ASSUME NEW w \in Worker, NEW q \in Payment,
              ApplySyncResult(w, q) \/ FinalizeFailure(w, q) \/ FinalizeCorrupt(w, q)
       PROVE  RowStep(p)
  <2>1. PICK result \in Result :
          /\ OnFiscalResult(q, result)
          /\ result \in {"failed", "voided"} => Declined(q) \/ Exhausted(q) \/ corrupt[q]
    <3>1. CASE task[w][q] = "printed" /\ OnFiscalResult(q, "completed")
      BY <3>1 DEF Result
    <3>2. CASE task[w][q] = "refused" /\ OnFiscalResult(q, "failed")
      BY <3>2 DEF Result, Declined
    <3>3. CASE FinalizeFailure(w, q)
      BY <3>3 DEF FinalizeFailure, Result, Exhausted
    <3>4. CASE FinalizeCorrupt(w, q)
      BY <3>4 DEF FinalizeCorrupt, Result
    <3> QED BY <1>10, <3>1, <3>2, <3>3, <3>4 DEF ApplySyncResult
  <2>2. /\ UNCHANGED <<posts, reached, answered, printed, webhooks, voidAsked, snapshot, voiding>>
        /\ task' = SetTask(w, q, "none")
    BY <1>10 DEF ApplySyncResult, FinalizeFailure, FinalizeCorrupt, NextRow
  <2>3. \A v \in Worker : task'[v][p] \in {task[v][p], "none"}
    BY <1>8, <2>2
  <2> QED BY <2>1, <2>2, <2>3, SinkKeepsRow
<1>12. ASSUME NEW w \in Worker, StopWorker(w) PROVE RowStep(p)
  <2>1. UNCHANGED <<submission, receipts, retryCount, corrupt, posts, snapshot, vendorVars,
                    deskVars>>
    BY <1>12 DEF StopWorker
  <2>2. \A v \in Worker : task'[v][p] \in {task[v][p], "none"}
    BY <1>12 DEF StopWorker, TypeOK
  <2>3. KeepsRow(p)
    BY <2>1, <2>2 DEF KeepsRow, SameMail, Declined
  <2> QED BY <2>1, <2>3 DEF RowStep, TypeOK
<1>11. CASE ListStaleSubmitted \/ UNCHANGED vars
  <2>1. UNCHANGED <<submission, receipts, retryCount, corrupt, task, posts, snapshot,
                    vendorVars, voiding>>
    BY <1>11 DEF ListStaleSubmitted, vars
  <2> QED BY <2>1, RowRests DEF SameTasks, SameMail
<1> QED
  BY <1>1, <1>2, <1>3, <1>4, <1>5, <1>6, <1>7, <1>9, <1>10, <1>11, <1>12 DEF Next, WorkerStep

\* A step on a row keeps its posts counted,
LEMMA PostsKept ==
  ASSUME TypeOK, TypeOK', NEW p \in Payment, RowInv(p), RowStep(p)
  PROVE  PostsAreCounted(p)'
<1>0. /\ posts[p] \in Nat /\ reached[p] \in Nat /\ answered[p] \in Nat /\ retryCount[p] \in Nat
      /\ posts'[p] \in Nat /\ reached'[p] \in Nat /\ answered'[p] \in Nat
      /\ retryCount'[p] \in Nat
      /\ \A v \in Worker : snapshot[v][p] \in Nat /\ snapshot'[v][p] \in Nat
  BY DEF TypeOK
<1>i. PostsAreCounted(p)
  BY DEF RowInv
<1>1. ASSUME NEW w \in Worker, PostsRow(w, p) PROVE PostsAreCounted(p)'
  <2>1. submission[p] # "none" /\ submission'[p] # "none" /\ ~corrupt'[p]
    BY <1>i, <1>1 DEF PostsAreCounted, PostsRow, Held
  <2>2. answered'[p] <= reached'[p] /\ reached'[p] <= posts'[p] /\ posts'[p] > 0
    BY <1>0, <1>i, <1>1 DEF PostsAreCounted, PostsRow
  <2>3. ASSUME NEW v \in Worker, task'[v][p] # "none", snapshot'[v][p] > 0 PROVE posts'[p] > 1
    <3>1. task[v][p] # "none" /\ snapshot[v][p] > 0
      BY <1>1, <2>3 DEF PostsRow
    <3> QED BY <1>0, <1>i, <1>1, <3>1 DEF PostsAreCounted, PostsRow
  <2> QED BY <1>0, <2>1, <2>2, <2>3 DEF PostsAreCounted, InFlight
<1>2. CASE AnswersRow(p)
  <2>1. answered'[p] <= reached'[p]
    BY <1>0, <1>i, <1>2 DEF PostsAreCounted, AnswersRow, BasketOpen
  <2> QED BY <1>i, <1>2, <2>1 DEF PostsAreCounted, AnswersRow, SameTasks, Held
<1>3. CASE KeepsRow(p)
  <2>1. \A v \in Worker :
          \/ task'[v][p] = task[v][p] /\ snapshot'[v][p] = snapshot[v][p]
          \/ task'[v][p] = "none"
          \/ /\ task'[v][p] = "queued" /\ snapshot'[v][p] = retryCount[p]
             /\ submission[p] = "pending"
    BY <1>3 DEF KeepsRow
  <2>2. answered'[p] <= reached'[p] /\ reached'[p] <= posts'[p] /\ posts'[p] = posts[p]
    BY <1>i, <1>3 DEF PostsAreCounted, KeepsRow
  <2>3. retryCount'[p] > 0 => posts'[p] > 0
    BY <1>i, <1>3 DEF PostsAreCounted, KeepsRow, InFlight
  <2>4. submission'[p] = "none" => posts'[p] = 0 /\ ~Held(p)' /\ ~corrupt'[p]
    <3>1. SUFFICES ASSUME submission'[p] = "none"
                   PROVE  posts'[p] = 0 /\ ~Held(p)' /\ ~corrupt'[p]
      OBVIOUS
    <3>2. submission[p] = "none" /\ corrupt'[p] = corrupt[p]
      BY <1>3, <3>1 DEF KeepsRow
    <3> QED BY <1>i, <2>1, <2>2, <3>2 DEF PostsAreCounted, Held
  <2>6. corrupt'[p] => posts'[p] = 0
    BY <1>i, <1>3, <2>2 DEF PostsAreCounted, KeepsRow
  <2>5. ASSUME NEW v \in Worker
        PROVE  /\ task'[v][p] \in InFlight => posts'[p] > 0
               /\ task'[v][p] # "none" /\ snapshot'[v][p] > 0 => posts'[p] > 0
               /\ task'[v][p] \in InFlight /\ snapshot'[v][p] > 0 => posts'[p] > 1
    BY <1>i, <2>1, <2>2 DEF PostsAreCounted, InFlight
  <2> QED BY <2>2, <2>3, <2>4, <2>5, <2>6 DEF PostsAreCounted
<1> QED BY <1>1, <1>2, <1>3 DEF RowStep

\* asks for voids of recorded receipts only,
LEMMA VoidsKept ==
  ASSUME BookInv, TypeOK', NEW p \in Payment, RowInv(p), RowStep(p)
  PROVE  VoidsWereReceipted(p)'
<1>0. receipts[p] \in Nat /\ receipts'[p] \in Nat /\ receipts'[p] >= receipts[p]
  BY DEF BookInv, TypeOK, RowStep
<1>1. submission[p] = "completed" => receipts[p] > 0
  BY <1>0 DEF BookInv, StatusesAgree, BooksAgree
<1>2. p \in voiding' \cup voidAsked' =>
        p \in voiding \cup voidAsked \/ submission[p] = "completed"
  BY DEF RowStep, PostsRow, AnswersRow, KeepsRow
<1> QED BY <1>0, <1>1, <1>2 DEF RowInv, VoidsWereReceipted

\* and gives one answer to a basket that was posted once.
LEMMA AnswersKept ==
  ASSUME TypeOK, TypeOK', NEW p \in Payment, RowInv(p), RowStep(p)
  PROVE  OneAnswerPerPost(p)'
<1>0. /\ posts[p] \in Nat /\ reached[p] \in Nat /\ answered[p] \in Nat /\ posts'[p] \in Nat
      /\ receipts[p] \in Nat /\ receipts'[p] \in Nat /\ receipts'[p] >= receipts[p]
      /\ Sync \in BOOLEAN
  BY ConstantsAssumption DEF TypeOK, RowStep
<1>i. OneAnswerPerPost(p) /\ PostsAreCounted(p) /\ VoidsWereReceipted(p)
  BY DEF RowInv
<1>1. ASSUME NEW w \in Worker, PostsRow(w, p) PROVE OneAnswerPerPost(p)'
  <2>1. ~Sync => \A v \in Worker : task'[v][p] \notin {"printed", "refused"}
    BY <1>i, <1>1 DEF OneAnswerPerPost, PostsRow
  <2>2. ASSUME receipts'[p] = 0, posts'[p] <= 1
        PROVE  /\ ~(Registered(p)' /\ Declined(p)')
               /\ Unanswered(p)' => ~Registered(p)' /\ ~Declined(p)'
    <3>1. receipts[p] = 0 /\ posts[p] = 0 /\ posts'[p] = 1
      BY <1>0, <1>1, <2>2 DEF PostsRow
    <3>2. ~Registered(p) /\ ~Declined(p)
      BY <1>i, <1>1, <3>1 DEF OneAnswerPerPost, Unanswered, PostsRow
    <3>3. /\ <<p, "failed">> \notin webhooks' /\ <<p, "voided">> \notin webhooks'
          /\ submission'[p] \notin {"failed", "voided"}
      BY <1>1, <3>2 DEF PostsRow, SameMail, Result, Declined
    <3>4. \A v \in Worker : v # w => task'[v][p] # "refused"
      BY <1>1, <3>2 DEF PostsRow, Declined
    <3>5. Declined(p)' => task'[w][p] = "refused"
      BY <3>3, <3>4 DEF Declined
    <3>6. Registered(p)' => Sync /\ task'[w][p] # "refused"
      BY <1>1, <3>2 DEF PostsRow, Registered
    <3>7. Unanswered(p)' => ~Sync
      BY <3>1 DEF Unanswered
    <3>8. ~Sync => task'[w][p] # "refused"
      BY <1>1 DEF PostsRow
    <3> QED BY <3>5, <3>6, <3>7, <3>8
  <2> QED BY <2>1, <2>2 DEF OneAnswerPerPost
<1>2. CASE AnswersRow(p)
  <2>1. PICK result \in {"completed", "failed", "voided"} :
          /\ \A r \in Result : <<p, r>> \in webhooks' <=> <<p, r>> \in webhooks \/ r = result
          /\ answered'[p] = answered[p] => result # "completed"
          /\ printed'[p] = IF result = "completed" THEN printed[p] + 1 ELSE printed[p]
    BY <1>2 DEF AnswersRow
  <2>2. /\ \A v \in Worker : task'[v][p] = task[v][p]
        /\ posts'[p] = posts[p] /\ submission'[p] = submission[p]
    BY <1>2 DEF AnswersRow, SameTasks
  <2>3. CASE p \in voidAsked
    <3>1. receipts'[p] # 0
      BY <1>0, <1>i, <2>3 DEF VoidsWereReceipted
    <3> QED BY <1>i, <2>2, <3>1 DEF OneAnswerPerPost
  <2>4. CASE BasketOpen(p) /\ answered'[p] = answered[p] + 1
    <3>1. ~Sync /\ answered[p] < reached[p]
      BY <2>4 DEF BasketOpen
    <3>2. ASSUME receipts'[p] = 0, posts'[p] <= 1
          PROVE  ~(Registered(p)' /\ Declined(p)') /\ ~Unanswered(p)'
      <4>1. receipts[p] = 0 /\ posts[p] = 1 /\ answered[p] = 0 /\ reached[p] = 1
        BY <1>0, <1>i, <2>2, <3>1, <3>2 DEF PostsAreCounted
      <4>2. ~Registered(p) /\ ~Declined(p)
        <5>1. ~corrupt[p]
          BY <1>i, <4>1 DEF PostsAreCounted
        <5> QED BY <1>i, <3>1, <4>1, <5>1 DEF OneAnswerPerPost, Unanswered
      <4>3. ~Unanswered(p)'
        BY <2>2, <2>4, <4>1 DEF Unanswered
      <4>4. Registered(p)' => result = "completed"
        BY <2>1, <4>2 DEF Registered
      <4>5. Declined(p)' => result # "completed"
        BY <2>1, <2>2, <4>2 DEF Declined, Result
      <4> QED BY <4>3, <4>4, <4>5
    <3>3. \A v \in Worker : task'[v][p] \notin {"printed", "refused"}
      BY <1>i, <2>2, <3>1 DEF OneAnswerPerPost
    <3> QED BY <3>1, <3>2, <3>3 DEF OneAnswerPerPost
  <2> QED BY <1>2, <2>3, <2>4 DEF AnswersRow
<1>3. CASE KeepsRow(p)
  <2>1. \A v \in Worker : task'[v][p] \in {"printed", "refused"} => task'[v][p] = task[v][p]
    BY <1>3 DEF KeepsRow
  <2>2. \A r \in Result : <<p, r>> \in webhooks' <=> <<p, r>> \in webhooks
    BY <1>3 DEF KeepsRow, SameMail
  <2>3. posts'[p] = posts[p] /\ answered'[p] = answered[p]
    BY <1>3 DEF KeepsRow
  <2>4. ~Sync => \A v \in Worker : task'[v][p] \notin {"printed", "refused"}
    BY <1>i, <2>1 DEF OneAnswerPerPost
  <2>5. Registered(p)' => Registered(p)
    BY <1>3 DEF KeepsRow, Registered
  <2>6. ASSUME receipts'[p] = 0, posts'[p] <= 1 PROVE Declined(p)' => Declined(p) \/ corrupt[p]
    <3>1. ~Exhausted(p)
      <4>1. SUFFICES ASSUME NEW w \in Worker, task[w][p] = "errored",
                            snapshot[w][p] + 1 > MaxRetries
                     PROVE  FALSE
        BY DEF Exhausted
      <4>2. snapshot[w][p] > 0
        BY <4>1, ConstantsAssumption DEF TypeOK
      <4> QED BY <1>0, <1>i, <2>3, <2>6, <4>1, <4>2 DEF PostsAreCounted, InFlight
    <3>2. p \notin voiding
      BY <1>0, <1>i, <2>6 DEF VoidsWereReceipted
    <3>3. submission'[p] \in {"failed", "voided"} => Declined(p) \/ corrupt[p]
      BY <1>3, <3>1, <3>2 DEF KeepsRow
    <3> QED BY <2>1, <2>2, <3>3 DEF Declined, Result
  <2>7. Unanswered(p)' => Unanswered(p)
    BY <2>3 DEF Unanswered
  <2>8. receipts'[p] = 0 => receipts[p] = 0
    BY <1>0
  <2>9. corrupt[p] => Unanswered(p) /\ corrupt'[p]
    BY <1>i, <1>3 DEF PostsAreCounted, KeepsRow, Unanswered
  <2>10. ASSUME receipts'[p] = 0, posts'[p] <= 1
         PROVE  /\ ~(Registered(p)' /\ Declined(p)')
                /\ Unanswered(p)' => ~Registered(p)' /\ (Declined(p)' => corrupt'[p])
    <3>1. /\ ~(Registered(p) /\ Declined(p))
          /\ Unanswered(p) => ~Registered(p) /\ (Declined(p) => corrupt[p])
      BY <1>i, <2>3, <2>8, <2>10 DEF OneAnswerPerPost
    <3>2. Declined(p)' => Declined(p) \/ corrupt[p]
      BY <2>6, <2>10
    <3> QED BY <2>5, <2>7, <2>9, <3>1, <3>2
  <2> QED BY <2>4, <2>10 DEF OneAnswerPerPost
<1> QED BY <1>1, <1>2, <1>3 DEF RowStep

\* What is known of posts and answers holds in every behaviour.
LEMMA AnswersAreInvariant == Spec => []AnswerInv
<1>1. Init => AnswerInv
  <2> SUFFICES ASSUME Init, NEW p \in Payment PROVE RowInv(p)
    BY DEF AnswerInv
  <2>1. PostsAreCounted(p) /\ VoidsWereReceipted(p)
    BY DEF Init, PostsAreCounted, VoidsWereReceipted, Held, InFlight
  <2>2. OneAnswerPerPost(p)
    BY DEF Init, OneAnswerPerPost, Registered, Declined
  <2> QED BY <2>1, <2>2 DEF RowInv
<1>2. BookInv /\ AnswerInv /\ [Next]_vars => AnswerInv'
  <2> SUFFICES ASSUME BookInv, AnswerInv, [Next]_vars, NEW p \in Payment PROVE RowInv(p)'
    BY DEF AnswerInv
  <2>1. TypeOK /\ TypeOK' /\ RowInv(p)
    BY NextKeepsTypes DEF BookInv, AnswerInv
  <2>2. RowStep(p)
    BY StepsAreRowSteps
  <2> QED BY <2>1, <2>2, PostsKept, VoidsKept, AnswersKept DEF RowInv
<1> QED BY <1>1, <1>2, BooksAreInvariant, PTL DEF Spec

\* A row closed without the receipt that is on paper was expired, or posted twice.
LEMMA ClosedWithoutPaper ==
  ASSUME BookInv, AnswerInv, NEW p \in Payment, Unrecorded(p)
  PROVE  submission[p] = "expired" \/ posts[p] > 1
<1>1. RowInv(p) /\ TypeOK
  BY DEF AnswerInv, BookInv
<1>2. posts[p] \in Nat /\ receipts[p] = 0 /\ Registered(p)
  BY <1>1 DEF TypeOK, Unrecorded, Registered
<1>3. submission[p] \in {"none", "failed", "voided", "expired"}
  BY <1>1 DEF Unrecorded, BookInv, StatusesAgree, BooksAgree, TypeOK, SubmissionStatus,
     Unresolved
<1>4. CASE submission[p] = "none"
  BY <1>1, <1>2, <1>4 DEF RowInv, PostsAreCounted, OneAnswerPerPost, Unanswered
<1>5. CASE submission[p] \in {"failed", "voided"}
  BY <1>1, <1>2, <1>5 DEF RowInv, OneAnswerPerPost, Declined
<1> QED BY <1>3, <1>4, <1>5

\* The sink drops the news of a receipt when it finds the row closed; an expired row
\* raises the alarm.
Drops(p) == Unrecorded(p) /\ (submission[p] = "expired" => p \in alarms')

\* The sink drops only what it was told of.
LEMMA SinkDrops ==
  ASSUME NEW p \in Payment, NEW q \in Payment, NEW result \in Result,
         OnFiscalResult(q, result), result = "completed" => printed[q] > 0
  PROVE  /\ alarms \subseteq alarms'
         /\ p \in dropped' => p \in dropped \/ Drops(p)
<1>1. CASE ApplyResult(q, result)
  BY <1>1 DEF ApplyResult, lossVars
<1>2. CASE DropResult(q, result)
  BY <1>2 DEF DropResult, SourceStates, Unresolved, Drops, Unrecorded
<1> QED BY <1>1, <1>2 DEF OnFiscalResult

\* So does every step.
LEMMA StepsDrop ==
  ASSUME PrintInv, [Next]_vars, NEW p \in Payment
  PROVE  /\ alarms \subseteq alarms'
         /\ p \in dropped' => p \in dropped \/ Drops(p)
<1> DEFINE Goal == /\ alarms \subseteq alarms'
                   /\ p \in dropped' => p \in dropped \/ Drops(p)
<1>1. ASSUME UNCHANGED lossVars PROVE Goal
  BY <1>1 DEF lossVars
<1>2. ASSUME NEW q \in Payment, NEW result \in Result \ {"completed"}, OnFiscalResult(q, result)
      PROVE  Goal
  BY <1>2, SinkDrops
<1>3. ASSUME NEW q \in Payment, Evidence(q), OnFiscalResult(q, "completed") PROVE Goal
  BY <1>3, SinkDrops DEF PrintInv, Result
<1> HIDE DEF Goal
<1>4. ASSUME NEW q \in Payment, DeskStep(q) PROVE Goal
  <2>1. CASE ReconcilerExpire(q) \/ ExpireWrite(q)
    BY <1>2, <2>1 DEF ReconcilerExpire, ExpireWrite, Result
  <2>2. CASE ReconcilerWarn(q) \/ ExpireCheck(q) \/ ExpireAnswer(q) \/ VoidCheck(q)
    BY <1>1, <2>2 DEF ReconcilerWarn, ExpireCheck, ExpireAnswer, VoidCheck
  <2>3. CASE VoidSale(q)
    BY <1>1, <1>2, <2>3 DEF VoidSale, Result
  <2> QED BY <1>4, <2>1, <2>2, <2>3 DEF DeskStep
<1>5. ASSUME NEW q \in Payment, Webhook(q) PROVE Goal
  BY <1>2, <1>3, <1>5 DEF Webhook, Evidence, Result
<1>6. ASSUME NEW w \in Worker, NEW q \in Payment,
             ApplySyncResult(w, q) \/ FinalizeFailure(w, q) \/ FinalizeCorrupt(w, q)
      PROVE  Goal
  BY <1>2, <1>3, <1>6 DEF ApplySyncResult, FinalizeFailure, FinalizeCorrupt, Evidence, Result
<1>7. ASSUME NEW q \in Payment,
             \/ EnqueueSale(q) \/ VendorStep(q)
             \/ ClaimExpires(q) \/ ClaimOverlaps(q) \/ BackoffElapses(q)
      PROVE  Goal
  BY <1>1, <1>7 DEF EnqueueSale, VendorStep, DevicePrints, DeviceRefuses, DeviceVoids,
     ClaimExpires, ClaimOverlaps, BackoffElapses
<1>8. ASSUME NEW w \in Worker, NEW q \in Payment,
             \/ SubmitAccepted(w, q) \/ SubmitErrored(w, q) \/ SubmitAnswered(w, q)
             \/ MarkSubmitted(w, q) \/ MarkRetry(w, q) \/ LoseWrite(w, q)
      PROVE  Goal
  BY <1>1, <1>8 DEF SubmitAccepted, SubmitErrored, SubmitAnswered, MarkSubmitted, MarkRetry,
     LoseWrite
<1>9. ASSUME NEW w \in Worker, ClaimPending(w) \/ StopWorker(w) PROVE Goal
  BY <1>1, <1>9 DEF ClaimPending, StopWorker
<1>10. ASSUME ListStaleSubmitted \/ UNCHANGED vars PROVE Goal
  BY <1>1, <1>10 DEF ListStaleSubmitted, vars
<1>11. Goal
  BY <1>4, <1>5, <1>6, <1>7, <1>8, <1>9, <1>10 DEF Next, WorkerStep
<1> QED BY <1>11 DEF Goal

\* Whatever happens to the news of it, a receipt on paper is missing from a closed row only
\* where the row was expired or the basket posted more than once, and the sink drops no
\* "completed" of an expired row without the alarm, for any number of payments and workers
\* and either kind of adapter: one post has one answer, and besides an expiry only a spent
\* budget closes a row against it, which takes a second post.
THEOREM LostReceiptsAreAlwaysExplained == Spec => []LostReceiptsAreExplained
<1> DEFINE Announced == \A p \in Payment : p \in dropped => p \in alarms \/ posts[p] > 1
<1>1. Init => Announced
  BY DEF Init
<1>2. ASSUME BookInv, AnswerInv, PrintInv, Announced, [Next]_vars PROVE Announced'
  <2>0. TypeOK /\ TypeOK'
    BY <1>2, NextKeepsTypes DEF BookInv
  <2> SUFFICES ASSUME NEW p \in Payment, p \in dropped' PROVE p \in alarms' \/ posts'[p] > 1
    OBVIOUS
  <2>1. alarms \subseteq alarms' /\ (p \in dropped \/ Drops(p))
    BY <1>2, StepsDrop
  <2>2. posts[p] \in Nat /\ posts'[p] \in Nat /\ posts'[p] >= posts[p]
    <3>1. RowStep(p)
      BY <1>2, StepsAreRowSteps
    <3>2. posts'[p] = posts[p] \/ posts'[p] = posts[p] + 1
      BY <3>1 DEF RowStep, PostsRow, AnswersRow, KeepsRow
    <3> QED BY <2>0, <3>2 DEF TypeOK
  <2>3. CASE p \in dropped
    BY <1>2, <2>1, <2>2, <2>3
  <2>4. CASE Drops(p)
    <3>1. submission[p] = "expired" \/ posts[p] > 1
      BY <1>2, <2>4, ClosedWithoutPaper DEF Drops
    <3> QED BY <2>2, <2>4, <3>1 DEF Drops
  <2> QED BY <2>1, <2>3, <2>4
<1>3. BookInv /\ AnswerInv /\ Announced => LostReceiptsAreExplained
  BY ClosedWithoutPaper DEF LostReceiptsAreExplained
<1> QED
  BY <1>1, <1>2, <1>3, BooksAreInvariant, AnswersAreInvariant, PaperIsInvariant, PTL DEF Spec
=============================================================================
