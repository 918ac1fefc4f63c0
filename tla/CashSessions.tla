---------------------------- MODULE CashSessions ----------------------------
(***************************************************************************)
(* The cash drawer of one branch: its sessions, the sales that land in     *)
(* them, and the figures a session is closed with.                         *)
(*                                                                         *)
(* A cash sale holds a share lock on the session row from its guard to its *)
(* commit; Close, SubmitClosingCount and RecordMovement take the row       *)
(* exclusively.  created_at, opened_at and closed_at are stamped by the    *)
(* API host before the statement that stores them, so they are steps of    *)
(* their own.  A sum of money is the set of the sales it sums: two figures *)
(* are equal when the sets are.  The opening amount is in every figure and *)
(* left out.                                                               *)
(***************************************************************************)
EXTENDS Integers

CONSTANTS
  Session,     \* rows of cash_sessions, each one call of Open
  Sale,        \* the registrations of the branch
  Cash,        \* those with method = cash
  Manager,     \* who opens and closes
  MaxNet       \* bound: the drawer's net movement stays within -MaxNet..MaxNet

NoSession == "no session"

ASSUME CashAssumption == Cash \subseteq Sale /\ MaxNet \in Nat /\ NoSession \notin Session

VARIABLES
  status,      \* cash_sessions.status; "none" before the row exists
  openedAt, closedAt,
  net,         \* the sum of the session's cash_movements
  counted,     \* what the cashier counted when the closing count was submitted
  sale,        \* payments.status; "guarded", "created" inside RegisterSale's transaction
  createdAt,   \* payments.created_at
  call,        \* Open and Close in progress
  clock,       \* the next instant of the API host's clock
  under,       \* history: the session a cash sale's guard found
  settled,     \* history: the session's sales decided since its last count
  shown        \* history: the figures Close answered with

rowVars == <<status, openedAt, closedAt, net, counted>>
saleVars == <<sale, createdAt, under>>
vars == <<rowVars, saleVars, call, clock, settled, shown>>

-----------------------------------------------------------------------------
SessionStatus == {"none", "opened", "closing_control", "closed"}

SaleStatus ==
  {"none", "refused", "guarded", "created", "pending", "completed", "failed", "voided"}

Figures == [taken : SUBSET Sale, net : Int]

Nothing == [taken |-> {}, net |-> 0]

Idle == [phase |-> "idle"]

Call ==
  [phase : {"stamped"}, at : Session, opened : Nat] \cup [phase : {"locked", "clear"}, at : Session]

\* Every row and every call in progress has one of the shapes the code gives it.
TypeOK ==
  /\ status \in [Session -> SessionStatus]
  /\ openedAt \in [Session -> Nat]
  /\ closedAt \in [Session -> Nat]
  /\ net \in [Session -> Int]
  /\ counted \in [Session -> Figures]
  /\ sale \in [Sale -> SaleStatus]
  /\ createdAt \in [Sale -> Nat]
  /\ under \in [Sale -> Session \cup {NoSession}]
  /\ call \in [Manager -> {Idle} \cup Call]
  /\ clock \in Nat
  /\ settled \in [Session -> SUBSET Sale]
  /\ shown \in [Session -> Figures]
  /\ \A p \in Cash : sale[p] \notin {"none", "refused"} => under[p] # NoSession

Init ==
  /\ status = [s \in Session |-> "none"]
  /\ openedAt = [s \in Session |-> 0]
  /\ closedAt = [s \in Session |-> 0]
  /\ net = [s \in Session |-> 0]
  /\ counted = [s \in Session |-> Nothing]
  /\ sale = [p \in Sale |-> "none"]
  /\ createdAt = [p \in Sale |-> 0]
  /\ under = [p \in Sale |-> NoSession]
  /\ call = [m \in Manager |-> Idle]
  /\ clock = 0
  /\ settled = [s \in Session |-> {}]
  /\ shown = [s \in Session |-> Nothing]

\* The rows the partial unique index and GetActiveByBranch range over.
Active == {s \in Session : status[s] \in {"opened", "closing_control"}}

\* Mutant: the window of a closed session has no upper bound.
InWindowUnbounded(p, s) == createdAt[p] >= openedAt[s]

\* A sale's created_at falls in [opened_at, closed_at).
InWindow(p, s) ==
  /\ createdAt[p] >= openedAt[s]
  /\ status[s] = "closed" => createdAt[p] < closedAt[s]

\* SumCompletedCashPayments: completed cash payments in the window.
Taken(s) == {p \in Cash : sale[p] = "completed" /\ InWindow(p, s)}

\* buildView: the expected close.
View(s) == [taken |-> Taken(s), net |-> net[s]]

\* What lies in the drawer: the money of the sales rung up on it, and its movements.
Drawer(s) ==
  [taken |-> {p \in Cash : sale[p] = "completed" /\ under[p] = s}, net |-> net[s]]

-----------------------------------------------------------------------------
\* Mutant: the guard reads the session without FOR SHARE.
SharersNone(s) == {}

\* The cash sales whose transaction holds the row FOR SHARE.
Sharers(s) == {p \in Cash : sale[p] \in {"guarded", "created"} /\ under[p] = s}

\* A Close holds the row FOR UPDATE.
Held(s) == \E m \in Manager : call[m] # Idle /\ call[m].phase # "stamped" /\ call[m].at = s

\* GetByIDForUpdate returns.
Writable(s) == Sharers(s) = {} /\ ~Held(s)

-----------------------------------------------------------------------------
(* RegisterSale *)

\* cashPaymentRequiresOpenSession.
NeedsSession(p) == p \in Cash

\* A cash sale needs an active session and holds its row; other methods do not ask.
PassSessionGuard(p) ==
  /\ sale[p] = "none"
  /\ IF NeedsSession(p)
     THEN \E s \in Active : ~Held(s) /\ under' = [under EXCEPT ![p] = s]
     ELSE UNCHANGED under
  /\ sale' = [sale EXCEPT ![p] = "guarded"]
  /\ UNCHANGED <<rowVars, createdAt, call, clock, settled, shown>>

\* ErrNoCashSessionOpen.
RefuseSale(p) ==
  /\ sale[p] = "none" /\ NeedsSession(p) /\ Active = {}
  /\ sale' = [sale EXCEPT ![p] = "refused"]
  /\ UNCHANGED <<rowVars, createdAt, under, call, clock, settled, shown>>

\* PaymentRepo.Create stamps and inserts the row nobody else sees yet.
CreatePayment(p) ==
  /\ sale[p] = "guarded"
  /\ sale' = [sale EXCEPT ![p] = "created"]
  /\ createdAt' = [createdAt EXCEPT ![p] = clock]
  /\ clock' = clock + 1
  /\ UNCHANGED <<rowVars, under, call, settled, shown>>

\* The submission is queued and the transaction commits, or it rolls back.
FinishSale(p) ==
  /\ sale[p] = "created"
  /\ \E to \in {"pending", "refused"} : sale' = [sale EXCEPT ![p] = to]
  /\ UNCHANGED <<rowVars, createdAt, under, call, clock, settled, shown>>

\* The sessions being closed whose drawer the sale's result changes.
Noticing(p) == {s \in Session : status[s] = "closing_control" /\ under[p] = s}

\* A fiscal result moves the payment: applyCompleted, applyFailed, applyVoided.
ApplyResult(p) ==
  /\ \/ sale[p] = "pending" /\ \E to \in {"completed", "failed", "voided"} : sale' = [sale EXCEPT ![p] = to]
     \/ sale[p] = "completed" /\ sale' = [sale EXCEPT ![p] = "voided"]
  /\ settled' = [s \in Session |-> IF s \in Noticing(p) THEN settled[s] \cup {p} ELSE settled[s]]
  /\ UNCHANGED <<rowVars, createdAt, under, call, clock, shown>>

-----------------------------------------------------------------------------
(* CashSessionService *)

\* Open computes opened_at before its INSERT.
StampOpen(m, s) ==
  /\ call[m] = Idle /\ status[s] = "none"
  /\ \A other \in Manager : call[other] # Idle => call[other].at # s
  /\ call' = [call EXCEPT ![m] = [phase |-> "stamped", at |-> s, opened |-> clock]]
  /\ UNCHANGED <<rowVars, saleVars, clock, settled, shown>>

\* The INSERT waits for a Close that has written (its commit is one step with
\* the write here); then the unique index decides.
InsertSession(m) ==
  /\ call[m].phase = "stamped"
  /\ call' = [call EXCEPT ![m] = Idle]
  /\ LET s == call[m].at IN
     IF Active = {}
     THEN /\ status' = [status EXCEPT ![s] = "opened"]
          /\ openedAt' = [openedAt EXCEPT ![s] = call[m].opened]
     ELSE UNCHANGED <<status, openedAt>>
  /\ UNCHANGED <<closedAt, net, counted, saleVars, clock, settled, shown>>

\* Mutant: movements are taken until the session is closed.
TakesMovementsUntilClosed(s) == status[s] \in {"opened", "closing_control"}

\* RecordMovement's status check.
TakesMovements(s) == status[s] = "opened"

RecordMovement(s) ==
  /\ Writable(s) /\ TakesMovements(s)
  /\ \E amount \in {-1, 1} :
       /\ net[s] + amount \in -MaxNet..MaxNet
       /\ net' = [net EXCEPT ![s] = @ + amount]
  /\ UNCHANGED <<status, openedAt, closedAt, counted, saleVars, call, clock, settled, shown>>

\* The cashier counts the drawer; a recount overwrites the count.
SubmitClosingCount(s) ==
  /\ s \in Active /\ Writable(s)
  /\ status' = [status EXCEPT ![s] = "closing_control"]
  /\ counted' = [counted EXCEPT ![s] = Drawer(s)]
  /\ settled' = [settled EXCEPT ![s] = {}]
  /\ UNCHANGED <<openedAt, closedAt, net, saleVars, call, clock, shown>>

\* Close locks the row and checks its status; any other status is refused.
LockForClose(m, s) ==
  /\ call[m] = Idle /\ status[s] = "closing_control" /\ Writable(s)
  /\ call' = [call EXCEPT ![m] = [phase |-> "locked", at |-> s]]
  /\ UNCHANGED <<rowVars, saleVars, clock, settled, shown>>

\* Mutant: nothing blocks a close.
PendingNone == {}

\* ListPendingByBranch: the submissions still waiting for a result, of any method.
Pending == {p \in Sale : sale[p] = "pending"}

\* cannotClose: one pending submission of the branch refuses the close.
GuardClose(m) ==
  /\ call[m].phase = "locked"
  /\ call' = [call EXCEPT ![m] =
                IF Pending = {} THEN [phase |-> "clear", at |-> call[m].at] ELSE Idle]
  /\ UNCHANGED <<rowVars, saleVars, clock, settled, shown>>

\* closed_at is stamped, the row written, the view built and the transaction committed.
FinishClose(m) ==
  /\ call[m].phase = "clear"
  /\ LET s == call[m].at IN
     /\ status' = [status EXCEPT ![s] = "closed"]
     /\ closedAt' = [closedAt EXCEPT ![s] = clock]
     /\ shown' = [shown EXCEPT ![s] = View(s)]
  /\ call' = [call EXCEPT ![m] = Idle]
  /\ clock' = clock + 1
  /\ UNCHANGED <<openedAt, net, counted, saleVars, settled>>

Next ==
  \/ \E p \in Sale :
       \/ PassSessionGuard(p) \/ RefuseSale(p) \/ CreatePayment(p)
       \/ FinishSale(p) \/ ApplyResult(p)
  \/ \E s \in Session : RecordMovement(s) \/ SubmitClosingCount(s)
  \/ \E m \in Manager :
       \/ InsertSession(m) \/ GuardClose(m) \/ FinishClose(m)
       \/ \E s \in Session : StampOpen(m, s) \/ LockForClose(m, s)

Spec == Init /\ [][Next]_vars

-----------------------------------------------------------------------------
\* What GetActiveByBranchForShare promises: a registered cash sale lies inside
\* the window of the session its guard found, however the close interleaved,
\* so its money is in that session's expected close and cannot disappear.
CashSalesInTheirWindow ==
  \A p \in Cash : sale[p] \in {"pending", "completed", "failed", "voided"} => InWindow(p, under[p])

\* What SumCompletedCashPayments relies on to key its window on created_at:
\* once a close succeeded, no cash sale of the window still waits for a result.
ClosedWindowIsSettled ==
  \A s \in Session, p \in Cash :
    status[s] = "closed" /\ InWindow(p, s) => sale[p] # "pending"

\* "The formula must stop moving once the session is closed": a closed
\* session's figures are the ones Close answered with, less the sales voided
\* since.  Nothing else, a late result or another drawer's sale, moves them.
ReportsMoveOnlyByVoids ==
  \A s \in Session :
    status[s] = "closed" =>
      /\ net[s] = shown[s].net
      /\ Taken(s) \subseteq shown[s].taken
      /\ \A p \in shown[s].taken \ Taken(s) : sale[p] = "voided"

\* The reason movements stop at the closing count: the difference between an
\* honest count and the expected close is made of sales decided after the
\* count and of sales rung up on another drawer, never of a movement.
DifferencesAreExplained ==
  \A s \in Session :
    status[s] = "closed" =>
      /\ counted[s].net = shown[s].net
      /\ \A p \in Cash :
           (p \in counted[s].taken) # (p \in shown[s].taken) => p \in settled[s] \/ under[p] # s
=============================================================================
