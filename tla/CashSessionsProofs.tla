------------------------- MODULE CashSessionsProofs -------------------------
(***************************************************************************)
(* Proofs about CashSessions for any sessions, sales and managers: its     *)
(* types and its four invariants.                                          *)
(*                                                                         *)
(* The argument is about the row lock.  A Close in progress keeps the row  *)
(* to itself (LocksHold), so the active session, of which there is one,    *)
(* has no sale in progress under it; after the guard there is no pending   *)
(* cash sale at all, and later ones are stamped after closed_at.           *)
(***************************************************************************)
EXTENDS CashSessions, TLAPS

\* A Close in progress has its row to itself; an Open has its row's id to itself.
LocksHold ==
  /\ \A m \in Manager :
       /\ call[m].phase \in {"locked", "clear"} =>
            status[call[m].at] = "closing_control" /\ Sharers(call[m].at) = {}
       /\ call[m].phase = "stamped" => status[call[m].at] = "none" /\ call[m].opened <= clock
  /\ \A m, n \in Manager :
       call[m] # Idle /\ call[n] # Idle /\ call[m].at = call[n].at => m = n

\* The unique index.
OneActive == \A s, t \in Active : s = t

\* A cash sale being registered is under an active session, a registered one under
\* one that exists.
SalesUnderActive ==
  \A p \in Cash :
    /\ sale[p] \in {"guarded", "created"} => under[p] \in Active
    /\ sale[p] \notin {"none", "refused"} => status[under[p]] # "none"

\* A stamp is in the past, and a cash sale's is in the window of its session.
StampsInOrder ==
  /\ \A s \in Session : openedAt[s] <= clock /\ closedAt[s] <= clock
  /\ \A p \in Cash :
       sale[p] \in {"created", "pending", "completed", "failed", "voided"} =>
         createdAt[p] < clock /\ InWindow(p, under[p])

\* No cash sale is undecided once the guard of a close has passed, and none that is
\* undecided was stamped before the end of a closed session.
NoneUndecided ==
  /\ \A m \in Manager : call[m].phase = "clear" => \A p \in Cash : sale[p] # "pending"
  /\ \A s \in Session, p \in Cash :
       status[s] = "closed" /\ sale[p] \in {"created", "pending"} => createdAt[p] >= closedAt[s]

\* What Close answered with was then true, and only voids undo it.
ReportsHold ==
  \A s \in Session : status[s] = "closed" =>
    /\ net[s] = shown[s].net
    /\ Taken(s) \subseteq shown[s].taken
    /\ \A p \in shown[s].taken :
         p \in Cash /\ sale[p] \in {"completed", "voided"} /\ InWindow(p, s)

\* Until the close, the count is the drawer but for the sales settled since.
CountsHold ==
  \A s \in Session : status[s] = "closing_control" =>
    /\ counted[s].net = net[s]
    /\ \A p \in Cash :
         p \in settled[s] \/ (p \in counted[s].taken <=> sale[p] = "completed" /\ under[p] = s)

\* The inductive invariant.
CashInv ==
  /\ TypeOK
  /\ LocksHold
  /\ OneActive
  /\ SalesUnderActive
  /\ StampsInOrder
  /\ NoneUndecided
  /\ ReportsHold
  /\ CountsHold
  /\ DifferencesAreExplained

-----------------------------------------------------------------------------
(* Types.                                                                  *)

\* A manager's call is idle, an Open that has stamped, or a Close that has locked.
LEMMA CallShape ==
  ASSUME TypeOK, NEW m \in Manager
  PROVE  \/ call[m] = Idle /\ call[m].phase = "idle"
         \/ call[m] \in [phase : {"stamped"}, at : Session, opened : Nat]
         \/ call[m] \in [phase : {"locked", "clear"}, at : Session]
  BY DEF TypeOK, Call, Idle

\* The initial state.
LEMMA CashInvInit == Init => CashInv
<1> SUFFICES ASSUME Init PROVE CashInv
  OBVIOUS
<1>1. TypeOK
  BY CashAssumption DEF Init, TypeOK, Idle, SessionStatus, SaleStatus, Figures, Nothing
<1>2. LocksHold
  BY DEF Init, LocksHold, Idle
<1>3. OneActive /\ SalesUnderActive /\ StampsInOrder /\ NoneUndecided
  BY CashAssumption DEF Init, OneActive, Active, SalesUnderActive, StampsInOrder, NoneUndecided, Idle
<1>4. ReportsHold /\ CountsHold /\ DifferencesAreExplained
  BY DEF Init, ReportsHold, CountsHold, DifferencesAreExplained
<1> QED BY <1>1, <1>2, <1>3, <1>4 DEF CashInv

\* Every step keeps the types.
LEMMA TypesKept == TypeOK /\ [Next]_vars => TypeOK'
<1> SUFFICES ASSUME TypeOK, [Next]_vars PROVE TypeOK'
  OBVIOUS
<1> USE CashAssumption DEF TypeOK, rowVars, saleVars, SessionStatus, SaleStatus
<1>1. ASSUME NEW p \in Sale, PassSessionGuard(p) PROVE TypeOK'
  BY <1>1 DEF PassSessionGuard, NeedsSession, Active
<1>2. ASSUME NEW p \in Sale, RefuseSale(p) PROVE TypeOK'
  BY <1>2 DEF RefuseSale
<1>3. ASSUME NEW p \in Sale, CreatePayment(p) PROVE TypeOK'
  BY <1>3 DEF CreatePayment
<1>4. ASSUME NEW p \in Sale, FinishSale(p) PROVE TypeOK'
  BY <1>4 DEF FinishSale
<1>5. ASSUME NEW p \in Sale, ApplyResult(p) PROVE TypeOK'
  BY <1>5 DEF ApplyResult
<1>6. ASSUME NEW s \in Session, RecordMovement(s) PROVE TypeOK'
  <2>1. net' \in [Session -> Int]
    BY <1>6 DEF RecordMovement
  <2> QED BY <1>6, <2>1 DEF RecordMovement
<1>7. ASSUME NEW s \in Session, SubmitClosingCount(s) PROVE TypeOK'
  BY <1>7 DEF SubmitClosingCount, Drawer, Figures
<1>8. ASSUME NEW m \in Manager, InsertSession(m) PROVE TypeOK'
  <2>1. call[m].at \in Session /\ call[m].opened \in Nat
    BY <1>8, CallShape DEF InsertSession
  <2> QED BY <1>8, <2>1 DEF InsertSession
<1>9. ASSUME NEW m \in Manager, GuardClose(m) PROVE TypeOK'
  <2>1. call[m].at \in Session
    BY <1>9, CallShape DEF GuardClose
  <2>2. [phase |-> "clear", at |-> call[m].at] \in Call
    BY <2>1 DEF Call
  <2> QED BY <1>9, <2>2 DEF GuardClose
<1>10. ASSUME NEW m \in Manager, FinishClose(m) PROVE TypeOK'
  <2>1. call[m].at \in Session
    BY <1>10, CallShape DEF FinishClose
  <2>2. View(call[m].at) \in Figures
    BY <2>1 DEF View, Taken, Figures
  <2> QED BY <1>10, <2>1, <2>2 DEF FinishClose
<1>11. ASSUME NEW m \in Manager, NEW s \in Session, StampOpen(m, s) PROVE TypeOK'
  <2>1. [phase |-> "stamped", at |-> s, opened |-> clock] \in Call
    BY DEF Call
  <2> QED BY <1>11, <2>1 DEF StampOpen
<1>12. ASSUME NEW m \in Manager, NEW s \in Session, LockForClose(m, s) PROVE TypeOK'
  <2>1. [phase |-> "locked", at |-> s] \in Call
    BY DEF Call
  <2> QED BY <1>12, <2>1 DEF LockForClose
<1>13. CASE UNCHANGED vars
  BY <1>13 DEF vars
<1> QED
  BY <1>1, <1>2, <1>3, <1>4, <1>5, <1>6, <1>7, <1>8, <1>9, <1>10, <1>11, <1>12, <1>13 DEF Next

\* A Close in progress keeps its row to itself.
LEMMA LocksKept ==
  ASSUME TypeOK, LocksHold, [Next]_vars
  PROVE  LocksHold'
<1> USE CashAssumption DEF TypeOK, LocksHold, rowVars, saleVars, Sharers, Active, Held, Writable, Idle
<1>1. ASSUME NEW p \in Sale, PassSessionGuard(p) PROVE LocksHold'
  BY <1>1 DEF PassSessionGuard, NeedsSession
<1>2. ASSUME NEW p \in Sale, RefuseSale(p) PROVE LocksHold'
  BY <1>2 DEF RefuseSale, NeedsSession
<1>3. ASSUME NEW p \in Sale, CreatePayment(p) PROVE LocksHold'
  BY <1>3, CallShape DEF CreatePayment
<1>4. ASSUME NEW p \in Sale, FinishSale(p) PROVE LocksHold'
  BY <1>4 DEF FinishSale
<1>5. ASSUME NEW p \in Sale, ApplyResult(p) PROVE LocksHold'
  BY <1>5 DEF ApplyResult
<1>6. ASSUME NEW s \in Session, RecordMovement(s) PROVE LocksHold'
  BY <1>6, CallShape DEF RecordMovement
<1>7. ASSUME NEW s \in Session, SubmitClosingCount(s) PROVE LocksHold'
  BY <1>7, CallShape DEF SubmitClosingCount
<1>8. ASSUME NEW m \in Manager, InsertSession(m) PROVE LocksHold'
  BY <1>8, CallShape DEF InsertSession
<1>9. ASSUME NEW m \in Manager, GuardClose(m) PROVE LocksHold'
  BY <1>9, CallShape DEF GuardClose
<1>10. ASSUME NEW m \in Manager, FinishClose(m) PROVE LocksHold'
  BY <1>10, CallShape DEF FinishClose
<1>11. ASSUME NEW m \in Manager, NEW s \in Session, StampOpen(m, s) PROVE LocksHold'
  BY <1>11, CallShape DEF StampOpen
<1>12. ASSUME NEW m \in Manager, NEW s \in Session, LockForClose(m, s) PROVE LocksHold'
  BY <1>12, CallShape DEF LockForClose
<1>13. CASE UNCHANGED vars
  BY <1>13 DEF vars
<1> QED
  BY <1>1, <1>2, <1>3, <1>4, <1>5, <1>6, <1>7, <1>8, <1>9, <1>10, <1>11, <1>12, <1>13 DEF Next

\* The unique index admits one active session.
LEMMA OneActiveKept ==
  ASSUME TypeOK, LocksHold, OneActive, [Next]_vars
  PROVE  OneActive'
<1> USE CashAssumption DEF TypeOK, OneActive, rowVars, saleVars, Active
<1>1. ASSUME NEW p \in Sale, PassSessionGuard(p) PROVE OneActive'
  BY <1>1 DEF PassSessionGuard
<1>2. ASSUME NEW p \in Sale, RefuseSale(p) PROVE OneActive'
  BY <1>2 DEF RefuseSale
<1>3. ASSUME NEW p \in Sale, CreatePayment(p) PROVE OneActive'
  BY <1>3 DEF CreatePayment
<1>4. ASSUME NEW p \in Sale, FinishSale(p) PROVE OneActive'
  BY <1>4 DEF FinishSale
<1>5. ASSUME NEW p \in Sale, ApplyResult(p) PROVE OneActive'
  BY <1>5 DEF ApplyResult
<1>6. ASSUME NEW s \in Session, RecordMovement(s) PROVE OneActive'
  BY <1>6 DEF RecordMovement
<1>7. ASSUME NEW s \in Session, SubmitClosingCount(s) PROVE OneActive'
  BY <1>7 DEF SubmitClosingCount
<1>8. ASSUME NEW m \in Manager, InsertSession(m) PROVE OneActive'
  BY <1>8, CallShape DEF InsertSession
<1>9. ASSUME NEW m \in Manager, GuardClose(m) PROVE OneActive'
  BY <1>9 DEF GuardClose
<1>10. ASSUME NEW m \in Manager, FinishClose(m) PROVE OneActive'
  BY <1>10, CallShape DEF FinishClose
<1>11. ASSUME NEW m \in Manager, NEW s \in Session, StampOpen(m, s) PROVE OneActive'
  BY <1>11 DEF StampOpen
<1>12. ASSUME NEW m \in Manager, NEW s \in Session, LockForClose(m, s) PROVE OneActive'
  BY <1>12 DEF LockForClose
<1>13. CASE UNCHANGED vars
  BY <1>13 DEF vars
<1> QED
  BY <1>1, <1>2, <1>3, <1>4, <1>5, <1>6, <1>7, <1>8, <1>9, <1>10, <1>11, <1>12, <1>13 DEF Next

\* A session is not closed under a sale in progress.
LEMMA SalesUnderKept ==
  ASSUME TypeOK, LocksHold, SalesUnderActive, [Next]_vars
  PROVE  SalesUnderActive'
<1> USE CashAssumption DEF TypeOK, SalesUnderActive, rowVars, saleVars, Active
<1>1. ASSUME NEW p \in Sale, PassSessionGuard(p) PROVE SalesUnderActive'
  BY <1>1 DEF PassSessionGuard, NeedsSession
<1>2. ASSUME NEW p \in Sale, RefuseSale(p) PROVE SalesUnderActive'
  BY <1>2 DEF RefuseSale
<1>3. ASSUME NEW p \in Sale, CreatePayment(p) PROVE SalesUnderActive'
  BY <1>3 DEF CreatePayment
<1>4. ASSUME NEW p \in Sale, FinishSale(p) PROVE SalesUnderActive'
  BY <1>4 DEF FinishSale
<1>5. ASSUME NEW p \in Sale, ApplyResult(p) PROVE SalesUnderActive'
  BY <1>5 DEF ApplyResult
<1>6. ASSUME NEW s \in Session, RecordMovement(s) PROVE SalesUnderActive'
  BY <1>6 DEF RecordMovement
<1>7. ASSUME NEW s \in Session, SubmitClosingCount(s) PROVE SalesUnderActive'
  BY <1>7 DEF SubmitClosingCount
<1>8. ASSUME NEW m \in Manager, InsertSession(m) PROVE SalesUnderActive'
  BY <1>8, CallShape DEF InsertSession
<1>9. ASSUME NEW m \in Manager, GuardClose(m) PROVE SalesUnderActive'
  BY <1>9 DEF GuardClose
<1>10. ASSUME NEW m \in Manager, FinishClose(m) PROVE SalesUnderActive'
  BY <1>10, CallShape DEF FinishClose, LocksHold, Sharers
<1>11. ASSUME NEW m \in Manager, NEW s \in Session, StampOpen(m, s) PROVE SalesUnderActive'
  BY <1>11 DEF StampOpen
<1>12. ASSUME NEW m \in Manager, NEW s \in Session, LockForClose(m, s) PROVE SalesUnderActive'
  BY <1>12 DEF LockForClose
<1>13. CASE UNCHANGED vars
  BY <1>13 DEF vars
<1> QED
  BY <1>1, <1>2, <1>3, <1>4, <1>5, <1>6, <1>7, <1>8, <1>9, <1>10, <1>11, <1>12, <1>13 DEF Next

\* Stamps follow one clock.
LEMMA StampsKept ==
  ASSUME TypeOK, LocksHold, SalesUnderActive, StampsInOrder, [Next]_vars
  PROVE  StampsInOrder'
<1> USE CashAssumption DEF TypeOK, SalesUnderActive, StampsInOrder, InWindow, rowVars, saleVars, Active
<1>1. ASSUME NEW p \in Sale, PassSessionGuard(p) PROVE StampsInOrder'
  BY <1>1 DEF PassSessionGuard, NeedsSession
<1>2. ASSUME NEW p \in Sale, RefuseSale(p) PROVE StampsInOrder'
  BY <1>2 DEF RefuseSale
<1>3. ASSUME NEW p \in Sale, CreatePayment(p) PROVE StampsInOrder'
  BY <1>3 DEF CreatePayment
<1>4. ASSUME NEW p \in Sale, FinishSale(p) PROVE StampsInOrder'
  BY <1>4 DEF FinishSale
<1>5. ASSUME NEW p \in Sale, ApplyResult(p) PROVE StampsInOrder'
  BY <1>5 DEF ApplyResult
<1>6. ASSUME NEW s \in Session, RecordMovement(s) PROVE StampsInOrder'
  BY <1>6 DEF RecordMovement
<1>7. ASSUME NEW s \in Session, SubmitClosingCount(s) PROVE StampsInOrder'
  BY <1>7 DEF SubmitClosingCount
<1>8. ASSUME NEW m \in Manager, InsertSession(m) PROVE StampsInOrder'
  <2> DEFINE s == call[m].at
  <2>1. call[m] \in [phase : {"stamped"}, at : Session, opened : Nat]
    BY <1>8, CallShape DEF InsertSession
  <2>2. s \in Session /\ call[m].opened <= clock /\ status[s] = "none"
    BY <2>1 DEF LocksHold
  <2>3. \A p \in Cash : sale[p] \notin {"none", "refused"} => under[p] # s
    BY <2>2
  <2>4. CASE Active # {}
    BY <1>8, <2>4 DEF InsertSession
  <2>5. CASE Active = {}
    <3>1. /\ status' = [status EXCEPT ![s] = "opened"]
          /\ openedAt' = [openedAt EXCEPT ![s] = call[m].opened]
          /\ UNCHANGED <<closedAt, clock, sale, under, createdAt>>
      BY <1>8, <2>5 DEF InsertSession
    <3> QED
      BY <2>2, <2>3, <3>1
  <2> QED BY <2>4, <2>5
<1>9. ASSUME NEW m \in Manager, GuardClose(m) PROVE StampsInOrder'
  BY <1>9 DEF GuardClose
<1>10. ASSUME NEW m \in Manager, FinishClose(m) PROVE StampsInOrder'
  BY <1>10, CallShape DEF FinishClose, LocksHold, Sharers
<1>11. ASSUME NEW m \in Manager, NEW s \in Session, StampOpen(m, s) PROVE StampsInOrder'
  BY <1>11 DEF StampOpen
<1>12. ASSUME NEW m \in Manager, NEW s \in Session, LockForClose(m, s) PROVE StampsInOrder'
  BY <1>12 DEF LockForClose
<1>13. CASE UNCHANGED vars
  BY <1>13 DEF vars
<1> QED
  BY <1>1, <1>2, <1>3, <1>4, <1>5, <1>6, <1>7, <1>8, <1>9, <1>10, <1>11, <1>12, <1>13 DEF Next

\* After the guard nothing of the window is undecided.
LEMMA UndecidedKept ==
  ASSUME CashInv, [Next]_vars
  PROVE  NoneUndecided'
<1> USE CashAssumption DEF CashInv, TypeOK, NoneUndecided, rowVars, saleVars
<1>1. ASSUME NEW p \in Sale, PassSessionGuard(p) PROVE NoneUndecided'
  BY <1>1 DEF PassSessionGuard
<1>2. ASSUME NEW p \in Sale, RefuseSale(p) PROVE NoneUndecided'
  BY <1>2 DEF RefuseSale
<1>3. ASSUME NEW p \in Sale, CreatePayment(p) PROVE NoneUndecided'
  BY <1>3 DEF CreatePayment, StampsInOrder
<1>4. ASSUME NEW p \in Sale, FinishSale(p) PROVE NoneUndecided'
  BY <1>4, CallShape DEF FinishSale, LocksHold, OneActive, SalesUnderActive, Active, Sharers
<1>5. ASSUME NEW p \in Sale, ApplyResult(p) PROVE NoneUndecided'
  BY <1>5 DEF ApplyResult
<1>6. ASSUME NEW s \in Session, RecordMovement(s) PROVE NoneUndecided'
  BY <1>6 DEF RecordMovement
<1>7. ASSUME NEW s \in Session, SubmitClosingCount(s) PROVE NoneUndecided'
  BY <1>7 DEF SubmitClosingCount
<1>8. ASSUME NEW m \in Manager, InsertSession(m) PROVE NoneUndecided'
  BY <1>8, CallShape DEF InsertSession, LocksHold, Idle
<1>9. ASSUME NEW m \in Manager, GuardClose(m) PROVE NoneUndecided'
  BY <1>9, CallShape DEF GuardClose, Pending, Idle
<1>10. ASSUME NEW m \in Manager, FinishClose(m) PROVE NoneUndecided'
  BY <1>10, CallShape DEF FinishClose, Idle, LocksHold, OneActive, SalesUnderActive, Active, Sharers
<1>11. ASSUME NEW m \in Manager, NEW s \in Session, StampOpen(m, s) PROVE NoneUndecided'
  BY <1>11, CallShape DEF StampOpen
<1>12. ASSUME NEW m \in Manager, NEW s \in Session, LockForClose(m, s) PROVE NoneUndecided'
  BY <1>12, CallShape DEF LockForClose
<1>13. CASE UNCHANGED vars
  BY <1>13 DEF vars
<1> QED
  BY <1>1, <1>2, <1>3, <1>4, <1>5, <1>6, <1>7, <1>8, <1>9, <1>10, <1>11, <1>12, <1>13 DEF Next

\* The figures Close answered with stay true but for voids.
LEMMA ReportsKept ==
  ASSUME CashInv, [Next]_vars
  PROVE  ReportsHold'
<1> USE CashAssumption DEF CashInv, TypeOK, ReportsHold, Taken, InWindow, rowVars, saleVars
<1>1. ASSUME NEW p \in Sale, PassSessionGuard(p) PROVE ReportsHold'
  BY <1>1 DEF PassSessionGuard, NeedsSession
<1>2. ASSUME NEW p \in Sale, RefuseSale(p) PROVE ReportsHold'
  BY <1>2 DEF RefuseSale
<1>3. ASSUME NEW p \in Sale, CreatePayment(p) PROVE ReportsHold'
  BY <1>3 DEF CreatePayment, StampsInOrder
<1>4. ASSUME NEW p \in Sale, FinishSale(p) PROVE ReportsHold'
  BY <1>4 DEF FinishSale
<1>5. ASSUME NEW p \in Sale, ApplyResult(p) PROVE ReportsHold'
  BY <1>5 DEF ApplyResult, NoneUndecided
<1>6. ASSUME NEW s \in Session, RecordMovement(s) PROVE ReportsHold'
  BY <1>6 DEF RecordMovement, TakesMovements
<1>7. ASSUME NEW s \in Session, SubmitClosingCount(s) PROVE ReportsHold'
  BY <1>7 DEF SubmitClosingCount, Active
<1>8. ASSUME NEW m \in Manager, InsertSession(m) PROVE ReportsHold'
  BY <1>8, CallShape DEF InsertSession, LocksHold
<1>9. ASSUME NEW m \in Manager, GuardClose(m) PROVE ReportsHold'
  BY <1>9 DEF GuardClose
<1>10. ASSUME NEW m \in Manager, FinishClose(m) PROVE ReportsHold'
  BY <1>10, CallShape DEF FinishClose, LocksHold, StampsInOrder, View
<1>11. ASSUME NEW m \in Manager, NEW s \in Session, StampOpen(m, s) PROVE ReportsHold'
  BY <1>11 DEF StampOpen
<1>12. ASSUME NEW m \in Manager, NEW s \in Session, LockForClose(m, s) PROVE ReportsHold'
  BY <1>12 DEF LockForClose
<1>13. CASE UNCHANGED vars
  BY <1>13 DEF vars
<1> QED
  BY <1>1, <1>2, <1>3, <1>4, <1>5, <1>6, <1>7, <1>8, <1>9, <1>10, <1>11, <1>12, <1>13 DEF Next

\* Nothing but a sale's result changes a drawer once it is counted.
LEMMA CountsKept ==
  ASSUME CashInv, [Next]_vars
  PROVE  CountsHold'
<1> USE CashAssumption DEF CashInv, TypeOK, CountsHold, rowVars, saleVars
<1>1. ASSUME NEW p \in Sale, PassSessionGuard(p) PROVE CountsHold'
  BY <1>1 DEF PassSessionGuard, NeedsSession
<1>2. ASSUME NEW p \in Sale, RefuseSale(p) PROVE CountsHold'
  BY <1>2 DEF RefuseSale
<1>3. ASSUME NEW p \in Sale, CreatePayment(p) PROVE CountsHold'
  BY <1>3 DEF CreatePayment
<1>4. ASSUME NEW p \in Sale, FinishSale(p) PROVE CountsHold'
  BY <1>4 DEF FinishSale
<1>5. ASSUME NEW p \in Sale, ApplyResult(p) PROVE CountsHold'
  BY <1>5 DEF ApplyResult, Noticing
<1>6. ASSUME NEW s \in Session, RecordMovement(s) PROVE CountsHold'
  BY <1>6 DEF RecordMovement, TakesMovements
<1>7. ASSUME NEW s \in Session, SubmitClosingCount(s) PROVE CountsHold'
  BY <1>7 DEF SubmitClosingCount, Drawer
<1>8. ASSUME NEW m \in Manager, InsertSession(m) PROVE CountsHold'
  BY <1>8, CallShape DEF InsertSession, LocksHold
<1>9. ASSUME NEW m \in Manager, GuardClose(m) PROVE CountsHold'
  BY <1>9 DEF GuardClose
<1>10. ASSUME NEW m \in Manager, FinishClose(m) PROVE CountsHold'
  BY <1>10, CallShape DEF FinishClose
<1>11. ASSUME NEW m \in Manager, NEW s \in Session, StampOpen(m, s) PROVE CountsHold'
  BY <1>11 DEF StampOpen
<1>12. ASSUME NEW m \in Manager, NEW s \in Session, LockForClose(m, s) PROVE CountsHold'
  BY <1>12 DEF LockForClose
<1>13. CASE UNCHANGED vars
  BY <1>13 DEF vars
<1> QED
  BY <1>1, <1>2, <1>3, <1>4, <1>5, <1>6, <1>7, <1>8, <1>9, <1>10, <1>11, <1>12, <1>13 DEF Next

\* A close turns the count and the view into an explained difference.
LEMMA DifferencesKept ==
  ASSUME CashInv, [Next]_vars
  PROVE  DifferencesAreExplained'
<1> USE CashAssumption DEF CashInv, TypeOK, DifferencesAreExplained, rowVars, saleVars
<1>1. ASSUME NEW p \in Sale, PassSessionGuard(p) PROVE DifferencesAreExplained'
  BY <1>1 DEF PassSessionGuard, NeedsSession, Active
<1>2. ASSUME NEW p \in Sale, RefuseSale(p) PROVE DifferencesAreExplained'
  BY <1>2 DEF RefuseSale
<1>3. ASSUME NEW p \in Sale, CreatePayment(p) PROVE DifferencesAreExplained'
  BY <1>3 DEF CreatePayment
<1>4. ASSUME NEW p \in Sale, FinishSale(p) PROVE DifferencesAreExplained'
  BY <1>4 DEF FinishSale
<1>5. ASSUME NEW p \in Sale, ApplyResult(p) PROVE DifferencesAreExplained'
  BY <1>5 DEF ApplyResult, Noticing
<1>6. ASSUME NEW s \in Session, RecordMovement(s) PROVE DifferencesAreExplained'
  BY <1>6 DEF RecordMovement
<1>7. ASSUME NEW s \in Session, SubmitClosingCount(s) PROVE DifferencesAreExplained'
  BY <1>7 DEF SubmitClosingCount, Active
<1>8. ASSUME NEW m \in Manager, InsertSession(m) PROVE DifferencesAreExplained'
  BY <1>8, CallShape DEF InsertSession, LocksHold
<1>9. ASSUME NEW m \in Manager, GuardClose(m) PROVE DifferencesAreExplained'
  BY <1>9 DEF GuardClose
<1>10. ASSUME NEW m \in Manager, FinishClose(m) PROVE DifferencesAreExplained'
  BY <1>10, CallShape DEF FinishClose, LocksHold, StampsInOrder, CountsHold, View, Taken
<1>11. ASSUME NEW m \in Manager, NEW s \in Session, StampOpen(m, s) PROVE DifferencesAreExplained'
  BY <1>11 DEF StampOpen
<1>12. ASSUME NEW m \in Manager, NEW s \in Session, LockForClose(m, s) PROVE DifferencesAreExplained'
  BY <1>12 DEF LockForClose
<1>13. CASE UNCHANGED vars
  BY <1>13 DEF vars
<1> QED
  BY <1>1, <1>2, <1>3, <1>4, <1>5, <1>6, <1>7, <1>8, <1>9, <1>10, <1>11, <1>12, <1>13 DEF Next

-----------------------------------------------------------------------------
(* The theorems.                                                           *)

\* The inductive invariant holds in every reachable state.
THEOREM CashInvariant == Spec => []CashInv
<1>1. Init => CashInv
  BY CashInvInit
<1>2. CashInv /\ [Next]_vars => CashInv'
  BY TypesKept, LocksKept, OneActiveKept, SalesUnderKept, StampsKept, UndecidedKept,
     ReportsKept, CountsKept, DifferencesKept DEF CashInv
<1> QED BY <1>1, <1>2, PTL DEF Spec

\* Every row and every call in progress keeps its shape.
THEOREM CashTypes == Spec => []TypeOK
<1>1. CashInv => TypeOK
  BY DEF CashInv
<1> QED BY <1>1, CashInvariant, PTL

\* A registered cash sale is in the window of the session its guard found, whatever
\* the close that raced it.
THEOREM SalesInWindow == Spec => []CashSalesInTheirWindow
<1>1. CashInv => CashSalesInTheirWindow
  BY DEF CashInv, CashSalesInTheirWindow, StampsInOrder
<1> QED BY <1>1, CashInvariant, PTL

\* A closed session's window holds no undecided cash sale.
THEOREM WindowSettled == Spec => []ClosedWindowIsSettled
<1>1. CashInv => ClosedWindowIsSettled
  <2> SUFFICES ASSUME CashInv, NEW s \in Session, NEW p \in Cash,
                      status[s] = "closed", InWindow(p, s), sale[p] = "pending"
               PROVE  FALSE
    BY DEF ClosedWindowIsSettled
  <2>1. createdAt[p] < closedAt[s]
    BY DEF InWindow
  <2>2. createdAt[p] >= closedAt[s]
    BY DEF CashInv, NoneUndecided
  <2>3. createdAt[p] \in Nat /\ closedAt[s] \in Nat
    BY CashAssumption DEF CashInv, TypeOK
  <2> QED BY <2>1, <2>2, <2>3
<1> QED BY <1>1, CashInvariant, PTL

\* A closed session's figures move only when one of its sales is voided.
THEOREM ReportsStand == Spec => []ReportsMoveOnlyByVoids
<1>1. CashInv => ReportsMoveOnlyByVoids
  BY DEF CashInv, ReportsHold, ReportsMoveOnlyByVoids, Taken
<1> QED BY <1>1, CashInvariant, PTL

\* The difference a close reports comes from sales decided after the count or rung
\* up on another drawer.
THEOREM DifferencesExplained == Spec => []DifferencesAreExplained
<1>1. CashInv => DifferencesAreExplained
  BY DEF CashInv
<1> QED BY <1>1, CashInvariant, PTL
=============================================================================
