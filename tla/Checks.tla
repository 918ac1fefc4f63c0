------------------------------- MODULE Checks -------------------------------
(***************************************************************************)
(* Checks (adisyon), tables, orders and the money collected on them: the   *)
(* pos module's services, and the sale registration of the payment module  *)
(* that reads the check through pos while pos reads the payments back.     *)
(*                                                                         *)
(* The two modules own different tables and never lock each other's rows.  *)
(* Close, Cancel, Merge and MoveItems read the completed total and the     *)
(* pending total of a check in two transactions before the one that locks  *)
(* the check; RegisterSale reads the check before the one that takes the   *)
(* per-check payment lock, and then sums completed and pending payments in *)
(* two READ COMMITTED statements.  Every read that another transaction can *)
(* get in front of is a step of its own; what a row lock protects is one   *)
(* step.  One branch; a refused call changes nothing.                      *)
(***************************************************************************)
EXTENDS Integers, FiniteSets, FiniteSetsExt

CONSTANTS
  Check, Table, Order, Item, Clerk, Waiter, Guest, Sale,
  NoCheck, NoTable, NoOrder,
  Price,       \* quantity * unit_price_amount of a line
  SaleCheck,   \* check_id of a sale request; NoCheck for a sale without one
  SaleKey,     \* idempotency key of a sale request
  Amount,      \* amount_total
  Rounding,    \* rounding_amount
  Step,        \* RoundingPolicy.StepMinor
  Ceiling,     \* RoundingPolicy.MaxPerCheckMinor
  Flows,       \* bound: the order flows an admin sets
  Asks         \* bound: the order statuses staff ask for

ASSUME ChecksAssumption ==
  /\ NoCheck \notin Check /\ NoTable \notin Table /\ NoOrder \notin Order
  /\ IsFiniteSet(Item) /\ IsFiniteSet(Sale)
  /\ Price \in [Item -> Nat]
  /\ SaleCheck \in [Sale -> Check \cup {NoCheck}]
  /\ Amount \in [Sale -> Nat \ {0}] /\ Rounding \in [Sale -> Nat]
  /\ Step \in Nat \ {0} /\ Ceiling \in Nat
  /\ Flows \subseteq {"full", "simple"}

VARIABLES
  check,     \* checks.status; "none" before the row exists
  tableOf,   \* checks.table_id
  table,     \* tables.status
  flow,      \* pos_branch_settings.order_flow; "full" without a row
  order,     \* orders.status
  checkOf,   \* orders.check_id
  orderOf,   \* order_items.order_id
  pay,       \* payments.status of the payment a sale request created
  sale,      \* RegisterSale calls: phase, and the totals read so far
  desk,      \* Close, Cancel, Merge and MoveItems calls: the totals read so far
  waiter,    \* order transitions: the header read without a lock
  guest,     \* PlaceGuest calls
  peak,      \* history: the highest total each check ever had
  late,      \* history: payments created while their check was being settled
  flipped,   \* history: payments completed between somebody's two sums
  override   \* history: tables freed by hand under an open check

floorVars == <<check, tableOf, table, flow, override>>
orderVars == <<order, checkOf, orderOf, peak>>
moneyVars == <<pay, late, flipped>>
callVars  == <<sale, desk, waiter, guest>>
vars == <<floorVars, orderVars, moneyVars, callVars>>

-----------------------------------------------------------------------------
CheckStatus == {"none", "open", "closed", "cancelled", "merged"}

TableStatus == {"empty", "occupied", "reserved", "cleaning"}

OrderStatus ==
  {"none", "pending", "accepted", "preparing", "ready", "delivered", "rejected", "cancelled"}

\* domain.KitchenActiveOrderStatuses and domain.InactiveOrderStatuses.
KitchenActive == {"pending", "accepted", "preparing", "ready"}
Inactive == {"rejected", "cancelled"}

\* domain.allowedOrderTransitions.
OrderEdges ==
  [pending   |-> {"accepted", "rejected", "cancelled"},
   accepted  |-> {"preparing", "cancelled"},
   preparing |-> {"ready", "cancelled"},
   ready     |-> {"delivered", "cancelled"},
   delivered |-> {}, rejected |-> {}, cancelled |-> {}]

\* domain.allowedTableTransitions.
TableEdges ==
  [empty    |-> {"occupied", "reserved", "cleaning"},
   occupied |-> {"cleaning", "empty"},
   reserved |-> {"occupied", "empty"},
   cleaning |-> {"empty"}]

PayStatus == {"none", "pending", "completed", "failed", "voided"}
Live == {"pending", "completed"}

Idle == [phase |-> "idle"]

SaleCall ==
  [phase : {"idle", "asked", "barred"}]
    \cup [phase : {"priced"}, total : Nat]
    \cup [phase : {"locked"}, total : Nat, paid : Nat]
    \cup [phase : {"summed"}, due : Int]

DeskCall ==
  [phase : {"idle"}]
    \cup [phase : {"paid"}, at : Check, paid : Nat]
    \cup [phase : {"ready"}, at : Check, paid : Nat, pending : Nat]

WaiterCall ==
  [phase : {"idle"}] \cup [phase : {"peeked"}, of : Order, at : Check \cup {NoCheck}]

GuestCall ==
  [phase : {"idle"}]
    \cup [phase : {"opening"}, at : Table, tries : 1 .. 2]
    \cup [phase : {"retry"}, at : Table]

\* Every row and every call in progress has one of the shapes the code gives it.
TypeOK ==
  /\ check \in [Check -> CheckStatus]
  /\ tableOf \in [Check -> Table \cup {NoTable}]
  /\ table \in [Table -> TableStatus]
  /\ flow \in {"full", "simple"}
  /\ order \in [Order -> OrderStatus]
  /\ checkOf \in [Order -> Check \cup {NoCheck}]
  /\ orderOf \in [Item -> Order \cup {NoOrder}]
  /\ pay \in [Sale -> PayStatus]
  /\ sale \in [Sale -> SaleCall]
  /\ desk \in [Clerk -> DeskCall]
  /\ waiter \in [Waiter -> WaiterCall]
  /\ guest \in [Guest -> GuestCall]
  /\ peak \in [Check -> Nat]
  /\ late \subseteq Sale
  /\ flipped \subseteq Sale
  /\ override \subseteq Table

Init ==
  /\ check = [c \in Check |-> "none"]
  /\ tableOf = [c \in Check |-> NoTable]
  /\ table = [t \in Table |-> "empty"]
  /\ flow = "full"
  /\ order = [o \in Order |-> "none"]
  /\ checkOf = [o \in Order |-> NoCheck]
  /\ orderOf = [i \in Item |-> NoOrder]
  /\ pay = [s \in Sale |-> "none"]
  /\ sale = [s \in Sale |-> Idle]
  /\ desk = [k \in Clerk |-> Idle]
  /\ waiter = [w \in Waiter |-> Idle]
  /\ guest = [g \in Guest |-> Idle]
  /\ peak = [c \in Check |-> 0]
  /\ late = {}
  /\ flipped = {}
  /\ override = {}

-----------------------------------------------------------------------------
(* Totals.                                                                 *)

LinesOf(o) == {i \in Item : orderOf[i] = o}

Billable(o) == order[o] \notin Inactive

\* The lines CheckRepo.GetTotal adds up, and their sum.
Bill(c) ==
  {i \in Item : \E o \in Order : orderOf[i] = o /\ checkOf[o] = c /\ Billable(o)}

SumPrices(lines) == SumFunctionOnSet(Price, lines)

\* CheckRepo.GetTotal.
Total(c) == SumPrices(Bill(c))

Settles(s) == Amount[s] + Rounding[s]

\* The payments of a check that are in one of the statuses, and what they settle.
PaymentsIn(c, statuses) == {s \in Sale : SaleCheck[s] = c /\ pay[s] \in statuses}

SumOver(c, statuses) ==
  SumFunctionOnSet([s \in Sale |-> Settles(s)], PaymentsIn(c, statuses))

PaidTotal(c) == SumOver(c, {"completed"})

PendingTotal(c) == SumOver(c, {"pending"})

RoundingTotal(c) == SumFunctionOnSet(Rounding, PaymentsIn(c, Live))

\* The history of a check's highest total; taken after the orders have moved.
NotePeak == peak' = [c \in Check |-> Max({peak[c], Total(c)'})]

-----------------------------------------------------------------------------
(* Opening a check; the floor plan.                                        *)

OpenAt(t) == {c \in Check : check[c] = "open" /\ tableOf[c] = t}

\* Mutant: checks_open_table_id_uidx does not exist.
MaySeatWithoutIndex(t) == t # NoTable => table[t] \in {"empty", "reserved"}

\* staffTableGuard under the table's row lock, and the partial unique index that
\* backs it up when the table was freed by hand.
MaySeat(t) == t # NoTable => table[t] \in {"empty", "reserved"} /\ OpenAt(t) = {}

SeatCheck(c, t) ==
  /\ check[c] = "none"
  /\ check' = [check EXCEPT ![c] = "open"]
  /\ tableOf' = [tableOf EXCEPT ![c] = t]
  /\ table' = [u \in Table |-> IF u = t THEN "occupied" ELSE table[u]]
  /\ UNCHANGED <<flow, override>>

\* CheckService.Open; without a table for takeaway and delivery.
OpenCheck(c, t) ==
  /\ MaySeat(t)
  /\ SeatCheck(c, t)
  /\ UNCHANGED <<orderVars, moneyVars, callVars>>

\* TableService.SetStatus: every edge of the machine except to "occupied".
SetStatus(t, to) ==
  /\ to \in TableEdges[table[t]] \ {"occupied"}
  /\ table' = [table EXCEPT ![t] = to]
  /\ override' = IF OpenAt(t) # {} THEN override \cup {t} ELSE override
  /\ UNCHANGED <<check, tableOf, flow, orderVars, moneyVars, callVars>>

\* Mutant: the table a check leaves is not updated.
ReleaseNothing(c, to) == UNCHANGED <<table, override>>

\* UpdateStatusIfCurrent on the table a check leaves: occupied -> to, or nothing
\* when staff has already changed the table by hand.
Release(c, to) ==
  /\ table' = [u \in Table |-> IF u = tableOf[c] /\ table[u] = "occupied" THEN to
                                                                         ELSE table[u]]
  /\ override' = override \ {tableOf[c]}

\* CheckService.Transfer.
Transfer(c, t) ==
  /\ check[c] = "open"
  /\ t # tableOf[c]
  /\ MaySeat(t)
  /\ tableOf' = [tableOf EXCEPT ![c] = t]
  /\ table' = [u \in Table |-> IF u = t THEN "occupied"
                               ELSE IF u = tableOf[c] /\ table[u] = "occupied" THEN "empty"
                               ELSE table[u]]
  /\ override' = override \ {tableOf[c]}
  /\ UNCHANGED <<check, flow, orderVars, moneyVars, callVars>>

-----------------------------------------------------------------------------
(* Orders.                                                                 *)

\* BranchSettingsService.Set.
SetOrderFlow(f) ==
  /\ flow' = f
  /\ UNCHANGED <<check, tableOf, table, override, orderVars, moneyVars, callVars>>

\* Mutant: the name of the event is taken for the status.
BirthStatusVerbatim == IF flow = "simple" THEN "accepted" ELSE "placed"

\* applyBirthStatus.
BirthStatus == IF flow = "simple" THEN "accepted" ELSE "pending"

\* OrderRepo.Create with its lines.
CreateOrder(o, c) ==
  /\ order[o] = "none"
  /\ \E lines \in SUBSET LinesOf(NoOrder) :
       /\ lines # {}
       /\ orderOf' = [i \in Item |-> IF i \in lines THEN o ELSE orderOf[i]]
  /\ order' = [order EXCEPT ![o] = BirthStatus]
  /\ checkOf' = [checkOf EXCEPT ![o] = c]
  /\ NotePeak

\* Mutant: nothing looks at the check an order is placed on.
WritableAlways(c) == c # NoCheck => check[c] # "none"

\* lockWritableCheck: the check is open, under its row lock; an order or a
\* transition without a check is not guarded.
Writable(c) == c # NoCheck => check[c] = "open"

\* OrderService.Place.
PlaceOrder(o, c) ==
  /\ Writable(c)
  /\ CreateOrder(o, c)
  /\ UNCHANGED <<floorVars, moneyVars, callVars>>

\* lockOrderForTransition, first half: the order's header, read without a lock.
PeekOrder(w, o) ==
  /\ waiter[w].phase = "idle"
  /\ order[o] # "none"
  /\ waiter' = [waiter EXCEPT ![w] = [phase |-> "peeked", of |-> o, at |-> checkOf[o]]]
  /\ UNCHANGED <<floorVars, orderVars, moneyVars, sale, desk, guest>>

\* Accept, Reject, AdvanceStatus and Cancel: lock the check the header named,
\* then the order, and take one edge of the order machine.
Transition(w, to) ==
  /\ waiter[w].phase = "peeked"
  /\ Writable(waiter[w].at)
  /\ to \in OrderEdges[order[waiter[w].of]]
  /\ order' = [order EXCEPT ![waiter[w].of] = to]
  /\ waiter' = [waiter EXCEPT ![w] = Idle]
  /\ UNCHANGED <<floorVars, checkOf, orderOf, peak, moneyVars, sale, desk, guest>>

\* The check is no longer open, the edge does not exist, or the call fails.
TransitionRefused(w) ==
  /\ waiter[w].phase = "peeked"
  /\ waiter' = [waiter EXCEPT ![w] = Idle]
  /\ UNCHANGED <<floorVars, orderVars, moneyVars, sale, desk, guest>>

-----------------------------------------------------------------------------
(* Guest orders by QR code: PlaceGuest and its one retry.                  *)

\* resolveGuestCheck finds the table's open check and locks it; the order joins.
GuestJoins(g, t, o) ==
  /\ guest[g].phase = "idle" \/ guest[g] = [phase |-> "retry", at |-> t]
  /\ \E c \in OpenAt(t) : CreateOrder(o, c)
  /\ guest' = [guest EXCEPT ![g] = Idle]
  /\ UNCHANGED <<floorVars, moneyVars, sale, desk, waiter>>

\* It finds no open check: an empty result locks nothing.
GuestFindsNone(g, t) ==
  /\ OpenAt(t) = {}
  /\ \/ guest[g].phase = "idle"
        /\ guest' = [guest EXCEPT ![g] = [phase |-> "opening", at |-> t, tries |-> 1]]
     \/ guest[g] = [phase |-> "retry", at |-> t]
        /\ guest' = [guest EXCEPT ![g] = [phase |-> "opening", at |-> t, tries |-> 2]]
  /\ UNCHANGED <<floorVars, orderVars, moneyVars, sale, desk, waiter>>

\* openCheckTx under the table's lock, and the order on the new check.
GuestOpens(g, c, o) ==
  /\ guest[g].phase = "opening"
  /\ MaySeat(guest[g].at)
  /\ SeatCheck(c, guest[g].at)
  /\ CreateOrder(o, c)
  /\ guest' = [guest EXCEPT ![g] = Idle]
  /\ UNCHANGED <<moneyVars, sale, desk, waiter>>

\* guestTableGuard refuses: an occupied table is tried once more, a table being
\* cleaned is not.
GuestRefused(g) ==
  /\ guest[g].phase = "opening"
  /\ ~MaySeat(guest[g].at)
  /\ guest' = [guest EXCEPT ![g] =
                 IF @.tries = 1 /\ table[@.at] # "cleaning"
                 THEN [phase |-> "retry", at |-> @.at] ELSE Idle]
  /\ UNCHANGED <<floorVars, orderVars, moneyVars, sale, desk, waiter>>

-----------------------------------------------------------------------------
(* RegisterSale.                                                           *)

KeyUsed(s) == \E z \in Sale : SaleKey[z] = SaleKey[s] /\ pay[z] # "none"

\* checkVerdictFor: is the check open?  Read before the transaction, applied in it.
AskCheck(s) ==
  /\ sale[s].phase = "idle"
  /\ sale' = [sale EXCEPT ![s] = [phase |-> IF Writable(SaleCheck[s]) THEN "asked" ELSE "barred"]]
  /\ UNCHANGED <<floorVars, orderVars, moneyVars, desk, waiter, guest>>

\* CheckTotal, also before the transaction.
ReadTotal(s) ==
  /\ sale[s].phase = "asked"
  /\ SaleCheck[s] # NoCheck
  /\ sale' = [sale EXCEPT ![s] = [phase |-> "priced", total |-> Total(SaleCheck[s])]]
  /\ UNCHANGED <<floorVars, orderVars, moneyVars, desk, waiter, guest>>

EndSale(s) == sale' = [sale EXCEPT ![s] = Idle]

\* roundingVerdictFor, with the branch's switches on.
RoundingVerdict(s) ==
  Rounding[s] > 0 => /\ SaleCheck[s] # NoCheck
                     /\ Rounding[s] < Step
                     /\ Amount[s] % Step = 0

\* The call ends without writing: the key has its payment already (a replay), a
\* verdict bars it, no cash session is open, or the transaction fails.
SaleEnds(s) ==
  /\ sale[s].phase # "idle"
  /\ EndSale(s)
  /\ UNCHANGED <<floorVars, orderVars, moneyVars, desk, waiter, guest>>

\* Mutant: the per-check lock is not taken.
LockFreeAlways(s) == TRUE

\* LockCheckForPayment.
LockFree(s) ==
  \A z \in Sale : sale[z].phase \in {"locked", "summed"} => SaleCheck[z] # SaleCheck[s]

\* Mutant: the key is not looked up again once the lock is held.
LockSaleUnchecked(s) ==
  /\ sale[s].phase = "priced"
  /\ RoundingVerdict(s)
  /\ LockFree(s)
  /\ sale' = [sale EXCEPT ![s] = [phase |-> "locked", total |-> @.total,
                                  paid |-> PaidTotal(SaleCheck[s])]]
  /\ UNCHANGED <<floorVars, orderVars, moneyVars, desk, waiter, guest>>

\* guardAgainstOverpayment: the lock, the key once more, and the completed sum.
LockSale(s) ==
  /\ sale[s].phase = "priced"
  /\ ~KeyUsed(s)
  /\ RoundingVerdict(s)
  /\ LockFree(s)
  /\ sale' = [sale EXCEPT ![s] = [phase |-> "locked", total |-> @.total,
                                  paid |-> PaidTotal(SaleCheck[s])]]
  /\ UNCHANGED <<floorVars, orderVars, moneyVars, desk, waiter, guest>>

\* The pending sum, by a later statement of the same transaction.
SumPending(s) ==
  /\ sale[s].phase = "locked"
  /\ sale' = [sale EXCEPT ![s] =
                [phase |-> "summed", due |-> @.total - @.paid - PendingTotal(SaleCheck[s])]]
  /\ UNCHANGED <<floorVars, orderVars, moneyVars, desk, waiter, guest>>

\* Mutant: the concession is bounded per payment, not per check.
CoversPerPayment(s) ==
  /\ Settles(s) <= sale[s].due
  /\ Rounding[s] > 0 => Settles(s) = sale[s].due /\ Rounding[s] <= Ceiling

\* The guard's verdict: no more than is due, and a rounded sale pays exactly that.
Covers(s) ==
  /\ Settles(s) <= sale[s].due
  /\ Rounding[s] > 0 => /\ Settles(s) = sale[s].due
                        /\ RoundingTotal(SaleCheck[s]) + Rounding[s] <= Ceiling

BeingSettled(c) == \E k \in Clerk : desk[k].phase # "idle" /\ desk[k].at = c

\* PaymentRepo.Create; a duplicate key aborts the transaction and the existing
\* payment is returned (SaleEnds).
CreatePayment(s) ==
  /\ ~KeyUsed(s)
  /\ pay' = [pay EXCEPT ![s] = "pending"]
  /\ late' = IF BeingSettled(SaleCheck[s]) \/ ~Writable(SaleCheck[s])
             THEN late \cup {s} ELSE late
  /\ UNCHANGED flipped

\* The payment is created: with a check, under its lock; without one, directly.
SettleSale(s) ==
  /\ \/ sale[s].phase = "summed" /\ Covers(s)
     \/ sale[s].phase = "asked" /\ SaleCheck[s] = NoCheck /\ RoundingVerdict(s)
  /\ CreatePayment(s)
  /\ EndSale(s)
  /\ UNCHANGED <<floorVars, orderVars, desk, waiter, guest>>

-----------------------------------------------------------------------------
(* The outcome of a payment, as Registration promises it.                  *)

BetweenSums(c) ==
  \/ \E z \in Sale : sale[z].phase = "locked" /\ SaleCheck[z] = c
  \/ \E k \in Clerk : desk[k].phase = "paid" /\ desk[k].at = c

PaymentCompletes(s) ==
  /\ pay[s] = "pending"
  /\ pay' = [pay EXCEPT ![s] = "completed"]
  /\ flipped' = IF BetweenSums(SaleCheck[s]) THEN flipped \cup {s} ELSE flipped
  /\ UNCHANGED <<floorVars, orderVars, late, callVars>>

PaymentFails(s) ==
  /\ pay[s] = "pending"
  /\ pay' = [pay EXCEPT ![s] = "failed"]
  /\ UNCHANGED <<floorVars, orderVars, late, flipped, callVars>>

PaymentVoided(s) ==
  /\ pay[s] \in Live
  /\ pay' = [pay EXCEPT ![s] = "voided"]
  /\ UNCHANGED <<floorVars, orderVars, late, flipped, callVars>>

-----------------------------------------------------------------------------
(* Close, Cancel, Merge and MoveItems all begin with the same two reads.   *)

\* SaleReader.TotalPaidForCheck, in a transaction of its own.
ReadPaid(k, c) ==
  /\ desk[k].phase = "idle"
  /\ check[c] # "none"
  /\ desk' = [desk EXCEPT ![k] = [phase |-> "paid", at |-> c, paid |-> PaidTotal(c)]]
  /\ UNCHANGED <<floorVars, orderVars, moneyVars, sale, waiter, guest>>

\* SaleReader.PendingTotalForCheck, in another one.
ReadPending(k) ==
  /\ desk[k].phase = "paid"
  /\ desk' = [desk EXCEPT ![k] = [phase |-> "ready", at |-> @.at, paid |-> @.paid,
                                  pending |-> PendingTotal(@.at)]]
  /\ UNCHANGED <<floorVars, orderVars, moneyVars, sale, waiter, guest>>

\* The call is refused, or fails: nothing was written.
DeskEnds(k) ==
  /\ desk[k].phase # "idle"
  /\ desk' = [desk EXCEPT ![k] = Idle]
  /\ UNCHANGED <<floorVars, orderVars, moneyVars, sale, waiter, guest>>

\* The write transaction starts with the check locked and open.
Holds(k, c) ==
  /\ desk[k].phase = "ready"
  /\ desk[k].at = c
  /\ check[c] = "open"
  /\ desk' = [desk EXCEPT ![k] = Idle]

Collected(k) == desk[k].paid + desk[k].pending

\* Mutant: pending money closes a check.
PaymentCoversTotalWithPending(k, c) == desk[k].paid + desk[k].pending >= Total(c)

\* paymentCoversTotal: only completed payments close a check.
PaymentCoversTotal(k, c) == desk[k].paid >= Total(c)

SetActive(c, to) ==
  order' = [o \in Order |-> IF checkOf[o] = c /\ order[o] \in KitchenActive THEN to
                                                                        ELSE order[o]]

\* CheckService.Close, with deliverLiveOrders.
CloseCheck(k, c) ==
  /\ Holds(k, c)
  /\ PaymentCoversTotal(k, c)
  /\ IF flow = "simple" THEN SetActive(c, "delivered") ELSE UNCHANGED order
  /\ check' = [check EXCEPT ![c] = "closed"]
  /\ Release(c, "cleaning")
  /\ UNCHANGED <<tableOf, flow, checkOf, orderOf, peak, moneyVars, sale, waiter, guest>>

\* Mutant: the orders of a cancelled check stay with the kitchen.
CancelCheckOnly(k, c) ==
  /\ Holds(k, c)
  /\ Collected(k) = 0
  /\ check' = [check EXCEPT ![c] = "cancelled"]
  /\ Release(c, "cleaning")
  /\ UNCHANGED <<tableOf, flow, orderVars, moneyVars, sale, waiter, guest>>

\* Mutant: the totals that were read are not looked at.
CancelCheckPaid(k, c) ==
  /\ Holds(k, c)
  /\ check' = [check EXCEPT ![c] = "cancelled"]
  /\ Release(c, "cleaning")
  /\ SetActive(c, "cancelled")
  /\ UNCHANGED <<tableOf, flow, checkOf, orderOf, peak, moneyVars, sale, waiter, guest>>

\* CheckService.Cancel, with cancelLiveOrders.
CancelCheck(k, c) ==
  /\ Holds(k, c)
  /\ Collected(k) = 0
  /\ check' = [check EXCEPT ![c] = "cancelled"]
  /\ Release(c, "cleaning")
  /\ SetActive(c, "cancelled")
  /\ UNCHANGED <<tableOf, flow, checkOf, orderOf, peak, moneyVars, sale, waiter, guest>>

\* CheckService.Merge: every order of the source moves to the target.
MergeChecks(k, c, target) ==
  /\ target # c
  /\ Holds(k, c)
  /\ check[target] = "open"
  /\ Collected(k) = 0
  /\ checkOf' = [o \in Order |-> IF checkOf[o] = c THEN target ELSE checkOf[o]]
  /\ check' = [check EXCEPT ![c] = "merged"]
  /\ Release(c, "empty")
  /\ UNCHANGED <<order, orderOf>>
  /\ NotePeak
  /\ UNCHANGED <<tableOf, flow, moneyVars, sale, waiter, guest>>

\* movedAmount.
MovedAmount(lines) == SumPrices({i \in lines : Billable(orderOf[i])})

\* rehomeItems creates one order per status on the target; cancelEmptiedOrders
\* cancels the live orders that lost their last line.
Rehome(lines, target) ==
  LET statuses == {order[orderOf[i]] : i \in lines}
      emptied  == {o \in Order : LinesOf(o) # {} /\ LinesOf(o) \subseteq lines}
  IN \E home \in [statuses -> {o \in Order : order[o] = "none"}] :
       /\ \A a, b \in statuses : home[a] = home[b] => a = b
       /\ orderOf' = [i \in Item |-> IF i \in lines THEN home[order[orderOf[i]]] ELSE orderOf[i]]
       /\ checkOf' = [o \in Order |-> IF \E a \in statuses : home[a] = o THEN target
                                                                       ELSE checkOf[o]]
       /\ order' = [o \in Order |->
                      IF \E a \in statuses : home[a] = o
                        THEN CHOOSE a \in statuses : home[a] = o
                      ELSE IF o \in emptied /\ order[o] \in KitchenActive THEN "cancelled"
                      ELSE order[o]]

\* CheckService.MoveItems: what stays behind must cover what was collected.
MoveItems(k, c, target) ==
  /\ target # c
  /\ Holds(k, c)
  /\ check[target] = "open"
  /\ \E lines \in SUBSET {i \in Item : \E o \in Order : orderOf[i] = o /\ checkOf[o] = c} :
       /\ lines # {}
       /\ Collected(k) > 0 => Total(c) - MovedAmount(lines) >= Collected(k)
       /\ Rehome(lines, target)
  /\ NotePeak
  /\ UNCHANGED <<floorVars, moneyVars, sale, waiter, guest>>

-----------------------------------------------------------------------------
FloorStep ==
  \/ \E c \in Check, t \in Table \cup {NoTable} : OpenCheck(c, t)
  \/ \E c \in Check, t \in Table : Transfer(c, t)
  \/ \E t \in Table, to \in TableStatus : SetStatus(t, to)

OrderStep ==
  \/ \E f \in Flows : SetOrderFlow(f)
  \/ \E o \in Order, c \in Check \cup {NoCheck} : PlaceOrder(o, c)
  \/ \E w \in Waiter :
       \/ \E o \in Order : PeekOrder(w, o)
       \/ \E to \in Asks : Transition(w, to)
       \/ TransitionRefused(w)

GuestStep ==
  \E g \in Guest :
    \/ \E t \in Table, o \in Order : GuestJoins(g, t, o)
    \/ \E t \in Table : GuestFindsNone(g, t)
    \/ \E c \in Check, o \in Order : GuestOpens(g, c, o)
    \/ GuestRefused(g)

MoneyStep ==
  \E s \in Sale :
    \/ AskCheck(s)
    \/ ReadTotal(s)
    \/ LockSale(s)
    \/ SumPending(s)
    \/ SettleSale(s)
    \/ SaleEnds(s)
    \/ PaymentCompletes(s)
    \/ PaymentFails(s)
    \/ PaymentVoided(s)

DeskStep ==
  \E k \in Clerk :
    \/ ReadPending(k)
    \/ DeskEnds(k)
    \/ \E c \in Check : ReadPaid(k, c) \/ CloseCheck(k, c) \/ CancelCheck(k, c)
    \/ \E c, target \in Check : MergeChecks(k, c, target) \/ MoveItems(k, c, target)

Next == FloorStep \/ OrderStep \/ GuestStep \/ MoneyStep \/ DeskStep

Spec == Init /\ [][Next]_vars
-----------------------------------------------------------------------------
(* Properties.                                                             *)

\* What a closed check owes was registered: unless one of its payments has been
\* voided, its completed payments cover its total.  Close compares a paid sum it
\* read before the lock with a total it reads under it.
ClosedChecksArePaid ==
  \A c \in Check :
    check[c] = "closed" /\ (\A s \in Sale : SaleCheck[s] = c => pay[s] # "voided")
      => PaidTotal(c) >= Total(c)

\* No check ever carries more money, completed and pending, than it ever owed:
\* what guardAgainstOverpayment promises of two stations charging one check.
NoDoubleCharge == \A c \in Check : SumOver(c, Live) <= peak[c]

\* The per-check lock does close every other way to charge twice: a check is
\* overcharged only when a payment of it completed between the two sums.
DoubleChargeNeedsAFlip ==
  \A c \in Check :
    SumOver(c, Live) <= peak[c] \/ \E s \in flipped : SaleCheck[s] = c

Dead == {"cancelled", "merged"}

\* Money is left behind on a cancelled or merged check only by a race: the payment
\* came during the call, or completed between the call's two sums.
OrphanedMoneyWasRaced ==
  \A s \in Sale :
    pay[s] \in Live /\ SaleCheck[s] # NoCheck /\ check[SaleCheck[s]] \in Dead
      => s \in late \cup flipped

\* The bill of a check that is no longer open never changes: every writer of its
\* orders goes through the check's lock, stale order headers included.
SettledChecksAreStill ==
  [][\A c \in Check : check[c] \notin {"none", "open"} => Total(c)' = Total(c)]_vars

\* The kitchen has no live ticket of a check nobody will pay.
NoFoodForDeadChecks ==
  \A o \in Order :
    checkOf[o] # NoCheck /\ check[checkOf[o]] \in Dead => order[o] \notin KitchenActive

\* The floor plan follows the checks: an occupied table has an open check, and a
\* table with an open check is occupied unless staff freed it by hand since.
FloorPlanAgrees ==
  \A t \in Table :
    /\ table[t] = "occupied" => OpenAt(t) # {}
    /\ OpenAt(t) # {} => table[t] = "occupied" \/ t \in override

\* A table has at most one open check, whatever staff does to its status by hand.
OneOpenCheckPerTable ==
  \A c, d \in Check :
    check[c] = "open" /\ check[d] = "open" /\ tableOf[c] = tableOf[d] /\ tableOf[c] # NoTable
      => c = d

\* A retry is never refused because of the payment it repeats: between taking the
\* check's lock and its verdict, guardAgainstOverpayment sums no payment of the
\* request's own key, whichever request of the key came first.
RetriesDoNotRefuseThemselves ==
  \A s, z \in Sale :
    /\ sale[s].phase \in {"locked", "summed"}
    /\ SaleKey[z] = SaleKey[s] /\ SaleCheck[z] = SaleCheck[s]
    => pay[z] = "none"

\* The cashier's concessions on one check stay within the branch's ceiling, with
\* any number of rounded payments.
RoundingWithinCeiling == \A c \in Check : RoundingTotal(c) <= Ceiling
=============================================================================
