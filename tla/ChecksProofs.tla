---------------------------- MODULE ChecksProofs ----------------------------
(***************************************************************************)
(* Proofs about Checks for any sets of checks, tables, orders, lines,      *)
(* staff, guests and sale requests, any prices and any keys.               *)
(*                                                                         *)
(* The first half is about the floor plan, the kitchen's tickets and the   *)
(* lines of a bill.  The second is about money: the totals that the two    *)
(* modules read in one transaction and use in another, and the requests of *)
(* one idempotency key, with the facts about sums of module Sums.  What a  *)
(* call has read stays usable in one direction only, and each inductive    *)
(* invariant says which: a paid total can only have grown, a charged total *)
(* only under the check's lock.                                            *)
(***************************************************************************)
EXTENDS Checks, Sums, TLAPS

-----------------------------------------------------------------------------
(* The floor plan.                                                         *)

tableVars == <<check, tableOf, table, override>>

\* A check is seated at a table, or opened without one.
Seats ==
  \E c \in Check, t \in Table \cup {NoTable} : MaySeat(t) /\ SeatCheck(c, t)

\* Staff set the status of a table by hand.
Overrides ==
  \E t \in Table, to \in TableStatus \ {"occupied"} :
    /\ table' = [table EXCEPT ![t] = to]
    /\ override' = IF OpenAt(t) # {} THEN override \cup {t} ELSE override
    /\ UNCHANGED <<check, tableOf>>

\* A check changes tables.
Moves == \E c \in Check, t \in Table : Transfer(c, t)

\* A check leaves the floor: closed, cancelled or merged.
Leaves ==
  \E c \in Check, to \in {"cleaning", "empty"}, status \in {"closed", "cancelled", "merged"} :
    /\ check[c] = "open"
    /\ check' = [check EXCEPT ![c] = status]
    /\ Release(c, to)
    /\ UNCHANGED tableOf

FloorMove == Seats \/ Overrides \/ Moves \/ Leaves \/ UNCHANGED tableVars

\* Guests in the middle of a placement know a table.
GuestsAtTables == guest \in [Guest -> GuestCall]

\* The inductive invariant: the two floor properties need each other, since a
\* table is released by the one check that is known to be at it.
FloorInv ==
  /\ check \in [Check -> CheckStatus]
  /\ tableOf \in [Check -> Table \cup {NoTable}]
  /\ table \in [Table -> TableStatus]
  /\ override \subseteq Table
  /\ FloorPlanAgrees
  /\ OneOpenCheckPerTable

\* Only the guest's own steps write a guest's placement, and they keep its type.
LEMMA GuestsKeepTypes ==
  ASSUME GuestsAtTables, [Next]_vars
  PROVE  GuestsAtTables'
<1> USE DEF GuestsAtTables
<1>1. CASE UNCHANGED guest
  BY <1>1
<1>2. ASSUME NEW g \in Guest, NEW t \in Table, NEW o \in Order, GuestJoins(g, t, o)
      PROVE  GuestsAtTables'
  BY <1>2 DEF GuestJoins, GuestCall, Idle
<1>3. ASSUME NEW g \in Guest, NEW t \in Table, GuestFindsNone(g, t)
      PROVE  GuestsAtTables'
  BY <1>3 DEF GuestFindsNone, GuestCall
<1>4. ASSUME NEW g \in Guest, NEW c \in Check, NEW o \in Order, GuestOpens(g, c, o)
      PROVE  GuestsAtTables'
  BY <1>4 DEF GuestOpens, GuestCall, Idle
<1>5. ASSUME NEW g \in Guest, GuestRefused(g)
      PROVE  GuestsAtTables'
  BY <1>5 DEF GuestRefused, GuestCall, Idle
<1>6. FloorStep => UNCHANGED guest
  BY DEF FloorStep, OpenCheck, Transfer, SetStatus, callVars
<1>7. OrderStep => UNCHANGED guest
  BY DEF OrderStep, PlaceOrder, PeekOrder, Transition, TransitionRefused, SetOrderFlow, callVars
<1>8. MoneyStep => UNCHANGED guest
  BY DEF MoneyStep, AskCheck, ReadTotal, LockSale, SumPending, SettleSale, SaleEnds,
         PaymentCompletes, PaymentFails, PaymentVoided, callVars
<1>9. DeskStep => UNCHANGED guest
  BY DEF DeskStep, ReadPaid, ReadPending, DeskEnds, CloseCheck, CancelCheck, MergeChecks,
         MoveItems
<1>10. UNCHANGED vars => UNCHANGED guest
  BY DEF vars, callVars
<1> QED
  BY <1>1, <1>2, <1>3, <1>4, <1>5, <1>6, <1>7, <1>8, <1>9, <1>10 DEF Next, GuestStep

\* Every step of the system is one of the five floor moves.
LEMMA StepsAreFloorMoves ==
  ASSUME GuestsAtTables, check \in [Check -> CheckStatus], table \in [Table -> TableStatus],
         [Next]_vars
  PROVE  FloorMove
<1>1. CASE FloorStep
  <2>1. ASSUME NEW c \in Check, NEW t \in Table \cup {NoTable}, OpenCheck(c, t)
        PROVE  Seats
    BY <2>1 DEF OpenCheck, Seats
  <2>2. ASSUME NEW c \in Check, NEW t \in Table, Transfer(c, t)
        PROVE  Moves
    BY <2>2 DEF Moves
  <2>3. ASSUME NEW t \in Table, NEW to \in TableStatus, SetStatus(t, to)
        PROVE  Overrides
    BY <2>3 DEF SetStatus, Overrides
  <2> QED
    BY <1>1, <2>1, <2>2, <2>3 DEF FloorStep, FloorMove
<1>2. CASE OrderStep
  BY <1>2 DEF OrderStep, PlaceOrder, PeekOrder, Transition, TransitionRefused, SetOrderFlow,
              FloorMove, floorVars, tableVars
<1>3. CASE GuestStep
  <2>1. ASSUME NEW g \in Guest, NEW c \in Check, NEW o \in Order, GuestOpens(g, c, o)
        PROVE  Seats
    <3>1. guest[g].at \in Table
      BY <2>1 DEF GuestOpens, GuestsAtTables, GuestCall
    <3> QED
      BY <2>1, <3>1 DEF GuestOpens, Seats
  <2> QED
    BY <1>3, <2>1 DEF GuestStep, GuestJoins, GuestFindsNone, GuestRefused, FloorMove,
                      floorVars, tableVars
<1>4. CASE MoneyStep
  BY <1>4 DEF MoneyStep, AskCheck, ReadTotal, LockSale, SumPending, SettleSale, SaleEnds,
              PaymentCompletes, PaymentFails, PaymentVoided, FloorMove, floorVars, tableVars
<1>5. CASE DeskStep
  <2>1. ASSUME NEW k \in Clerk, NEW c \in Check, CloseCheck(k, c)
        PROVE  Leaves
    BY <2>1 DEF CloseCheck, Holds, Leaves
  <2>2. ASSUME NEW k \in Clerk, NEW c \in Check, CancelCheck(k, c)
        PROVE  Leaves
    BY <2>2 DEF CancelCheck, Holds, Leaves
  <2>3. ASSUME NEW k \in Clerk, NEW c \in Check, NEW target \in Check, MergeChecks(k, c, target)
        PROVE  Leaves
    BY <2>3 DEF MergeChecks, Holds, Leaves
  <2> QED
    BY <1>5, <2>1, <2>2, <2>3 DEF DeskStep, ReadPaid, ReadPending, DeskEnds, MoveItems,
                                  FloorMove, floorVars, tableVars
<1>6. CASE UNCHANGED vars
  BY <1>6 DEF vars, floorVars, FloorMove, tableVars
<1> QED
  BY <1>1, <1>2, <1>3, <1>4, <1>5, <1>6 DEF Next

\* Every floor move keeps the floor invariant.
LEMMA FloorMovesKeepTheFloor ==
  ASSUME FloorInv, FloorMove
  PROVE  FloorInv'
<1>0. NoTable \notin Table
  BY ChecksAssumption
<1>1. CASE Seats
  <2>1. PICK c \in Check, t \in Table \cup {NoTable} : MaySeat(t) /\ SeatCheck(c, t)
    BY <1>1 DEF Seats
  <2>2. FloorPlanAgrees'
    BY <1>0, <2>1 DEF FloorInv, FloorPlanAgrees, OpenAt, MaySeat, SeatCheck, CheckStatus
  <2>3. OneOpenCheckPerTable'
    BY <1>0, <2>1 DEF FloorInv, OneOpenCheckPerTable, OpenAt, MaySeat, SeatCheck, CheckStatus
  <2> QED
    BY <2>1, <2>2, <2>3 DEF FloorInv, SeatCheck, CheckStatus, TableStatus
<1>2. CASE Overrides
  <2>1. PICK t \in Table, to \in TableStatus \ {"occupied"} :
          /\ table' = [table EXCEPT ![t] = to]
          /\ override' = IF OpenAt(t) # {} THEN override \cup {t} ELSE override
          /\ UNCHANGED <<check, tableOf>>
    BY <1>2 DEF Overrides
  <2>2. FloorPlanAgrees'
    BY <2>1 DEF FloorInv, FloorPlanAgrees, OpenAt
  <2>3. OneOpenCheckPerTable'
    BY <2>1 DEF FloorInv, OneOpenCheckPerTable
  <2> QED
    BY <2>1, <2>2, <2>3 DEF FloorInv
<1>3. CASE Moves
  <2>1. PICK c \in Check, t \in Table : Transfer(c, t)
    BY <1>3 DEF Moves
  <2>2. FloorPlanAgrees'
    BY <1>0, <2>1 DEF FloorInv, FloorPlanAgrees, OneOpenCheckPerTable, OpenAt, MaySeat, Transfer
  <2>3. OneOpenCheckPerTable'
    BY <1>0, <2>1 DEF FloorInv, OneOpenCheckPerTable, OpenAt, MaySeat, Transfer
  <2> QED
    BY <2>1, <2>2, <2>3 DEF FloorInv, Transfer, TableStatus
<1>4. CASE Leaves
  <2>1. PICK c \in Check, to \in {"cleaning", "empty"},
             status \in {"closed", "cancelled", "merged"} :
          /\ check[c] = "open"
          /\ check' = [check EXCEPT ![c] = status]
          /\ Release(c, to)
          /\ UNCHANGED tableOf
    BY <1>4 DEF Leaves
  <2>2. FloorPlanAgrees'
    BY <1>0, <2>1 DEF FloorInv, FloorPlanAgrees, OneOpenCheckPerTable, OpenAt, Release
  <2>3. OneOpenCheckPerTable'
    BY <2>1 DEF FloorInv, OneOpenCheckPerTable
  <2> QED
    BY <2>1, <2>2, <2>3 DEF FloorInv, Release, CheckStatus, TableStatus
<1>5. CASE UNCHANGED tableVars
  BY <1>5 DEF FloorInv, FloorPlanAgrees, OneOpenCheckPerTable, OpenAt, tableVars
<1> QED
  BY <1>1, <1>2, <1>3, <1>4, <1>5 DEF FloorMove

\* The floor invariant holds in every reachable state.
LEMMA FloorIsInvariant == Spec => [](FloorInv /\ GuestsAtTables)
<1>1. Init => FloorInv /\ GuestsAtTables
  BY DEF Init, FloorInv, FloorPlanAgrees, OneOpenCheckPerTable, OpenAt, GuestsAtTables,
         GuestCall, Idle, CheckStatus, TableStatus
<1>2. FloorInv /\ GuestsAtTables /\ [Next]_vars => (FloorInv /\ GuestsAtTables)'
  BY GuestsKeepTypes, StepsAreFloorMoves, FloorMovesKeepTheFloor DEF FloorInv
<1> QED
  BY <1>1, <1>2, PTL DEF Spec

\* A table has at most one open check, whatever staff does to its status by hand
\* and however staff and guests race to open one.
THEOREM TablesAreNeverShared == Spec => []OneOpenCheckPerTable
<1>1. FloorInv => OneOpenCheckPerTable
  BY DEF FloorInv
<1> QED
  BY <1>1, FloorIsInvariant, PTL

\* An occupied table has an open check, and a table with an open check is occupied
\* unless staff freed it by hand.
THEOREM FloorPlanAlwaysAgrees == Spec => []FloorPlanAgrees
<1>1. FloorInv => FloorPlanAgrees
  BY DEF FloorInv
<1> QED
  BY <1>1, FloorIsInvariant, PTL

-----------------------------------------------------------------------------
(* Orders, and the order headers that are read without a lock.             *)

OrderTypes ==
  /\ order \in [Order -> OrderStatus]
  /\ checkOf \in [Order -> Check \cup {NoCheck}]
  /\ orderOf \in [Item -> Order \cup {NoOrder}]
  /\ waiter \in [Waiter -> WaiterCall]

\* An order that does not exist belongs to no check.
UnbornAreNowhere == \A o \in Order : order[o] = "none" => checkOf[o] = NoCheck

\* A header that has gone stale names a check that was merged away, and stays so:
\* the lock on the check it names then refuses the transition.
StaleHeadersNameMergedChecks ==
  \A w \in Waiter :
    waiter[w].phase = "peeked" =>
      /\ order[waiter[w].of] # "none"
      /\ \/ checkOf[waiter[w].of] = waiter[w].at
         \/ waiter[w].at \in Check /\ check[waiter[w].at] = "merged"

OrderInv ==
  OrderTypes /\ UnbornAreNowhere /\ StaleHeadersNameMergedChecks /\ NoFoodForDeadChecks

\* No check is cancelled or merged, and none comes back from that.
Calm == \A c \in Check : check'[c] = check[c] \/ {check[c], check'[c]} \cap Dead = {}

\* The order tables are left alone.
Rests == Calm /\ UNCHANGED <<order, checkOf, orderOf, waiter>>

\* An order is placed on a new or an open check, or on none.
Places ==
  /\ Calm
  /\ \E o \in Order, c \in Check \cup {NoCheck} :
       CreateOrder(o, c) /\ (c # NoCheck => check[c] \in {"none", "open"})
  /\ UNCHANGED waiter

Serves ==
  \E w \in Waiter : \/ \E o \in Order : PeekOrder(w, o)
                    \/ \E to \in Asks : Transition(w, to)
                    \/ TransitionRefused(w)

Settling ==
  \E k \in Clerk, c \in Check :
    \/ CloseCheck(k, c)
    \/ CancelCheck(k, c)
    \/ \E target \in Check : MergeChecks(k, c, target) \/ MoveItems(k, c, target)

OrderMove == Rests \/ Places \/ Serves \/ Settling

\* Every step of the system is one of the four order moves.
LEMMA StepsAreOrderMoves ==
  ASSUME check \in [Check -> CheckStatus], [Next]_vars
  PROVE  OrderMove
<1> USE DEF OrderMove
<1>0. UNCHANGED check => Calm
  BY DEF Calm
<1>1. ASSUME NEW c \in Check, NEW t, SeatCheck(c, t)
      PROVE  Calm
  BY <1>1 DEF SeatCheck, Calm, CheckStatus, Dead
<1>2. CASE FloorStep
  BY <1>0, <1>1, <1>2 DEF FloorStep, OpenCheck, Transfer, SetStatus, Rests, orderVars, callVars
<1>3. CASE OrderStep
  <2>1. ASSUME NEW o \in Order, NEW c \in Check \cup {NoCheck}, PlaceOrder(o, c)
        PROVE  Places
    BY <1>0, <2>1 DEF PlaceOrder, Writable, Places, floorVars, callVars
  <2>2. ASSUME NEW f \in Flows, SetOrderFlow(f)
        PROVE  Rests
    BY <1>0, <2>2 DEF SetOrderFlow, Rests, orderVars, callVars
  <2> QED
    BY <1>3, <2>1, <2>2 DEF OrderStep, Serves
<1>4. CASE GuestStep
  <2>1. ASSUME NEW g \in Guest, NEW t \in Table, NEW o \in Order, GuestJoins(g, t, o)
        PROVE  Places
    BY <1>0, <2>1 DEF GuestJoins, OpenAt, Places, floorVars
  <2>2. ASSUME NEW g \in Guest, NEW c \in Check, NEW o \in Order, GuestOpens(g, c, o)
        PROVE  Places
    BY <1>1, <2>2 DEF GuestOpens, SeatCheck, Places
  <2> QED
    BY <1>0, <1>4, <2>1, <2>2 DEF GuestStep, GuestFindsNone, GuestRefused, Rests, floorVars,
                                  orderVars
<1>5. CASE MoneyStep
  BY <1>0, <1>5 DEF MoneyStep, AskCheck, ReadTotal, LockSale, SumPending, SettleSale, SaleEnds,
                    PaymentCompletes, PaymentFails, PaymentVoided, Rests, floorVars, orderVars,
                    callVars
<1>6. CASE DeskStep
  BY <1>0, <1>6 DEF DeskStep, ReadPaid, ReadPending, DeskEnds, Settling, Rests, floorVars,
                    orderVars
<1>7. CASE UNCHANGED vars
  BY <1>0, <1>7 DEF vars, floorVars, orderVars, callVars, Rests
<1> QED
  BY <1>2, <1>3, <1>4, <1>5, <1>6, <1>7 DEF Next

\* A step that leaves the orders alone keeps the order invariant.
LEMMA RestsKeepTheOrders ==
  ASSUME OrderInv, check \in [Check -> CheckStatus], Rests
  PROVE  OrderInv'
<1>1. OrderTypes' /\ UnbornAreNowhere'
  BY DEF OrderInv, OrderTypes, UnbornAreNowhere, Rests
<1>2. StaleHeadersNameMergedChecks'
  BY DEF OrderInv, StaleHeadersNameMergedChecks, Rests, Calm, Dead
<1>3. NoFoodForDeadChecks'
  BY DEF OrderInv, OrderTypes, NoFoodForDeadChecks, Rests, Calm
<1> QED
  BY <1>1, <1>2, <1>3 DEF OrderInv

\* So does a new order.
LEMMA PlacesKeepTheOrders ==
  ASSUME OrderInv, check \in [Check -> CheckStatus], Places
  PROVE  OrderInv'
<1>0. NoCheck \notin Check
  BY ChecksAssumption
<1>1. PICK o \in Order, c \in Check \cup {NoCheck} :
        CreateOrder(o, c) /\ (c # NoCheck => check[c] \in {"none", "open"})
  BY DEF Places
<1>2. Calm /\ UNCHANGED waiter
  BY DEF Places
<1>3. /\ order' = [order EXCEPT ![o] = BirthStatus]
      /\ checkOf' = [checkOf EXCEPT ![o] = c]
      /\ order[o] = "none"
      /\ BirthStatus \in KitchenActive
  BY <1>1 DEF CreateOrder, BirthStatus, KitchenActive
<1>4. OrderTypes'
  <2>1. orderOf' \in [Item -> Order \cup {NoOrder}]
    BY <1>1 DEF CreateOrder, OrderInv, OrderTypes
  <2> QED
    BY <1>2, <1>3, <2>1 DEF OrderInv, OrderTypes, KitchenActive, OrderStatus
<1>5. UnbornAreNowhere'
  BY <1>3 DEF OrderInv, OrderTypes, UnbornAreNowhere, KitchenActive
<1>6. StaleHeadersNameMergedChecks'
  <2> SUFFICES ASSUME NEW w \in Waiter, waiter'[w].phase = "peeked"
               PROVE  /\ order'[waiter'[w].of] # "none"
                      /\ \/ checkOf'[waiter'[w].of] = waiter'[w].at
                         \/ waiter'[w].at \in Check /\ check'[waiter'[w].at] = "merged"
    BY DEF StaleHeadersNameMergedChecks
  <2>1. waiter[w].of \in Order /\ waiter[w].of # o
    BY <1>2, <1>3 DEF OrderInv, OrderTypes, StaleHeadersNameMergedChecks, WaiterCall
  <2> QED
    BY <1>2, <1>3, <2>1 DEF OrderInv, OrderTypes, StaleHeadersNameMergedChecks, Calm, Dead
<1>7. NoFoodForDeadChecks'
  BY <1>0, <1>1, <1>2, <1>3 DEF OrderInv, OrderTypes, NoFoodForDeadChecks, Calm, Dead
<1> QED
  BY <1>4, <1>5, <1>6, <1>7 DEF OrderInv

\* So does the order machine: no edge leads from an inactive order to an active one.
LEMMA ServesKeepTheOrders ==
  ASSUME OrderInv, check \in [Check -> CheckStatus], Serves
  PROVE  OrderInv'
<1>1. ASSUME NEW w \in Waiter, NEW o \in Order, PeekOrder(w, o)
      PROVE  OrderInv'
  <2>1. UNCHANGED <<order, checkOf, orderOf, check>>
    BY <1>1 DEF PeekOrder, floorVars, orderVars
  <2>2. OrderTypes' /\ UnbornAreNowhere' /\ NoFoodForDeadChecks'
    BY <1>1, <2>1 DEF OrderInv, OrderTypes, UnbornAreNowhere, NoFoodForDeadChecks, PeekOrder,
                      WaiterCall
  <2>3. StaleHeadersNameMergedChecks'
    BY <1>1, <2>1 DEF OrderInv, OrderTypes, StaleHeadersNameMergedChecks, PeekOrder
  <2> QED
    BY <2>2, <2>3 DEF OrderInv
<1>2. ASSUME NEW w \in Waiter, NEW to \in Asks, Transition(w, to)
      PROVE  OrderInv'
  <2>1. UNCHANGED <<checkOf, orderOf, check>>
    BY <1>2 DEF Transition, floorVars
  <2>2. PICK o \in Order : o = waiter[w].of
    BY <1>2 DEF Transition, OrderInv, OrderTypes, WaiterCall
  <2>3. order[o] # "none"
    BY <1>2, <2>2 DEF Transition, OrderInv, StaleHeadersNameMergedChecks
  <2>4. order[o] \in KitchenActive /\ to \in OrderStatus \ {"none"}
    BY <1>2, <2>2, <2>3 DEF Transition, OrderInv, OrderTypes, OrderStatus, OrderEdges,
                            KitchenActive
  <2>5. order' = [order EXCEPT ![o] = to] /\ waiter' = [waiter EXCEPT ![w] = Idle]
    BY <1>2, <2>2 DEF Transition
  <2>6. OrderTypes' /\ UnbornAreNowhere'
    BY <2>1, <2>4, <2>5 DEF OrderInv, OrderTypes, UnbornAreNowhere, WaiterCall, Idle
  <2>7. StaleHeadersNameMergedChecks'
    BY <2>1, <2>4, <2>5 DEF OrderInv, OrderTypes, StaleHeadersNameMergedChecks, Idle, WaiterCall
  <2>8. NoFoodForDeadChecks'
    BY <2>1, <2>4, <2>5 DEF OrderInv, OrderTypes, NoFoodForDeadChecks
  <2> QED
    BY <2>6, <2>7, <2>8 DEF OrderInv
<1>3. ASSUME NEW w \in Waiter, TransitionRefused(w)
      PROVE  OrderInv'
  BY <1>3 DEF TransitionRefused, OrderInv, OrderTypes, UnbornAreNowhere, NoFoodForDeadChecks,
              StaleHeadersNameMergedChecks, WaiterCall, Idle, floorVars, orderVars
<1> QED
  BY <1>1, <1>2, <1>3 DEF Serves

\* Lines moved from check c to new orders on the target, and nothing else happened to
\* the orders except that some of c's live ones were cancelled.
Rehomed(c, target, lines, new) ==
  /\ orderOf' \in [Item -> Order \cup {NoOrder}]
  /\ \A i \in Item : IF i \in lines THEN orderOf'[i] \in new
                                    ELSE orderOf'[i] = orderOf[i]
  /\ checkOf' = [o \in Order |-> IF o \in new THEN target ELSE checkOf[o]]
  /\ order' \in [Order -> OrderStatus]
  /\ \A o \in Order : o \in new => order'[o] # "none"
  /\ \A o \in Order \ new :
       \/ order'[o] = order[o]
       \/ order'[o] = "cancelled" /\ order[o] \in KitchenActive /\ checkOf[o] = c

\* That is what rehomeItems and cancelEmptiedOrders write.
LEMMA RehomeWrites ==
  ASSUME OrderTypes, UnbornAreNowhere,
         NEW c \in Check, NEW target \in Check,
         NEW lines \in SUBSET {i \in Item : \E o \in Order : orderOf[i] = o /\ checkOf[o] = c},
         Rehome(lines, target)
  PROVE  \E new \in SUBSET {o \in Order : order[o] = "none"} : Rehomed(c, target, lines, new)
<1> DEFINE statuses == {order[orderOf[i]] : i \in lines}
           emptied  == {o \in Order : LinesOf(o) # {} /\ LinesOf(o) \subseteq lines}
<1>0. NoCheck \notin Check
  BY ChecksAssumption
<1>1. PICK home \in [statuses -> {o \in Order : order[o] = "none"}] :
        /\ \A a, b \in statuses : home[a] = home[b] => a = b
        /\ orderOf' = [i \in Item |-> IF i \in lines THEN home[order[orderOf[i]]] ELSE orderOf[i]]
        /\ checkOf' = [o \in Order |-> IF \E a \in statuses : home[a] = o THEN target
                                                                        ELSE checkOf[o]]
        /\ order' = [o \in Order |->
                       IF \E a \in statuses : home[a] = o
                         THEN CHOOSE a \in statuses : home[a] = o
                       ELSE IF o \in emptied /\ order[o] \in KitchenActive THEN "cancelled"
                       ELSE order[o]]
  BY DEF Rehome
<1> DEFINE new == {o \in Order : \E a \in statuses : home[a] = o}
<1>2. new \in SUBSET {o \in Order : order[o] = "none"}
  BY <1>1
<1>3. \A a \in statuses : a \in OrderStatus \ {"none"}
  BY <1>0 DEF OrderTypes, UnbornAreNowhere
<1>4. orderOf' \in [Item -> Order \cup {NoOrder}]
  BY <1>1 DEF OrderTypes
<1>5. \A i \in Item : IF i \in lines THEN orderOf'[i] \in new ELSE orderOf'[i] = orderOf[i]
  BY <1>1
<1>6. checkOf' = [o \in Order |-> IF o \in new THEN target ELSE checkOf[o]]
  BY <1>1
<1>7. ASSUME NEW o \in new
      PROVE  order'[o] \in statuses
  <2>1. \E a \in statuses : home[a] = o
    OBVIOUS
  <2>2. order'[o] = CHOOSE a \in statuses : home[a] = o
    BY <1>1, <2>1
  <2> QED
    BY <2>1, <2>2
<1>8. ASSUME NEW o \in Order \ new
      PROVE  \/ order'[o] = order[o]
             \/ order'[o] = "cancelled" /\ order[o] \in KitchenActive /\ checkOf[o] = c
  <2>1. order'[o] = IF o \in emptied /\ order[o] \in KitchenActive THEN "cancelled" ELSE order[o]
    BY <1>1, <1>8
  <2>2. o \in emptied => checkOf[o] = c
    BY DEF LinesOf
  <2> QED
    BY <2>1, <2>2
<1>9. order' \in [Order -> OrderStatus]
  <2>1. ASSUME NEW o \in Order
        PROVE  order'[o] \in OrderStatus
    BY <1>3, <1>7, <1>8 DEF OrderTypes, OrderStatus
  <2>2. DOMAIN order' = Order /\ order' = [o \in Order |-> order'[o]]
    BY <1>1
  <2> QED
    BY <2>1, <2>2
<1> QED
  BY <1>2, <1>3, <1>4, <1>5, <1>6, <1>7, <1>8, <1>9 DEF Rehomed

\* Closing, cancelling, merging and splitting keep the order invariant.
LEMMA SettlingKeepsTheOrders ==
  ASSUME OrderInv, check \in [Check -> CheckStatus], Settling
  PROVE  OrderInv'
<1>0. NoCheck \notin Check
  BY ChecksAssumption
<1>1. ASSUME NEW c \in Check, NEW to \in {"delivered", "cancelled"},
             NEW status \in {"closed", "cancelled"}, status = "cancelled" => SetActive(c, to),
             SetActive(c, to) \/ UNCHANGED order,
             check[c] = "open", check' = [check EXCEPT ![c] = status],
             UNCHANGED <<checkOf, orderOf, waiter>>
      PROVE  OrderInv'
  <2>1. \A o \in Order : \/ order'[o] = order[o]
                         \/ order'[o] = to /\ order[o] \in KitchenActive
    <3>1. CASE SetActive(c, to)
      BY <3>1 DEF SetActive
    <3> QED
      BY <1>1, <3>1
  <2>2. order' \in [Order -> OrderStatus]
    BY <1>1 DEF SetActive, OrderInv, OrderTypes, OrderStatus
  <2>3. OrderTypes' /\ UnbornAreNowhere'
    BY <1>1, <2>1, <2>2 DEF OrderInv, OrderTypes, UnbornAreNowhere
  <2>4. StaleHeadersNameMergedChecks'
    BY <1>1, <2>1 DEF OrderInv, OrderTypes, StaleHeadersNameMergedChecks, WaiterCall
  <2>5. NoFoodForDeadChecks'
    BY <1>0, <1>1, <2>1 DEF OrderInv, OrderTypes, NoFoodForDeadChecks, SetActive, Dead,
                            KitchenActive
  <2> QED
    BY <2>3, <2>4, <2>5 DEF OrderInv
<1>2. ASSUME NEW k \in Clerk, NEW c \in Check, CloseCheck(k, c)
      PROVE  OrderInv'
  <2>1. SetActive(c, "delivered") \/ UNCHANGED order
    BY <1>2 DEF CloseCheck
  <2> QED
    BY <1>1, <1>2, <2>1 DEF CloseCheck, Holds
<1>3. ASSUME NEW k \in Clerk, NEW c \in Check, CancelCheck(k, c)
      PROVE  OrderInv'
  BY <1>1, <1>3 DEF CancelCheck, Holds
<1>4. ASSUME NEW k \in Clerk, NEW c \in Check, NEW target \in Check, MergeChecks(k, c, target)
      PROVE  OrderInv'
  <2>1. /\ target # c /\ check[c] = "open" /\ check[target] = "open"
        /\ checkOf' = [o \in Order |-> IF checkOf[o] = c THEN target ELSE checkOf[o]]
        /\ check' = [check EXCEPT ![c] = "merged"]
        /\ UNCHANGED <<order, orderOf, waiter>>
    BY <1>4 DEF MergeChecks, Holds
  <2>2. OrderTypes' /\ UnbornAreNowhere'
    BY <1>0, <2>1 DEF OrderInv, OrderTypes, UnbornAreNowhere
  <2>3. StaleHeadersNameMergedChecks'
    BY <2>1 DEF OrderInv, OrderTypes, StaleHeadersNameMergedChecks, WaiterCall
  <2>4. NoFoodForDeadChecks'
    BY <2>1 DEF OrderInv, OrderTypes, NoFoodForDeadChecks, Dead
  <2> QED
    BY <2>2, <2>3, <2>4 DEF OrderInv
<1>5. ASSUME NEW k \in Clerk, NEW c \in Check, NEW target \in Check, MoveItems(k, c, target)
      PROVE  OrderInv'
  <2>1. PICK lines \in SUBSET {i \in Item : \E o \in Order : orderOf[i] = o /\ checkOf[o] = c} :
          Rehome(lines, target)
    BY <1>5 DEF MoveItems
  <2>2. check[target] = "open" /\ UNCHANGED <<check, waiter>>
    BY <1>5 DEF MoveItems, floorVars
  <2>3. PICK new \in SUBSET {o \in Order : order[o] = "none"} : Rehomed(c, target, lines, new)
    BY <2>1, RehomeWrites DEF OrderInv
  <2>4. OrderTypes' /\ UnbornAreNowhere'
    BY <2>2, <2>3 DEF OrderInv, OrderTypes, UnbornAreNowhere, Rehomed
  <2>5. StaleHeadersNameMergedChecks'
    BY <2>2, <2>3 DEF OrderInv, OrderTypes, StaleHeadersNameMergedChecks, WaiterCall, Rehomed
  <2>6. NoFoodForDeadChecks'
    BY <2>2, <2>3 DEF OrderInv, OrderTypes, NoFoodForDeadChecks, Dead, KitchenActive, Rehomed
  <2> QED
    BY <2>4, <2>5, <2>6 DEF OrderInv
<1> QED
  BY <1>2, <1>3, <1>4, <1>5 DEF Settling

\* The order invariant holds in every reachable state.
LEMMA OrdersAreInvariant == Spec => [](OrderInv /\ check \in [Check -> CheckStatus])
<1>1. Init => OrderInv
  BY DEF Init, OrderInv, OrderTypes, UnbornAreNowhere, StaleHeadersNameMergedChecks,
         NoFoodForDeadChecks, OrderStatus, WaiterCall, Idle, KitchenActive
<1>2. FloorInv /\ OrderInv /\ [Next]_vars => OrderInv'
  BY StepsAreOrderMoves, RestsKeepTheOrders, PlacesKeepTheOrders, ServesKeepTheOrders,
     SettlingKeepsTheOrders DEF OrderMove, FloorInv
<1>3. FloorInv => check \in [Check -> CheckStatus]
  BY DEF FloorInv
<1> QED
  BY <1>1, <1>2, <1>3, FloorIsInvariant, PTL DEF Spec

\* The kitchen has no live ticket of a cancelled or merged check, although a waiter
\* may act on an order header that Merge has made stale.
THEOREM KitchenForgetsDeadChecks == Spec => []NoFoodForDeadChecks
<1>1. OrderInv => NoFoodForDeadChecks
  BY DEF OrderInv
<1> QED
  BY <1>1, OrdersAreInvariant, PTL

\* No step touches a line on the bill of a check that is no longer open.
LEMMA SettledBillsAreStill ==
  ASSUME OrderInv, check \in [Check -> CheckStatus], [Next]_vars,
         NEW c \in Check, check[c] \notin {"none", "open"}
  PROVE  Bill(c)' = Bill(c)
<1>0. NoCheck \notin Check /\ NoOrder \notin Order
  BY ChecksAssumption
<1>1. CASE Rests
  BY <1>1 DEF Rests, Bill, Billable
<1>2. CASE Places
  <2>1. PICK o \in Order, d \in Check \cup {NoCheck} :
          CreateOrder(o, d) /\ (d # NoCheck => check[d] \in {"none", "open"})
    BY <1>2 DEF Places
  <2>2. d # c /\ order[o] = "none" /\ checkOf[o] # c
    BY <1>0, <2>1 DEF CreateOrder, OrderInv, UnbornAreNowhere
  <2>3. /\ order' = [order EXCEPT ![o] = BirthStatus]
        /\ checkOf' = [checkOf EXCEPT ![o] = d]
        /\ \A i \in Item : \/ orderOf'[i] = orderOf[i]
                           \/ orderOf[i] = NoOrder /\ orderOf'[i] = o
    BY <2>1 DEF CreateOrder, LinesOf
  <2> QED
    BY <1>0, <2>2, <2>3 DEF Bill, Billable, OrderInv, OrderTypes
<1>3. CASE Serves
  <2>1. ASSUME NEW w \in Waiter, NEW to \in Asks, Transition(w, to)
        PROVE  Bill(c)' = Bill(c)
    <3>1. PICK o \in Order : o = waiter[w].of
      BY <2>1 DEF Transition, OrderInv, OrderTypes, WaiterCall
    <3>2. checkOf[o] # c
      BY <1>0, <2>1, <3>1 DEF Transition, Writable, OrderInv, StaleHeadersNameMergedChecks
    <3>3. order' = [order EXCEPT ![o] = to] /\ UNCHANGED <<checkOf, orderOf>>
      BY <2>1, <3>1 DEF Transition
    <3> QED
      BY <3>2, <3>3 DEF Bill, Billable, OrderInv, OrderTypes
  <2> QED
    BY <1>3, <2>1 DEF Serves, PeekOrder, TransitionRefused, orderVars, Bill, Billable
<1>4. CASE Settling
  <2>1. ASSUME NEW d \in Check, d # c, NEW to, SetActive(d, to) \/ UNCHANGED order,
               UNCHANGED <<checkOf, orderOf>>
        PROVE  Bill(c)' = Bill(c)
    <3>1. \A o \in Order : checkOf[o] = c => order'[o] = order[o]
      BY <2>1 DEF SetActive
    <3> QED
      BY <2>1, <3>1 DEF Bill, Billable
  <2>2. ASSUME NEW k \in Clerk, NEW d \in Check, CloseCheck(k, d)
        PROVE  Bill(c)' = Bill(c)
    <3>1. SetActive(d, "delivered") \/ UNCHANGED order
      BY <2>2 DEF CloseCheck
    <3> QED
      BY <2>1, <2>2, <3>1 DEF CloseCheck, Holds
  <2>3. ASSUME NEW k \in Clerk, NEW d \in Check, CancelCheck(k, d)
        PROVE  Bill(c)' = Bill(c)
    BY <2>1, <2>3 DEF CancelCheck, Holds
  <2>4. ASSUME NEW k \in Clerk, NEW d \in Check, NEW target \in Check, MergeChecks(k, d, target)
        PROVE  Bill(c)' = Bill(c)
    <3>1. /\ d # c /\ target # c
          /\ checkOf' = [o \in Order |-> IF checkOf[o] = d THEN target ELSE checkOf[o]]
          /\ UNCHANGED <<order, orderOf>>
      BY <2>4 DEF MergeChecks, Holds
    <3> QED
      BY <3>1 DEF Bill, Billable
  <2>5. ASSUME NEW k \in Clerk, NEW d \in Check, NEW target \in Check, MoveItems(k, d, target)
        PROVE  Bill(c)' = Bill(c)
    <3>1. d # c /\ target # c
      BY <2>5 DEF MoveItems, Holds
    <3>2. PICK lines \in SUBSET {i \in Item : \E o \in Order : orderOf[i] = o /\ checkOf[o] = d} :
            Rehome(lines, target)
      BY <2>5 DEF MoveItems
    <3>3. PICK new \in SUBSET {o \in Order : order[o] = "none"} : Rehomed(d, target, lines, new)
      BY <3>2, RehomeWrites DEF OrderInv
    <3>4. ASSUME NEW o \in Order, checkOf[o] = c
          PROVE  o \notin new /\ checkOf'[o] = c /\ order'[o] = order[o]
      BY <1>0, <3>1, <3>3, <3>4 DEF Rehomed, OrderInv, UnbornAreNowhere
    <3>5. ASSUME NEW o \in Order, checkOf'[o] = c
          PROVE  o \notin new /\ checkOf[o] = c
      BY <3>1, <3>3, <3>5 DEF Rehomed
    <3>6. ASSUME NEW i \in Item, NEW o \in Order, checkOf[o] = c
          PROVE  orderOf'[i] = o <=> orderOf[i] = o
      BY <3>1, <3>2, <3>3, <3>4, <3>6 DEF Rehomed
    <3> QED
      BY <3>4, <3>5, <3>6 DEF Bill, Billable
  <2> QED
    BY <1>4, <2>2, <2>3, <2>4, <2>5 DEF Settling
<1> QED
  BY <1>1, <1>2, <1>3, <1>4, StepsAreOrderMoves DEF OrderMove

\* The bill of a check that is no longer open never changes.  The lock a transition
\* takes is on the check its header named; it is enough because a stale header can
\* only name a merged check, which that lock refuses.
THEOREM SettledChecksNeverMove == Spec => SettledChecksAreStill
<1>1. ASSUME OrderInv, check \in [Check -> CheckStatus], [Next]_vars
      PROVE  [\A c \in Check : check[c] \notin {"none", "open"} => Total(c)' = Total(c)]_vars
  BY <1>1, SettledBillsAreStill DEF Total
<1> QED
  BY <1>1, OrdersAreInvariant, PTL DEF Spec, SettledChecksAreStill

-----------------------------------------------------------------------------
(* Sums of prices and of payments.                                         *)

\* Lines are finitely many, and so are their prices.
LEMMA PricesAdd ==
  ASSUME NEW S \in SUBSET Item
  PROVE  /\ IsFiniteSet(S)
         /\ SumPrices(S) \in Nat
<1>1. IsFiniteSet(S) /\ \A i \in S : Price[i] \in Nat
  BY ChecksAssumption, FS_Subset
<1> QED
  BY <1>1, SumNat DEF SumPrices

\* A bill that loses lines does not grow.
LEMMA PricesShrink ==
  ASSUME NEW S \in SUBSET Item, NEW T \in SUBSET S
  PROVE  SumPrices(T) <= SumPrices(S)
<1>1. IsFiniteSet(S) /\ \A i \in S : Price[i] \in Nat
  BY PricesAdd, ChecksAssumption
<1> QED
  BY <1>1, SumSubset DEF SumPrices

\* What a set of payments settles.
Settled(P) == SumFunctionOnSet([s \in Sale |-> Settles(s)], P)

\* Every payment settles a positive amount, and there are finitely many.
LEMMA PaymentsAdd ==
  ASSUME NEW P \in SUBSET Sale
  PROVE  /\ IsFiniteSet(P)
         /\ Settled(P) \in Nat
         /\ \A s \in Sale : Settles(s) \in Nat \ {0} /\ Rounding[s] \in Nat
         /\ SumFunctionOnSet(Rounding, P) \in Nat
<1>1. IsFiniteSet(P)
  BY ChecksAssumption, FS_Subset
<1>2. \A s \in Sale : Settles(s) \in Nat \ {0} /\ Rounding[s] \in Nat
  BY ChecksAssumption DEF Settles
<1>3. \A s \in P : [z \in Sale |-> Settles(z)][s] \in Nat /\ Rounding[s] \in Nat
  BY <1>2
<1>4. Settled(P) \in Nat
  BY <1>1, <1>3, SumNat DEF Settled
<1>5. SumFunctionOnSet(Rounding, P) \in Nat
  BY <1>1, <1>3, SumNat
<1> QED
  BY <1>1, <1>2, <1>4, <1>5

\* Fewer payments settle no more and concede no more.
LEMMA PaymentsShrink ==
  ASSUME NEW P \in SUBSET Sale, NEW Q \in SUBSET P
  PROVE  /\ Settled(Q) <= Settled(P)
         /\ SumFunctionOnSet(Rounding, Q) <= SumFunctionOnSet(Rounding, P)
<1> DEFINE f == [s \in Sale |-> Settles(s)]
<1>1. IsFiniteSet(P) /\ \A s \in P : f[s] \in Nat /\ Rounding[s] \in Nat
  BY PaymentsAdd
<1> HIDE DEF f
<1>2. SumFunctionOnSet(f, Q) <= SumFunctionOnSet(f, P)
  BY <1>1, SumSubset
<1>3. SumFunctionOnSet(Rounding, Q) <= SumFunctionOnSet(Rounding, P)
  BY <1>1, SumSubset
<1> QED
  BY <1>2, <1>3 DEF Settled, f

\* One more payment adds what it settles and what it concedes.
LEMMA OnePaymentMore ==
  ASSUME NEW P \in SUBSET Sale, NEW s \in Sale, s \notin P
  PROVE  /\ Settled(P \cup {s}) = Settled(P) + Settles(s)
         /\ SumFunctionOnSet(Rounding, P \cup {s}) = SumFunctionOnSet(Rounding, P) + Rounding[s]
<1> DEFINE f == [z \in Sale |-> Settles(z)]
<1>1. IsFiniteSet(P) /\ \A z \in P \cup {s} : f[z] \in Int /\ Rounding[z] \in Int
  BY PaymentsAdd
<1>2. f[s] = Settles(s) /\ Settles(s) \in Int /\ Rounding[s] \in Int
  BY PaymentsAdd
<1>3. Settled(P) \in Int /\ SumFunctionOnSet(Rounding, P) \in Int
  BY PaymentsAdd
<1> HIDE DEF f
<1>4. SumFunctionOnSet(f, P \cup {s}) = f[s] + SumFunctionOnSet(f, P)
  BY <1>1, SumAddElement
<1>5. SumFunctionOnSet(Rounding, P \cup {s}) = Rounding[s] + SumFunctionOnSet(Rounding, P)
  BY <1>1, SumAddElement
<1>6. \A Q : Settled(Q) = SumFunctionOnSet(f, Q)
  BY DEF Settled, f
<1> QED
  BY <1>2, <1>3, <1>4, <1>5, <1>6

\* Payments that settle nothing together are none.
LEMMA NothingSettled ==
  ASSUME NEW P \in SUBSET Sale, Settled(P) = 0
  PROVE  P = {}
<1> DEFINE f == [z \in Sale |-> Settles(z)]
<1>1. IsFiniteSet(P) /\ \A z \in P : f[z] \in Nat \ {0}
  BY PaymentsAdd
<1> HIDE DEF f
<1>2. SumFunctionOnSet(f, P) = 0
  BY DEF Settled, f
<1> QED
  BY <1>1, <1>2, SumZero

\* Completed and pending payments make up the live ones.
LEMMA LiveIsPaidAndPending ==
  ASSUME NEW c
  PROVE  SumOver(c, Live) = PaidTotal(c) + PendingTotal(c)
<1> DEFINE P == PaymentsIn(c, {"completed"})
           Q == PaymentsIn(c, {"pending"})
           f == [z \in Sale |-> Settles(z)]
<1>1. P \in SUBSET Sale /\ Q \in SUBSET Sale /\ P \cap Q = {} /\ PaymentsIn(c, Live) = P \cup Q
  BY DEF PaymentsIn, Live
<1>2. SumOver(c, Live) = SumFunctionOnSet(f, PaymentsIn(c, Live))
  BY DEF SumOver
<1>3. PaidTotal(c) = SumFunctionOnSet(f, P) /\ PendingTotal(c) = SumFunctionOnSet(f, Q)
  BY DEF SumOver, PaidTotal, PendingTotal
<1> HIDE DEF P, Q
<1>4. IsFiniteSet(P) /\ IsFiniteSet(Q) /\ \A z \in P \cup Q : f[z] \in Int
  BY <1>1, PaymentsAdd
<1> HIDE DEF f
<1>5. SumFunctionOnSet(f, P \cup Q) = SumFunctionOnSet(f, P) + SumFunctionOnSet(f, Q)
  BY <1>1, <1>4, SumUnion
<1> QED
  BY <1>1, <1>2, <1>3, <1>5

\* The totals are naturals.
LEMMA TotalsAreNaturals ==
  ASSUME NEW c, NEW statuses
  PROVE  /\ PaymentsIn(c, statuses) \in SUBSET Sale
         /\ SumOver(c, statuses) = Settled(PaymentsIn(c, statuses))
         /\ SumOver(c, statuses) \in Nat
         /\ Bill(c) \in SUBSET Item
         /\ Total(c) \in Nat
         /\ RoundingTotal(c) \in Nat
<1>1. PaymentsIn(c, statuses) \in SUBSET Sale /\ PaymentsIn(c, Live) \in SUBSET Sale
  BY DEF PaymentsIn
<1>2. Bill(c) \in SUBSET Item
  BY DEF Bill
<1>3. SumOver(c, statuses) = Settled(PaymentsIn(c, statuses))
  BY DEF SumOver, Settled
<1> QED
  BY <1>1, <1>2, <1>3, PaymentsAdd, PricesAdd DEF Total, RoundingTotal

\* The larger of two naturals.
LEMMA MaxOfTwo ==
  ASSUME NEW m \in Nat, NEW n \in Nat
  PROVE  Max({m, n}) \in Nat /\ Max({m, n}) >= m /\ Max({m, n}) >= n
<1>1. \E x \in {m, n} : \A y \in {m, n} : x >= y
  OBVIOUS
<1>2. Max({m, n}) \in {m, n} /\ \A y \in {m, n} : Max({m, n}) >= y
  BY <1>1 DEF Max
<1> QED
  BY <1>2

-----------------------------------------------------------------------------
(* Types, and what a step does to the money.                               *)

\* The types of the calls and histories that carry money.
MoneyTypes ==
  /\ flow \in {"full", "simple"}
  /\ pay \in [Sale -> PayStatus]
  /\ sale \in [Sale -> SaleCall]
  /\ desk \in [Clerk -> DeskCall]
  /\ peak \in [Check -> Nat]
  /\ late \subseteq Sale
  /\ flipped \subseteq Sale

\* A call's phase tells which totals it carries.
LEMMA SaleShape ==
  ASSUME NEW x \in SaleCall
  PROVE  /\ x.phase \in {"idle", "asked", "barred", "priced", "locked", "summed"}
         /\ x.phase \in {"priced", "locked"} => x.total \in Nat
         /\ x.phase = "locked" => x.paid \in Nat
         /\ x.phase = "summed" => x.due \in Int
<1>1. CASE x \in [phase : {"idle", "asked", "barred"}]
  BY <1>1
<1>2. CASE x \in [phase : {"priced"}, total : Nat]
  BY <1>2
<1>3. CASE x \in [phase : {"locked"}, total : Nat, paid : Nat]
  BY <1>3
<1>4. CASE x \in [phase : {"summed"}, due : Int]
  BY <1>4
<1> QED
  BY <1>1, <1>2, <1>3, <1>4 DEF SaleCall

\* What a call that settles a check carries in each phase.
LEMMA DeskShape ==
  ASSUME NEW x \in DeskCall
  PROVE  /\ x.phase \in {"idle", "paid", "ready"}
         /\ x.phase # "idle" => x.at \in Check /\ x.paid \in Nat
         /\ x.phase = "ready" => x.pending \in Nat
<1>1. CASE x \in [phase : {"idle"}]
  BY <1>1
<1>2. CASE x \in [phase : {"paid"}, at : Check, paid : Nat]
  BY <1>2
<1>3. CASE x \in [phase : {"ready"}, at : Check, paid : Nat, pending : Nat]
  BY <1>3
<1> QED
  BY <1>1, <1>2, <1>3 DEF DeskCall

\* The steps that touch no call and no history of the money.
Elsewhere == UNCHANGED <<pay, late, flipped, sale, desk>>

\* A Close, Cancel, Merge or MoveItems call ends, in a write or without one.
LeavesDesk(k) == desk' = [desk EXCEPT ![k] = Idle] /\ UNCHANGED <<pay, late, flipped, sale>>

MoneyMove ==
  \/ Elsewhere
  \/ MoneyStep
  \/ \E k \in Clerk : LeavesDesk(k) \/ ReadPending(k) \/ \E c \in Check : ReadPaid(k, c)

\* Every step of the system is one of these money moves.
LEMMA StepsAreMoneyMoves ==
  ASSUME [Next]_vars
  PROVE  MoneyMove
<1>1. FloorStep => Elsewhere
  BY DEF FloorStep, OpenCheck, Transfer, SetStatus, Elsewhere, moneyVars, callVars
<1>2. OrderStep => Elsewhere
  BY DEF OrderStep, PlaceOrder, PeekOrder, Transition, TransitionRefused, SetOrderFlow,
         Elsewhere, moneyVars, callVars
<1>3. GuestStep => Elsewhere
  BY DEF GuestStep, GuestJoins, GuestFindsNone, GuestOpens, GuestRefused, Elsewhere, moneyVars
<1>4. CASE DeskStep
  <2>1. ASSUME NEW k \in Clerk, NEW c \in Check,
               DeskEnds(k) \/ CloseCheck(k, c) \/ CancelCheck(k, c)
                 \/ \E target \in Check : MergeChecks(k, c, target) \/ MoveItems(k, c, target)
        PROVE  LeavesDesk(k)
    BY <2>1 DEF DeskEnds, CloseCheck, CancelCheck, MergeChecks, MoveItems, Holds, LeavesDesk,
                moneyVars
  <2>2. ASSUME NEW k \in Clerk, DeskEnds(k)
        PROVE  LeavesDesk(k)
    BY <2>2 DEF DeskEnds, LeavesDesk, moneyVars
  <2> QED
    BY <1>4, <2>1, <2>2 DEF DeskStep, MoneyMove
<1>5. UNCHANGED vars => Elsewhere
  BY DEF vars, moneyVars, callVars, Elsewhere
<1> QED
  BY <1>1, <1>2, <1>3, <1>4, <1>5 DEF Next, MoneyMove

\* What a step does to a check's highest total: it is noted anew after every step that
\* can add a line to a bill, and no other step adds one.
LEMMA PeaksFollowBills ==
  ASSUME OrderInv, check \in [Check -> CheckStatus], [Next]_vars
  PROVE  NotePeak \/ (UNCHANGED peak /\ \A c \in Check : Bill(c)' \subseteq Bill(c))
<1> DEFINE Shrinks == UNCHANGED peak /\ \A c \in Check : Bill(c)' \subseteq Bill(c)
<1>1. UNCHANGED orderVars => Shrinks
  BY DEF orderVars, Bill, Billable
<1>2. FloorStep => UNCHANGED orderVars
  BY DEF FloorStep, OpenCheck, Transfer, SetStatus
<1>3. MoneyStep => UNCHANGED orderVars
  BY DEF MoneyStep, AskCheck, ReadTotal, LockSale, SumPending, SettleSale, SaleEnds,
         PaymentCompletes, PaymentFails, PaymentVoided
<1>4. GuestStep => NotePeak \/ UNCHANGED orderVars
  BY DEF GuestStep, GuestJoins, GuestFindsNone, GuestOpens, GuestRefused, CreateOrder
<1>5. ASSUME OrderStep PROVE NotePeak \/ Shrinks
  <2>1. ASSUME NEW w \in Waiter, NEW to \in Asks, Transition(w, to)
        PROVE  Shrinks
    <3>1. PICK o \in Order : o = waiter[w].of
      BY <2>1 DEF Transition, OrderInv, OrderTypes, WaiterCall
    <3>2. order[o] \in OrderStatus \ {"none"}
      BY <2>1, <3>1 DEF Transition, OrderInv, OrderTypes, StaleHeadersNameMergedChecks
    <3>3. order[o] \notin Inactive
      BY <2>1, <3>1, <3>2 DEF Transition, OrderStatus, OrderEdges, Inactive
    <3>4. order' = [order EXCEPT ![o] = to] /\ UNCHANGED <<checkOf, orderOf, peak>>
      BY <2>1, <3>1 DEF Transition
    <3> QED
      BY <3>3, <3>4 DEF Bill, Billable, OrderInv, OrderTypes
  <2>2. ASSUME NEW o \in Order, NEW c \in Check \cup {NoCheck}, PlaceOrder(o, c)
        PROVE  NotePeak
    BY <2>2 DEF PlaceOrder, CreateOrder
  <2>3. ASSUME NEW w \in Waiter, TransitionRefused(w) \/ \E o \in Order : PeekOrder(w, o)
        PROVE  UNCHANGED orderVars
    BY <2>3 DEF TransitionRefused, PeekOrder
  <2>4. ASSUME NEW f \in Flows, SetOrderFlow(f)
        PROVE  UNCHANGED orderVars
    BY <2>4 DEF SetOrderFlow
  <2> QED
    BY <1>1, <1>5, <2>1, <2>2, <2>3, <2>4 DEF OrderStep
<1>6. ASSUME DeskStep PROVE NotePeak \/ Shrinks
  <2>1. ASSUME NEW c \in Check, NEW to, SetActive(c, to) \/ UNCHANGED order,
               UNCHANGED <<checkOf, orderOf, peak>>
        PROVE  Shrinks
    <3>1. \A o \in Order : order'[o] = order[o] \/ order[o] \in KitchenActive
      BY <2>1 DEF SetActive
    <3>2. \A o \in Order : order'[o] \notin Inactive => order[o] \notin Inactive
      BY <3>1 DEF KitchenActive, Inactive
    <3> QED
      BY <2>1, <3>2 DEF Bill, Billable
  <2>2. ASSUME NEW k \in Clerk, NEW c \in Check, CloseCheck(k, c)
        PROVE  Shrinks
    <3>1. SetActive(c, "delivered") \/ UNCHANGED order
      BY <2>2 DEF CloseCheck
    <3> QED
      BY <2>1, <2>2, <3>1 DEF CloseCheck
  <2>3. ASSUME NEW k \in Clerk, NEW c \in Check, CancelCheck(k, c)
        PROVE  Shrinks
    BY <2>1, <2>3 DEF CancelCheck
  <2>4. ASSUME NEW k \in Clerk, NEW c \in Check, NEW target \in Check,
               MergeChecks(k, c, target) \/ MoveItems(k, c, target)
        PROVE  NotePeak
    BY <2>4 DEF MergeChecks, MoveItems
  <2>5. ASSUME NEW k \in Clerk, ReadPending(k) \/ DeskEnds(k) \/ \E c \in Check : ReadPaid(k, c)
        PROVE  UNCHANGED orderVars
    BY <2>5 DEF ReadPending, DeskEnds, ReadPaid
  <2> QED
    BY <1>1, <1>6, <2>2, <2>3, <2>4, <2>5 DEF DeskStep
<1>7. UNCHANGED vars => UNCHANGED orderVars
  BY DEF vars
<1> HIDE DEF Shrinks
<1>8. NotePeak \/ Shrinks
  BY <1>1, <1>2, <1>3, <1>4, <1>5, <1>6, <1>7 DEF Next
<1> QED
  BY <1>8 DEF Shrinks

\* So the noted peak never falls, and always covers the total.
LEMMA PeaksRise ==
  ASSUME OrderInv, check \in [Check -> CheckStatus], [Next]_vars, peak \in [Check -> Nat]
  PROVE  /\ peak' \in [Check -> Nat]
         /\ \A c \in Check : peak'[c] >= peak[c]
         /\ \A c \in Check : Total(c) <= peak[c] => Total(c)' <= peak'[c]
<1>0. ASSUME NEW c \in Check
      PROVE  Total(c) \in Nat /\ Total(c)' \in Nat /\ Bill(c) \in SUBSET Item
  <2>1. Bill(c) \in SUBSET Item /\ Bill(c)' \in SUBSET Item
    BY DEF Bill
  <2> QED
    BY <2>1, PricesAdd DEF Total
<1>1. CASE NotePeak
  <2>1. \A c \in Check : peak'[c] = Max({peak[c], Total(c)'})
    BY <1>1 DEF NotePeak
  <2>2. ASSUME NEW c \in Check
        PROVE  peak'[c] \in Nat /\ peak'[c] >= peak[c] /\ peak'[c] >= Total(c)'
    BY <1>0, <2>1, MaxOfTwo
  <2>3. peak' \in [Check -> Nat]
    BY <1>1, <2>2 DEF NotePeak
  <2> QED
    BY <1>0, <2>2, <2>3
<1>2. CASE UNCHANGED peak /\ \A c \in Check : Bill(c)' \subseteq Bill(c)
  <2>1. ASSUME NEW c \in Check
        PROVE  Total(c)' <= Total(c)
    BY <1>0, <1>2, PricesShrink DEF Total
  <2> QED
    BY <1>0, <1>2, <2>1
<1> QED
  BY <1>1, <1>2, PeaksFollowBills

\* A sale's step keeps the types of the money.
LEMMA SalesKeepTypes ==
  ASSUME MoneyTypes, MoneyStep
  PROVE  /\ pay' \in [Sale -> PayStatus] /\ sale' \in [Sale -> SaleCall] /\ desk' = desk
         /\ late' \subseteq Sale /\ flipped' \subseteq Sale
<1> DEFINE Goal == /\ pay' \in [Sale -> PayStatus] /\ sale' \in [Sale -> SaleCall] /\ desk' = desk
                   /\ late' \subseteq Sale /\ flipped' \subseteq Sale
<1>1. ASSUME NEW s \in Sale, NEW x \in SaleCall, sale' = [sale EXCEPT ![s] = x],
             UNCHANGED <<moneyVars, desk>>
      PROVE  Goal
  BY <1>1 DEF MoneyTypes, moneyVars
<1>2. PICK s \in Sale :
         \/ AskCheck(s) \/ ReadTotal(s) \/ LockSale(s) \/ SumPending(s) \/ SettleSale(s)
         \/ SaleEnds(s) \/ PaymentCompletes(s) \/ PaymentFails(s) \/ PaymentVoided(s)
  BY DEF MoneyStep
<1>3. sale[s] \in SaleCall
  BY DEF MoneyTypes
<1>4. Idle \in SaleCall
  BY DEF Idle, SaleCall
<1>5. CASE AskCheck(s)
  <2> DEFINE x == [phase |-> IF Writable(SaleCheck[s]) THEN "asked" ELSE "barred"]
  <2>1. x \in SaleCall
    BY DEF SaleCall
  <2>2. sale' = [sale EXCEPT ![s] = x] /\ UNCHANGED <<moneyVars, desk>>
    BY <1>5 DEF AskCheck
  <2> HIDE DEF x
  <2> QED
    BY <1>1, <2>1, <2>2
<1>6. CASE ReadTotal(s)
  <2> DEFINE x == [phase |-> "priced", total |-> Total(SaleCheck[s])]
  <2>1. x \in SaleCall
    BY TotalsAreNaturals DEF SaleCall
  <2>2. sale' = [sale EXCEPT ![s] = x] /\ UNCHANGED <<moneyVars, desk>>
    BY <1>6 DEF ReadTotal
  <2> HIDE DEF x
  <2> QED
    BY <1>1, <2>1, <2>2
<1>7. CASE LockSale(s)
  <2> DEFINE n == PaidTotal(SaleCheck[s])
             x == [phase |-> "locked", total |-> sale[s].total, paid |-> n]
  <2>1. n \in Nat /\ sale[s].total \in Nat
    BY <1>3, <1>7, TotalsAreNaturals, SaleShape DEF LockSale, PaidTotal
  <2>2. sale' = [sale EXCEPT ![s] = x] /\ UNCHANGED <<moneyVars, desk>>
    BY <1>7 DEF LockSale
  <2> HIDE DEF n
  <2>3. x \in SaleCall
    BY <2>1 DEF SaleCall
  <2> HIDE DEF x
  <2> QED
    BY <1>1, <2>2, <2>3
<1>8. CASE SumPending(s)
  <2> DEFINE n == PendingTotal(SaleCheck[s])
             x == [phase |-> "summed", due |-> sale[s].total - sale[s].paid - n]
  <2>1. n \in Nat /\ sale[s].total \in Nat /\ sale[s].paid \in Nat
    BY <1>3, <1>8, TotalsAreNaturals, SaleShape DEF SumPending, PendingTotal
  <2>2. sale' = [sale EXCEPT ![s] = x] /\ UNCHANGED <<moneyVars, desk>>
    BY <1>8 DEF SumPending
  <2> HIDE DEF n
  <2>3. x \in SaleCall
    BY <2>1 DEF SaleCall
  <2> HIDE DEF x
  <2> QED
    BY <1>1, <2>2, <2>3
<1>9. CASE SettleSale(s)
  <2>1. pay' = [pay EXCEPT ![s] = "pending"] /\ flipped' = flipped
        /\ late' \subseteq late \cup {s} /\ desk' = desk
        /\ sale' = [sale EXCEPT ![s] = Idle]
    BY <1>9 DEF SettleSale, CreatePayment, EndSale
  <2> QED
    BY <1>4, <2>1 DEF MoneyTypes, PayStatus
<1>10. CASE SaleEnds(s)
  BY <1>1, <1>4, <1>10 DEF SaleEnds, EndSale
<1>11. CASE PaymentCompletes(s) \/ PaymentFails(s) \/ PaymentVoided(s)
  BY <1>11 DEF PaymentCompletes, PaymentFails, PaymentVoided, MoneyTypes, PayStatus, callVars
<1> QED
  BY <1>2, <1>5, <1>6, <1>7, <1>8, <1>9, <1>10, <1>11

\* Every step keeps the types of the payments.
LEMMA MoneyTypesKept ==
  ASSUME MoneyTypes, OrderInv, check \in [Check -> CheckStatus], [Next]_vars
  PROVE  MoneyTypes'
<1>1. peak' \in [Check -> Nat]
  BY PeaksRise DEF MoneyTypes
<1>2. flow' \in {"full", "simple"}
  <2>1. FloorStep => UNCHANGED flow
    BY DEF FloorStep, OpenCheck, SeatCheck, Transfer, SetStatus
  <2>2. OrderStep => UNCHANGED flow \/ flow' \in Flows
    BY DEF OrderStep, PlaceOrder, PeekOrder, Transition, TransitionRefused, SetOrderFlow,
           floorVars
  <2>3. GuestStep => UNCHANGED flow
    BY DEF GuestStep, GuestJoins, GuestFindsNone, GuestOpens, SeatCheck, GuestRefused, floorVars
  <2>4. MoneyStep => UNCHANGED flow
    BY DEF MoneyStep, AskCheck, ReadTotal, LockSale, SumPending, SettleSale, SaleEnds,
           PaymentCompletes, PaymentFails, PaymentVoided, floorVars
  <2>5. DeskStep => UNCHANGED flow
    BY DEF DeskStep, ReadPaid, ReadPending, DeskEnds, CloseCheck, CancelCheck, MergeChecks,
           MoveItems, floorVars
  <2>6. UNCHANGED vars => UNCHANGED flow
    BY DEF vars, floorVars
  <2>7. flow \in {"full", "simple"} /\ Flows \subseteq {"full", "simple"}
    BY ChecksAssumption DEF MoneyTypes
  <2> QED
    BY <2>1, <2>2, <2>3, <2>4, <2>5, <2>6, <2>7 DEF Next
<1>3. CASE Elsewhere
  BY <1>1, <1>2, <1>3 DEF Elsewhere, MoneyTypes
<1>4. CASE MoneyStep
  BY <1>1, <1>2, <1>4, SalesKeepTypes DEF MoneyTypes
<1>5. ASSUME NEW k \in Clerk, LeavesDesk(k)
      PROVE  MoneyTypes'
  <2>1. Idle \in DeskCall
    BY DEF Idle, DeskCall
  <2> QED
    BY <1>1, <1>2, <1>5, <2>1 DEF LeavesDesk, MoneyTypes
<1>6. ASSUME NEW k \in Clerk, ReadPending(k)
      PROVE  MoneyTypes'
  <2> DEFINE n == PendingTotal(desk[k].at)
             x == [phase |-> "ready", at |-> desk[k].at, paid |-> desk[k].paid, pending |-> n]
  <2>1. n \in Nat /\ desk[k].at \in Check /\ desk[k].paid \in Nat
    BY <1>6, TotalsAreNaturals, DeskShape DEF ReadPending, PendingTotal, MoneyTypes
  <2>2. desk' = [desk EXCEPT ![k] = x] /\ UNCHANGED <<moneyVars, sale>>
    BY <1>6 DEF ReadPending
  <2> HIDE DEF n
  <2>3. x \in DeskCall
    BY <2>1 DEF DeskCall
  <2> HIDE DEF x
  <2> QED
    BY <1>1, <1>2, <2>2, <2>3 DEF MoneyTypes, moneyVars
<1>7. ASSUME NEW k \in Clerk, NEW c \in Check, ReadPaid(k, c)
      PROVE  MoneyTypes'
  <2> DEFINE n == PaidTotal(c)
             x == [phase |-> "paid", at |-> c, paid |-> n]
  <2>1. n \in Nat
    BY TotalsAreNaturals DEF PaidTotal
  <2>2. desk' = [desk EXCEPT ![k] = x] /\ UNCHANGED <<moneyVars, sale>>
    BY <1>7 DEF ReadPaid
  <2> HIDE DEF n
  <2>3. x \in DeskCall
    BY <2>1 DEF DeskCall
  <2> HIDE DEF x
  <2> QED
    BY <1>1, <1>2, <2>2, <2>3 DEF MoneyTypes, moneyVars
<1> QED
  BY <1>3, <1>4, <1>5, <1>6, <1>7, StepsAreMoneyMoves DEF MoneyMove

\* The payments are well typed in every behaviour.
LEMMA MoneyTypesInvariant == Spec => []MoneyTypes
<1>1. Init => MoneyTypes
  BY DEF Init, MoneyTypes, PayStatus, SaleCall, DeskCall, Idle
<1>2. MoneyTypes /\ OrderInv /\ check \in [Check -> CheckStatus] /\ [Next]_vars => MoneyTypes'
  BY MoneyTypesKept
<1> QED
  BY <1>1, <1>2, OrdersAreInvariant, PTL DEF Spec

\* Every row and every call in progress keeps its shape, the totals in them included:
\* a sum read in one statement and used in a later one is still a sum of money.
THEOREM ChecksTypes == Spec => []TypeOK
<1>1. MoneyTypes /\ OrderInv /\ FloorInv /\ GuestsAtTables => TypeOK
  BY DEF MoneyTypes, OrderInv, OrderTypes, FloorInv, GuestsAtTables, TypeOK
<1> QED
  BY <1>1, MoneyTypesInvariant, OrdersAreInvariant, FloorIsInvariant, PTL

-----------------------------------------------------------------------------
(* Payments, and the concessions on a check.                               *)

\* A payment of the check was voided; one completed between somebody's two sums.
Voided(c) == \E s \in Sale : SaleCheck[s] = c /\ pay[s] = "voided"
Flip(c) == \E s \in flipped : SaleCheck[s] = c

\* What a step can do to the payments: create one under an unused key, or move one.
LEMMA PaymentMoves ==
  ASSUME MoneyTypes, [Next]_vars
  PROVE  \/ UNCHANGED <<pay, late, flipped>>
         \/ \E s \in Sale : SettleSale(s) /\ pay[s] = "none"
         \/ \E s \in Sale : PaymentCompletes(s) \/ PaymentFails(s) \/ PaymentVoided(s)
<1>1. ASSUME NEW s \in Sale, SettleSale(s)
      PROVE  pay[s] = "none"
  BY <1>1 DEF SettleSale, CreatePayment, KeyUsed
<1>2. CASE MoneyStep
  BY <1>1, <1>2 DEF MoneyStep, AskCheck, ReadTotal, LockSale, SumPending, SaleEnds, moneyVars
<1>3. CASE Elsewhere
  BY <1>3 DEF Elsewhere
<1>4. ASSUME NEW k \in Clerk, LeavesDesk(k) \/ ReadPending(k) \/ \E c \in Check : ReadPaid(k, c)
      PROVE  UNCHANGED <<pay, late, flipped>>
  BY <1>4 DEF LeavesDesk, ReadPending, ReadPaid, moneyVars
<1> QED
  BY <1>2, <1>3, <1>4, StepsAreMoneyMoves DEF MoneyMove

\* A check's live payments grow only by a sale that its guard has let through.
LEMMA LivePaymentsGrow ==
  ASSUME MoneyTypes, [Next]_vars, NEW c \in Check
  PROVE  \/ PaymentsIn(c, Live)' \subseteq PaymentsIn(c, Live)
         \/ \E s \in Sale :
              /\ SaleCheck[s] = c /\ sale[s].phase = "summed" /\ Covers(s) /\ SettleSale(s)
              /\ s \notin PaymentsIn(c, Live)
              /\ PaymentsIn(c, Live)' = PaymentsIn(c, Live) \cup {s}
<1>1. CASE UNCHANGED <<pay, late, flipped>>
  BY <1>1 DEF PaymentsIn
<1>2. ASSUME NEW s \in Sale, SettleSale(s), pay[s] = "none", SaleCheck[s] # c
      PROVE  PaymentsIn(c, Live)' \subseteq PaymentsIn(c, Live)
  BY <1>2 DEF SettleSale, CreatePayment, PaymentsIn, MoneyTypes
<1>3. ASSUME NEW s \in Sale, SettleSale(s), pay[s] = "none", SaleCheck[s] = c
      PROVE  /\ sale[s].phase = "summed" /\ Covers(s)
             /\ s \notin PaymentsIn(c, Live)
             /\ PaymentsIn(c, Live)' = PaymentsIn(c, Live) \cup {s}
  <2>1. sale[s].phase = "summed" /\ Covers(s)
    BY <1>3, ChecksAssumption DEF SettleSale
  <2>2. pay' = [pay EXCEPT ![s] = "pending"]
    BY <1>3 DEF SettleSale, CreatePayment
  <2> QED
    BY <1>3, <2>1, <2>2 DEF PaymentsIn, Live, MoneyTypes
<1>4. ASSUME NEW s \in Sale, PaymentCompletes(s) \/ PaymentFails(s) \/ PaymentVoided(s)
      PROVE  PaymentsIn(c, Live)' \subseteq PaymentsIn(c, Live)
  BY <1>4 DEF PaymentCompletes, PaymentFails, PaymentVoided, PaymentsIn, Live, MoneyTypes
<1> QED
  BY <1>1, <1>2, <1>3, <1>4, PaymentMoves

\* Its completed payments stay unless one is voided, and only a completion adds one.
LEMMA CompletedPaymentsMove ==
  ASSUME MoneyTypes, [Next]_vars, NEW c \in Check
  PROVE  /\ Voided(c) => Voided(c)'
         /\ Voided(c)' \/ PaymentsIn(c, {"completed"}) \subseteq PaymentsIn(c, {"completed"})'
         /\ \/ PaymentsIn(c, {"completed"})' \subseteq PaymentsIn(c, {"completed"})
            \/ \E s \in Sale : PaymentCompletes(s) /\ SaleCheck[s] = c
         /\ \A s \in Sale : s \in flipped => s \in flipped'
         /\ late \subseteq late'
<1>1. CASE UNCHANGED <<pay, late, flipped>>
  BY <1>1 DEF PaymentsIn, Voided
<1>2. ASSUME NEW s \in Sale, SettleSale(s), pay[s] = "none"
      PROVE  /\ Voided(c) => Voided(c)'
             /\ PaymentsIn(c, {"completed"}) \subseteq PaymentsIn(c, {"completed"})'
             /\ PaymentsIn(c, {"completed"})' \subseteq PaymentsIn(c, {"completed"})
             /\ late \subseteq late' /\ flipped' = flipped
  BY <1>2 DEF SettleSale, CreatePayment, PaymentsIn, Voided, MoneyTypes
<1>3. ASSUME NEW s \in Sale, PaymentCompletes(s)
      PROVE  /\ Voided(c) => Voided(c)'
             /\ PaymentsIn(c, {"completed"}) \subseteq PaymentsIn(c, {"completed"})'
             /\ SaleCheck[s] # c =>
                  PaymentsIn(c, {"completed"})' \subseteq PaymentsIn(c, {"completed"})
             /\ late \subseteq late' /\ flipped \subseteq flipped'
  BY <1>3 DEF PaymentCompletes, PaymentsIn, Voided, MoneyTypes
<1>4. ASSUME NEW s \in Sale, PaymentFails(s)
      PROVE  /\ Voided(c) => Voided(c)'
             /\ PaymentsIn(c, {"completed"}) \subseteq PaymentsIn(c, {"completed"})'
             /\ PaymentsIn(c, {"completed"})' \subseteq PaymentsIn(c, {"completed"})
             /\ late \subseteq late' /\ flipped' = flipped
  BY <1>4 DEF PaymentFails, PaymentsIn, Voided, MoneyTypes
<1>5. ASSUME NEW s \in Sale, PaymentVoided(s)
      PROVE  /\ Voided(c) => Voided(c)'
             /\ Voided(c)' \/ PaymentsIn(c, {"completed"}) \subseteq PaymentsIn(c, {"completed"})'
             /\ PaymentsIn(c, {"completed"})' \subseteq PaymentsIn(c, {"completed"})
             /\ late \subseteq late' /\ flipped' = flipped
  BY <1>5 DEF PaymentVoided, PaymentsIn, Voided, MoneyTypes
<1> QED
  BY <1>1, <1>2, <1>3, <1>4, <1>5, PaymentMoves

\* The concessions made on a check never exceed the ceiling: the guard adds the new one
\* to those of the payments that are live when it looks, under the check's lock.
THEOREM ConcessionsStayWithinCeiling == Spec => []RoundingWithinCeiling
<1>1. Init => RoundingWithinCeiling
  <2> SUFFICES ASSUME Init, NEW c \in Check PROVE RoundingTotal(c) <= Ceiling
    BY DEF RoundingWithinCeiling
  <2>1. PaymentsIn(c, Live) = {}
    BY DEF Init, PaymentsIn, Live
  <2>2. RoundingTotal(c) = 0
    BY <2>1, SumEmpty DEF RoundingTotal
  <2> QED
    BY <2>2, ChecksAssumption
<1>2. ASSUME MoneyTypes, RoundingWithinCeiling, [Next]_vars
      PROVE  RoundingWithinCeiling'
  <2> SUFFICES ASSUME NEW c \in Check PROVE RoundingTotal(c)' <= Ceiling
    BY DEF RoundingWithinCeiling
  <2> DEFINE P == PaymentsIn(c, Live)
             Q == PaymentsIn(c, Live)'
             n == SumFunctionOnSet(Rounding, P)
  <2>1. P \in SUBSET Sale /\ Q \in SUBSET Sale
    BY DEF PaymentsIn
  <2>2. RoundingTotal(c) = SumFunctionOnSet(Rounding, P)
        /\ RoundingTotal(c)' = SumFunctionOnSet(Rounding, Q)
    BY DEF RoundingTotal
  <2>3. /\ SumFunctionOnSet(Rounding, P) \in Nat /\ SumFunctionOnSet(Rounding, Q) \in Nat
        /\ SumFunctionOnSet(Rounding, P) <= Ceiling /\ Ceiling \in Nat
    BY <1>2, <2>1, <2>2, PaymentsAdd, ChecksAssumption DEF RoundingWithinCeiling
  <2>4. CASE Q \subseteq P
    <3>1. SumFunctionOnSet(Rounding, Q) <= SumFunctionOnSet(Rounding, P)
      BY <2>1, <2>4, PaymentsShrink
    <3> QED
      BY <2>2, <2>3, <3>1
  <2>5. ASSUME NEW s \in Sale, SaleCheck[s] = c, Covers(s), s \notin P, Q = P \cup {s}
        PROVE  RoundingTotal(c)' <= Ceiling
    <3>1. SumFunctionOnSet(Rounding, Q) = SumFunctionOnSet(Rounding, P) + Rounding[s]
      BY <2>1, <2>5, OnePaymentMore
    <3>2. Rounding[s] > 0 => SumFunctionOnSet(Rounding, P) + Rounding[s] <= Ceiling
      BY <2>2, <2>5 DEF Covers
    <3>3. Rounding[s] \in Nat
      BY ChecksAssumption
    <3> HIDE DEF P, Q
    <3> QED
      BY <2>2, <2>3, <3>1, <3>2, <3>3
  <2> QED
    BY <1>2, <2>4, <2>5, LivePaymentsGrow
<1> QED
  BY <1>1, <1>2, MoneyTypesInvariant, PTL DEF Spec

-----------------------------------------------------------------------------
(* Closed checks.                                                          *)

\* The ways a check changes its status.
LEMMA ChecksMove ==
  ASSUME check \in [Check -> CheckStatus], [Next]_vars, NEW c \in Check, check'[c] # check[c]
  PROVE  \/ check[c] = "none" /\ check'[c] = "open"
         \/ \E k \in Clerk : CloseCheck(k, c) /\ check'[c] = "closed"
         \/ \E k \in Clerk : /\ Holds(k, c) /\ Collected(k) = 0 /\ check'[c] \in Dead
                             /\ UNCHANGED <<pay, late, flipped>>
<1> DEFINE Opens == check[c] = "none" /\ check'[c] = "open"
           Closes == \E k \in Clerk : CloseCheck(k, c) /\ check'[c] = "closed"
           Dies == \E k \in Clerk : /\ Holds(k, c) /\ Collected(k) = 0 /\ check'[c] \in Dead
                                    /\ UNCHANGED <<pay, late, flipped>>
<1>1. ASSUME NEW d \in Check, NEW t, SeatCheck(d, t)
      PROVE  Opens
  BY <1>1 DEF SeatCheck
<1>2. FloorStep => Opens
  BY <1>1 DEF FloorStep, OpenCheck, Transfer, SetStatus
<1>3. ~OrderStep
  BY DEF OrderStep, PlaceOrder, PeekOrder, Transition, TransitionRefused, SetOrderFlow, floorVars
<1>4. GuestStep => Opens
  BY <1>1 DEF GuestStep, GuestJoins, GuestFindsNone, GuestOpens, GuestRefused, floorVars
<1>5. ~MoneyStep
  BY DEF MoneyStep, AskCheck, ReadTotal, LockSale, SumPending, SettleSale, SaleEnds,
         PaymentCompletes, PaymentFails, PaymentVoided, floorVars
<1>6. ASSUME DeskStep
      PROVE  Closes \/ Dies
  <2>1. ASSUME NEW k \in Clerk, NEW d \in Check, CloseCheck(k, d)
        PROVE  Closes
    <3>1. d = c /\ check'[c] = "closed"
      BY <2>1 DEF CloseCheck
    <3> QED
      BY <2>1, <3>1
  <2>2. ASSUME NEW k \in Clerk, NEW d \in Check, CancelCheck(k, d)
        PROVE  Dies
    <3>1. d = c /\ check'[c] \in Dead
      BY <2>2 DEF CancelCheck, Dead
    <3> QED
      BY <2>2, <3>1 DEF CancelCheck, moneyVars
  <2>3. ASSUME NEW k \in Clerk, NEW d \in Check, NEW target \in Check, MergeChecks(k, d, target)
        PROVE  Dies
    <3>1. d = c /\ check'[c] \in Dead
      BY <2>3 DEF MergeChecks, Dead
    <3> QED
      BY <2>3, <3>1 DEF MergeChecks, moneyVars
  <2> QED
    BY <1>6, <2>1, <2>2, <2>3 DEF DeskStep, ReadPaid, ReadPending, DeskEnds, MoveItems, floorVars
<1>7. ~UNCHANGED vars
  BY DEF vars, floorVars
<1> HIDE DEF Opens, Closes, Dies
<1>8. Opens \/ Closes \/ Dies
  BY <1>2, <1>3, <1>4, <1>5, <1>6, <1>7 DEF Next
<1> QED
  BY <1>8 DEF Opens, Closes, Dies

\* A call of the desk is busy with check c.
At(k, c) == desk[k].phase # "idle" /\ desk[k].at = c

\* What a step does to such a call: nothing, its first read or its second.
LEMMA DeskMoves ==
  ASSUME MoneyTypes, [Next]_vars, NEW k \in Clerk, NEW c \in Check, At(k, c)'
  PROVE  \/ At(k, c) /\ desk'[k] = desk[k]
         \/ /\ At(k, c) /\ desk[k].phase = "paid"
            /\ desk'[k].phase = "ready"
            /\ desk'[k].paid = desk[k].paid
            /\ desk'[k].pending = PendingTotal(c)
            /\ UNCHANGED <<pay, late, flipped>>
         \/ /\ desk'[k].phase = "paid" /\ desk'[k].paid = PaidTotal(c)
            /\ UNCHANGED <<pay, late, flipped>>
<1>1. CASE desk'[k] = desk[k]
  BY <1>1 DEF At
<1>2. CASE Elsewhere \/ MoneyStep
  BY <1>1, <1>2, SalesKeepTypes DEF Elsewhere
<1>3. ASSUME NEW j \in Clerk, LeavesDesk(j)
      PROVE  desk'[k] = desk[k]
  BY <1>3 DEF LeavesDesk, MoneyTypes, At, Idle
<1>4. ASSUME NEW j \in Clerk, ReadPending(j), j # k
      PROVE  desk'[k] = desk[k]
  BY <1>4 DEF ReadPending, MoneyTypes
<1>5. CASE ReadPending(k)
  BY <1>5 DEF ReadPending, MoneyTypes, At, moneyVars
<1>6. ASSUME NEW j \in Clerk, NEW d \in Check, ReadPaid(j, d), j # k
      PROVE  desk'[k] = desk[k]
  BY <1>6 DEF ReadPaid, MoneyTypes
<1>7. ASSUME NEW d \in Check, ReadPaid(k, d)
      PROVE  /\ desk'[k].phase = "paid" /\ desk'[k].paid = PaidTotal(c)
             /\ UNCHANGED <<pay, late, flipped>>
  <2>1. desk'[k] = [phase |-> "paid", at |-> d, paid |-> PaidTotal(d)]
    BY <1>7 DEF ReadPaid, MoneyTypes
  <2>2. d = c
    BY <2>1 DEF At
  <2> QED
    BY <1>7, <2>1, <2>2 DEF ReadPaid, moneyVars
<1> QED
  BY <1>1, <1>2, <1>3, <1>4, <1>5, <1>6, <1>7, StepsAreMoneyMoves DEF MoneyMove

\* The completed total a call has read is still covered, unless a payment of the
\* check was voided since.
DeskReadsArePaid ==
  \A k \in Clerk, c \in Check : At(k, c) /\ ~Voided(c) => desk[k].paid <= PaidTotal(c)

\* What a check has been paid grows until a payment of it is voided.
LEMMA PaidTotalGrows ==
  ASSUME MoneyTypes, [Next]_vars, NEW c \in Check, ~Voided(c)'
  PROVE  /\ ~Voided(c)
         /\ PaidTotal(c) \in Nat /\ PaidTotal(c)' \in Nat
         /\ PaidTotal(c) <= PaidTotal(c)'
<1> DEFINE P == PaymentsIn(c, {"completed"})
           Q == PaymentsIn(c, {"completed"})'
<1>1. ~Voided(c) /\ P \subseteq Q
  BY CompletedPaymentsMove
<1>2. P \in SUBSET Sale /\ Q \in SUBSET Sale
  BY DEF PaymentsIn
<1>3. PaidTotal(c) = Settled(P) /\ PaidTotal(c)' = Settled(Q)
  BY DEF PaidTotal, SumOver, Settled
<1> HIDE DEF P, Q
<1>4. Settled(P) <= Settled(Q) /\ Settled(P) \in Nat /\ Settled(Q) \in Nat
  BY <1>1, <1>2, PaymentsShrink, PaymentsAdd
<1> QED
  BY <1>1, <1>3, <1>4

\* What a settling call read as paid stays paid, unless a payment of the check is voided.
LEMMA DeskReadsKept ==
  ASSUME MoneyTypes, DeskReadsArePaid, [Next]_vars
  PROVE  DeskReadsArePaid'
<1> SUFFICES ASSUME NEW k \in Clerk, NEW c \in Check, At(k, c)', ~Voided(c)'
             PROVE  desk'[k].paid <= PaidTotal(c)'
  BY DEF DeskReadsArePaid
<1>1. /\ ~Voided(c) /\ PaidTotal(c) \in Nat /\ PaidTotal(c)' \in Nat
      /\ PaidTotal(c) <= PaidTotal(c)'
  BY PaidTotalGrows
<1>2. CASE At(k, c) /\ desk'[k].paid = desk[k].paid
  <2>1. desk[k].paid <= PaidTotal(c) /\ desk[k].paid \in Nat
    BY <1>1, <1>2, DeskShape DEF DeskReadsArePaid, At, MoneyTypes
  <2> QED
    BY <1>1, <1>2, <2>1
<1>3. CASE desk'[k].paid = PaidTotal(c)
  BY <1>1, <1>3
<1> QED
  BY <1>2, <1>3, DeskMoves

\* What a closed check owes is covered: its bill is still (SettledBillsAreStill), and
\* the paid total its Close had read still is.
LEMMA ClosedChecksKept ==
  ASSUME MoneyTypes, OrderInv, check \in [Check -> CheckStatus], DeskReadsArePaid,
         ClosedChecksArePaid, [Next]_vars
  PROVE  ClosedChecksArePaid'
<1> SUFFICES ASSUME NEW c \in Check, check'[c] = "closed", ~Voided(c)'
             PROVE  PaidTotal(c)' >= Total(c)'
  BY DEF ClosedChecksArePaid, Voided
<1>1. /\ ~Voided(c) /\ PaidTotal(c) \in Nat /\ PaidTotal(c)' \in Nat
      /\ PaidTotal(c) <= PaidTotal(c)'
  BY PaidTotalGrows
<1>2. Bill(c) \in SUBSET Item /\ Bill(c)' \in SUBSET Item
  BY DEF Bill
<1>3. Total(c) \in Nat /\ Total(c)' \in Nat
  BY <1>2, PricesAdd DEF Total
<1>4. CASE check[c] = "closed"
  <2>1. Bill(c)' = Bill(c)
    BY <1>4, SettledBillsAreStill
  <2>2. Total(c)' = Total(c)
    BY <2>1 DEF Total
  <2>3. PaidTotal(c) >= Total(c)
    BY <1>1, <1>4 DEF ClosedChecksArePaid, Voided
  <2> QED
    BY <1>1, <1>3, <2>2, <2>3
<1>5. ASSUME NEW k \in Clerk, CloseCheck(k, c)
      PROVE  PaidTotal(c)' >= Total(c)'
  <2>1. At(k, c) /\ desk[k].paid >= Total(c)
    BY <1>5 DEF CloseCheck, Holds, PaymentCoversTotal, At
  <2>2. desk[k].paid <= PaidTotal(c) /\ desk[k].paid \in Nat
    BY <1>1, <2>1, DeskShape DEF DeskReadsArePaid, At, MoneyTypes
  <2>3. \A o \in Order : order'[o] \notin Inactive => order[o] \notin Inactive
    <3>1. SetActive(c, "delivered") \/ UNCHANGED order
      BY <1>5 DEF CloseCheck
    <3> QED
      BY <3>1 DEF SetActive, KitchenActive, Inactive
  <2>4. UNCHANGED <<checkOf, orderOf>>
    BY <1>5 DEF CloseCheck
  <2>5. Bill(c)' \subseteq Bill(c)
    BY <2>3, <2>4 DEF Bill, Billable
  <2>6. Total(c)' <= Total(c)
    BY <1>2, <2>5, PricesShrink DEF Total
  <2> QED
    BY <1>1, <1>3, <2>1, <2>2, <2>6
<1> QED
  BY <1>4, <1>5, ChecksMove DEF Dead

\* A check that was closed is paid, unless a payment of it was voided later: Close
\* compares a paid total from before its lock with the bill under the lock, and
\* neither the money nor the bill can have moved against it in between.
THEOREM ClosedChecksStayPaid == Spec => []ClosedChecksArePaid
<1>1. Init => DeskReadsArePaid /\ ClosedChecksArePaid
  BY DEF Init, DeskReadsArePaid, ClosedChecksArePaid, At, Idle
<1>2. /\ MoneyTypes /\ OrderInv /\ check \in [Check -> CheckStatus]
      /\ DeskReadsArePaid /\ ClosedChecksArePaid /\ [Next]_vars
      => (DeskReadsArePaid /\ ClosedChecksArePaid)'
  BY DeskReadsKept, ClosedChecksKept
<1> QED
  BY <1>1, <1>2, MoneyTypesInvariant, OrdersAreInvariant, PTL DEF Spec

-----------------------------------------------------------------------------
(* Charging a check twice.                                                 *)

\* The history of a check's highest total covers the total it has now.
TotalsArePeaked == \A c \in Check : Total(c) <= peak[c]

\* LockCheckForPayment: one sale of a check at a time is between its lock and its end.
LocksExclude ==
  \A s, z \in Sale :
    /\ sale[s].phase \in {"locked", "summed"} /\ sale[z].phase \in {"locked", "summed"}
    /\ SaleCheck[s] = SaleCheck[z]
    => s = z

\* The total a sale has read was a total of its check.
PricesWerePeaked ==
  \A s \in Sale :
    sale[s].phase \in {"priced", "locked"} =>
      SaleCheck[s] \in Check /\ sale[s].total <= peak[SaleCheck[s]]

\* What the guard has summed is not outdated, unless a payment of the check completed
\* between two sums: under the lock no other sale adds to them.
GuardsHold ==
  \A c \in Check, s \in Sale :
    SaleCheck[s] = c /\ ~Flip(c) =>
      /\ sale[s].phase = "locked" => PaidTotal(c) <= sale[s].paid
      /\ sale[s].phase = "summed" => SumOver(c, Live) + sale[s].due <= peak[c]

ChargeInv ==
  /\ TotalsArePeaked
  /\ LocksExclude
  /\ PricesWerePeaked
  /\ GuardsHold
  /\ DoubleChargeNeedsAFlip

\* What a step does to a sale call.
LEMMA SaleMoves ==
  ASSUME MoneyTypes, [Next]_vars, NEW s \in Sale
  PROVE  \/ sale'[s] = sale[s]
         \/ sale'[s].phase \in {"idle", "asked", "barred"}
         \/ ReadTotal(s)
         \/ LockSale(s)
         \/ SumPending(s)
<1>1. CASE Elsewhere
  BY <1>1 DEF Elsewhere
<1>2. ASSUME NEW k \in Clerk, LeavesDesk(k) \/ ReadPending(k) \/ \E c \in Check : ReadPaid(k, c)
      PROVE  sale'[s] = sale[s]
  BY <1>2 DEF LeavesDesk, ReadPending, ReadPaid
<1>3. CASE MoneyStep
  <2>1. PICK z \in Sale :
           \/ AskCheck(z) \/ ReadTotal(z) \/ LockSale(z) \/ SumPending(z) \/ SettleSale(z)
           \/ SaleEnds(z) \/ PaymentCompletes(z) \/ PaymentFails(z) \/ PaymentVoided(z)
    BY <1>3 DEF MoneyStep
  <2>2. CASE z # s
    BY <2>1, <2>2 DEF AskCheck, ReadTotal, LockSale, SumPending, SettleSale, SaleEnds, EndSale,
                      PaymentCompletes, PaymentFails, PaymentVoided, MoneyTypes, callVars
  <2>3. CASE z = s
    BY <2>1, <2>3 DEF AskCheck, SettleSale, SaleEnds, EndSale, Idle,
                      PaymentCompletes, PaymentFails, PaymentVoided, MoneyTypes, callVars
  <2> QED
    BY <2>2, <2>3
<1> QED
  BY <1>1, <1>2, <1>3, StepsAreMoneyMoves DEF MoneyMove

\* A step of the guard writes no other call and no payment.
LEMMA GuardSteps ==
  ASSUME MoneyTypes, NEW s \in Sale, ReadTotal(s) \/ LockSale(s) \/ SumPending(s)
  PROVE  /\ \A z \in Sale \ {s} : sale'[z] = sale[z]
         /\ UNCHANGED <<pay, late, flipped>>
BY DEF ReadTotal, LockSale, SumPending, MoneyTypes, moneyVars

\* A sale takes the lock of a check only when no other sale holds it.
LEMMA LocksKept ==
  ASSUME MoneyTypes, LocksExclude, [Next]_vars
  PROVE  LocksExclude'
<1> DEFINE In(x) == x.phase \in {"locked", "summed"}
<1>1. ASSUME NEW s \in Sale, In(sale'[s]), ~LockSale(s)
      PROVE  In(sale[s])
  <2>1. CASE ReadTotal(s)
    BY <1>1, <2>1 DEF ReadTotal, MoneyTypes
  <2>2. CASE SumPending(s)
    BY <2>2 DEF SumPending
  <2> QED
    BY <1>1, <2>1, <2>2, SaleMoves
<1>2. ASSUME NEW s \in Sale, NEW z \in Sale, LockSale(s), z # s, SaleCheck[s] = SaleCheck[z],
             In(sale'[z])
      PROVE  FALSE
  <2>1. sale'[z] = sale[z]
    BY <1>2, GuardSteps
  <2> QED
    BY <1>2, <2>1 DEF LockSale, LockFree
<1> SUFFICES ASSUME NEW s \in Sale, NEW z \in Sale, In(sale'[s]), In(sale'[z]),
                    SaleCheck[s] = SaleCheck[z], s # z
             PROVE  FALSE
  BY DEF LocksExclude
<1>3. ~LockSale(s) /\ ~LockSale(z)
  BY <1>2
<1>4. In(sale[s]) /\ In(sale[z])
  BY <1>1, <1>3
<1> QED
  BY <1>4 DEF LocksExclude

\* Only a sale of a check is priced, and so locked.
PricedSalesHaveACheck ==
  \A s \in Sale : sale[s].phase \in {"priced", "locked", "summed"} => SaleCheck[s] # NoCheck

\* A sale that is priced or locked was so already, or has just read its check's total.
LEMMA PricedSalesKept ==
  ASSUME MoneyTypes, PricedSalesHaveACheck, [Next]_vars
  PROVE  PricedSalesHaveACheck'
<1> SUFFICES ASSUME NEW s \in Sale, sale'[s].phase \in {"priced", "locked", "summed"}
             PROVE  SaleCheck[s] # NoCheck
  BY DEF PricedSalesHaveACheck
<1>1. CASE ReadTotal(s)
  BY <1>1 DEF ReadTotal
<1>2. CASE LockSale(s) \/ SumPending(s)
  BY <1>2 DEF LockSale, SumPending, PricedSalesHaveACheck
<1>3. CASE sale'[s] = sale[s]
  BY <1>3 DEF PricedSalesHaveACheck
<1> QED
  BY <1>1, <1>2, <1>3, SaleMoves

\* The key is looked up under the lock, and whoever else would pay the check with
\* that key needs the lock.
LEMMA RetriesKept ==
  ASSUME MoneyTypes, LocksExclude, PricedSalesHaveACheck, RetriesDoNotRefuseThemselves,
         [Next]_vars
  PROVE  RetriesDoNotRefuseThemselves'
<1> SUFFICES ASSUME NEW s \in Sale, NEW z \in Sale, sale'[s].phase \in {"locked", "summed"},
                    SaleKey[z] = SaleKey[s], SaleCheck[z] = SaleCheck[s]
             PROVE  pay'[z] = "none"
  BY DEF RetriesDoNotRefuseThemselves
<1>1. CASE LockSale(s)
  <2>1. pay[z] = "none"
    BY <1>1 DEF LockSale, KeyUsed
  <2> QED
    BY <1>1, <2>1, GuardSteps
<1>2. ASSUME ~LockSale(s)
      PROVE  sale[s].phase \in {"locked", "summed"}
  <2>1. CASE ReadTotal(s)
    BY <2>1 DEF ReadTotal, MoneyTypes
  <2>2. CASE SumPending(s)
    BY <2>2 DEF SumPending
  <2> QED
    BY <1>2, <2>1, <2>2, SaleMoves
<1>3. ASSUME ~LockSale(s), NEW x \in Sale, SettleSale(x)
      PROVE  x # z
  <2> SUFFICES ASSUME x = z PROVE FALSE
    OBVIOUS
  <2>1. SaleCheck[x] # NoCheck
    BY <1>2, <1>3 DEF PricedSalesHaveACheck
  <2>2. sale[x].phase = "summed" /\ sale'[x] = Idle
    BY <1>3, <2>1 DEF SettleSale, EndSale, MoneyTypes
  <2>3. x = s
    BY <1>2, <1>3, <2>2 DEF LocksExclude
  <2> QED
    BY <2>2, <2>3 DEF Idle
<1>4. ASSUME ~LockSale(s)
      PROVE  pay[z] = "none"
  BY <1>2, <1>4 DEF RetriesDoNotRefuseThemselves
<1>5. ASSUME ~LockSale(s), NEW x \in Sale, SettleSale(x)
      PROVE  pay'[z] = "none"
  BY <1>3, <1>4, <1>5 DEF SettleSale, CreatePayment, MoneyTypes
<1>6. ASSUME ~LockSale(s), NEW x \in Sale,
             PaymentCompletes(x) \/ PaymentFails(x) \/ PaymentVoided(x)
      PROVE  pay'[z] = "none"
  BY <1>4, <1>6 DEF PaymentCompletes, PaymentFails, PaymentVoided, Live, MoneyTypes
<1> QED
  BY <1>1, <1>4, <1>5, <1>6, PaymentMoves

\* However the requests of a key interleave, none of them is refused because of the
\* payment of another: under the check's lock, the sums hold no payment of its key.
THEOREM RetriesAreNeverRefused == Spec => []RetriesDoNotRefuseThemselves
<1> DEFINE Inv == LocksExclude /\ PricedSalesHaveACheck /\ RetriesDoNotRefuseThemselves
<1>1. Init => Inv
  BY DEF Init, Idle, LocksExclude, PricedSalesHaveACheck, RetriesDoNotRefuseThemselves
<1>2. MoneyTypes /\ Inv /\ [Next]_vars => Inv'
  BY LocksKept, PricedSalesKept, RetriesKept
<1>3. Inv => RetriesDoNotRefuseThemselves
  OBVIOUS
<1> HIDE DEF Inv
<1> QED
  BY <1>1, <1>2, <1>3, MoneyTypesInvariant, PTL DEF Spec

\* The total a sale has read stays below the highest its check ever had.
LEMMA PricesKept ==
  ASSUME MoneyTypes, OrderInv, check \in [Check -> CheckStatus], TotalsArePeaked,
         PricesWerePeaked, [Next]_vars
  PROVE  PricesWerePeaked'
<1> SUFFICES ASSUME NEW s \in Sale, sale'[s].phase \in {"priced", "locked"}
             PROVE  SaleCheck[s] \in Check /\ sale'[s].total <= peak'[SaleCheck[s]]
  BY DEF PricesWerePeaked
<1>1. \A c \in Check : peak'[c] >= peak[c] /\ peak[c] \in Nat /\ peak'[c] \in Nat
  BY PeaksRise DEF MoneyTypes
<1>2. CASE sale'[s] = sale[s]
  <2>1. SaleCheck[s] \in Check /\ sale[s].total <= peak[SaleCheck[s]] /\ sale[s].total \in Nat
    BY <1>2, SaleShape DEF PricesWerePeaked, MoneyTypes
  <2> QED
    BY <1>1, <1>2, <2>1
<1>3. CASE ReadTotal(s)
  <2>1. SaleCheck[s] \in Check
    BY <1>3, ChecksAssumption DEF ReadTotal
  <2>2. sale'[s].total = Total(SaleCheck[s])
    BY <1>3 DEF ReadTotal, MoneyTypes
  <2>3. Total(SaleCheck[s]) <= peak[SaleCheck[s]] /\ Total(SaleCheck[s]) \in Nat
    BY <2>1, TotalsAreNaturals DEF TotalsArePeaked
  <2> QED
    BY <1>1, <2>1, <2>2, <2>3
<1>4. CASE LockSale(s)
  <2>1. sale[s].phase = "priced" /\ sale'[s].total = sale[s].total
    BY <1>4 DEF LockSale, MoneyTypes
  <2>2. SaleCheck[s] \in Check /\ sale[s].total <= peak[SaleCheck[s]] /\ sale[s].total \in Nat
    BY <2>1, SaleShape DEF PricesWerePeaked, MoneyTypes
  <2> QED
    BY <1>1, <2>1, <2>2
<1>5. ~SumPending(s)
  BY DEF SumPending, MoneyTypes
<1> QED
  BY <1>2, <1>3, <1>4, <1>5, SaleMoves

\* What a check is charged grows only by a sale whose guard let it through.
LEMMA ChargesGrow ==
  ASSUME MoneyTypes, [Next]_vars, NEW c \in Check
  PROVE  /\ SumOver(c, Live) \in Nat /\ SumOver(c, Live)' \in Nat
         /\ \/ SumOver(c, Live)' <= SumOver(c, Live)
            \/ \E s \in Sale :
                 /\ SaleCheck[s] = c /\ sale[s].phase = "summed" /\ SettleSale(s)
                 /\ Settles(s) <= sale[s].due
                 /\ SumOver(c, Live)' = SumOver(c, Live) + Settles(s)
<1> DEFINE P == PaymentsIn(c, Live)
           Q == PaymentsIn(c, Live)'
<1>1. P \in SUBSET Sale /\ Q \in SUBSET Sale
  BY DEF PaymentsIn
<1>2. SumOver(c, Live) = Settled(P) /\ SumOver(c, Live)' = Settled(Q)
  BY DEF SumOver, Settled, Live
<1>3. \/ Q \subseteq P
      \/ \E s \in Sale : /\ SaleCheck[s] = c /\ sale[s].phase = "summed" /\ Covers(s)
                         /\ SettleSale(s) /\ s \notin P /\ Q = P \cup {s}
  BY LivePaymentsGrow
<1> HIDE DEF P, Q
<1>4. Settled(P) \in Nat /\ Settled(Q) \in Nat
  BY <1>1, PaymentsAdd
<1>5. CASE Q \subseteq P
  BY <1>1, <1>2, <1>4, <1>5, PaymentsShrink
<1>6. ASSUME NEW s \in Sale, SaleCheck[s] = c, sale[s].phase = "summed", Covers(s),
             SettleSale(s), s \notin P, Q = P \cup {s}
      PROVE  Settles(s) <= sale[s].due /\ Settled(Q) = Settled(P) + Settles(s)
  BY <1>1, <1>6, OnePaymentMore DEF Covers
<1> QED
  BY <1>2, <1>3, <1>4, <1>5, <1>6

\* A flip stays on record.
LEMMA FlipsStay ==
  ASSUME MoneyTypes, [Next]_vars, NEW c \in Check, ~Flip(c)'
  PROVE  ~Flip(c)
BY CompletedPaymentsMove DEF Flip, MoneyTypes

\* While a sale is between its two sums, the completed total does not grow unseen.
LEMMA PaidTotalIsSeen ==
  ASSUME MoneyTypes, [Next]_vars, NEW c \in Check, ~Flip(c)',
         NEW s \in Sale, SaleCheck[s] = c, sale[s].phase = "locked"
  PROVE  PaidTotal(c)' <= PaidTotal(c)
<1> DEFINE P == PaymentsIn(c, {"completed"})
           Q == PaymentsIn(c, {"completed"})'
<1>1. ASSUME NEW z \in Sale, PaymentCompletes(z), SaleCheck[z] = c
      PROVE  Flip(c)'
  <2>1. BetweenSums(SaleCheck[z])
    BY <1>1 DEF BetweenSums
  <2>2. z \in flipped'
    BY <1>1, <2>1 DEF PaymentCompletes
  <2> QED
    BY <1>1, <2>2 DEF Flip
<1>2. Q \subseteq P
  BY <1>1, CompletedPaymentsMove
<1>3. P \in SUBSET Sale
  BY DEF PaymentsIn
<1>4. PaidTotal(c) = Settled(P) /\ PaidTotal(c)' = Settled(Q)
  BY DEF PaidTotal, SumOver, Settled
<1> HIDE DEF P, Q
<1> QED
  BY <1>2, <1>3, <1>4, PaymentsShrink

\* What the guard of a sale has summed stays true under the lock.
LEMMA GuardsKept ==
  ASSUME MoneyTypes, OrderInv, check \in [Check -> CheckStatus], ChargeInv, [Next]_vars
  PROVE  GuardsHold'
<1> SUFFICES ASSUME NEW c \in Check, NEW s \in Sale, SaleCheck[s] = c, ~Flip(c)'
             PROVE  /\ sale'[s].phase = "locked" => PaidTotal(c)' <= sale'[s].paid
                    /\ sale'[s].phase = "summed" =>
                         SumOver(c, Live)' + sale'[s].due <= peak'[c]
  BY DEF GuardsHold
<1>1. ~Flip(c)
  BY FlipsStay
<1>2. PaidTotal(c) \in Nat /\ PaidTotal(c)' \in Nat
  <2>1. /\ PaymentsIn(c, {"completed"}) \in SUBSET Sale
        /\ PaymentsIn(c, {"completed"})' \in SUBSET Sale
    BY DEF PaymentsIn
  <2> QED
    BY <2>1, PaymentsAdd DEF PaidTotal, SumOver, Settled
<1>3. peak[c] \in Nat /\ peak'[c] \in Nat /\ peak'[c] >= peak[c]
  BY PeaksRise DEF MoneyTypes
<1>4. SumOver(c, Live) \in Nat /\ SumOver(c, Live)' \in Nat
  BY ChargesGrow
<1>5. ASSUME sale'[s].phase = "locked"
      PROVE  PaidTotal(c)' <= sale'[s].paid
  <2>1. CASE sale'[s] = sale[s]
    <3>1. PaidTotal(c) <= sale[s].paid /\ sale[s].paid \in Nat
      BY <1>1, <1>5, <2>1, SaleShape DEF ChargeInv, GuardsHold, MoneyTypes
    <3>2. PaidTotal(c)' <= PaidTotal(c)
      BY <1>5, <2>1, PaidTotalIsSeen
    <3> QED
      BY <1>2, <2>1, <3>1, <3>2
  <2>2. CASE LockSale(s)
    <3>1. sale'[s].paid = PaidTotal(c)
      BY <2>2 DEF LockSale, MoneyTypes
    <3>2. PaidTotal(c)' = PaidTotal(c)
      BY <2>2, GuardSteps DEF PaidTotal, SumOver, PaymentsIn
    <3> QED
      BY <1>2, <3>1, <3>2
  <2>3. ~ReadTotal(s) /\ ~SumPending(s)
    BY <1>5 DEF ReadTotal, SumPending, MoneyTypes
  <2> QED
    BY <1>5, <2>1, <2>2, <2>3, SaleMoves
<1>6. ASSUME sale'[s].phase = "summed"
      PROVE  SumOver(c, Live)' + sale'[s].due <= peak'[c]
  <2>1. CASE sale'[s] = sale[s]
    <3>1. SumOver(c, Live) + sale[s].due <= peak[c] /\ sale[s].due \in Int
      BY <1>1, <1>6, <2>1, SaleShape DEF ChargeInv, GuardsHold, MoneyTypes
    <3>2. ASSUME NEW z \in Sale, SaleCheck[z] = c, sale[z].phase = "summed", SettleSale(z)
          PROVE  FALSE
      <4>1. sale'[z] = Idle
        BY <3>2 DEF SettleSale, EndSale, MoneyTypes
      <4>2. z # s
        BY <1>6, <4>1 DEF Idle
      <4> QED
        BY <1>6, <2>1, <3>2, <4>2 DEF ChargeInv, LocksExclude
    <3>3. SumOver(c, Live)' <= SumOver(c, Live)
      BY <3>2, ChargesGrow
    <3> QED
      BY <1>3, <1>4, <2>1, <3>1, <3>3
  <2>2. CASE SumPending(s)
    <3>1. sale[s].phase = "locked" /\ sale'[s].due = sale[s].total - sale[s].paid - PendingTotal(c)
      BY <2>2 DEF SumPending, MoneyTypes
    <3>2. SumOver(c, Live)' = SumOver(c, Live)
      BY <2>2, GuardSteps DEF SumOver, PaymentsIn
    <3>3. SumOver(c, Live) = PaidTotal(c) + PendingTotal(c)
      BY LiveIsPaidAndPending
    <3>4. PaidTotal(c) <= sale[s].paid /\ sale[s].total <= peak[c]
      BY <1>1, <3>1 DEF ChargeInv, GuardsHold, PricesWerePeaked
    <3>5. sale[s].paid \in Nat /\ sale[s].total \in Nat
      BY <3>1, SaleShape DEF MoneyTypes
    <3>6. PendingTotal(c) \in Nat
      BY TotalsAreNaturals DEF PendingTotal
    <3> QED
      BY <1>2, <1>3, <3>1, <3>2, <3>3, <3>4, <3>5, <3>6
  <2>3. ~ReadTotal(s) /\ ~LockSale(s)
    BY <1>6 DEF ReadTotal, LockSale, MoneyTypes
  <2> QED
    BY <1>6, <2>1, <2>2, <2>3, SaleMoves
<1> QED
  BY <1>5, <1>6

\* No step charges a check beyond its highest total, unless a payment flipped.
LEMMA ChargesKept ==
  ASSUME MoneyTypes, OrderInv, check \in [Check -> CheckStatus], ChargeInv, [Next]_vars
  PROVE  DoubleChargeNeedsAFlip'
<1> SUFFICES ASSUME NEW c \in Check, ~Flip(c)'
             PROVE  SumOver(c, Live)' <= peak'[c]
  BY DEF DoubleChargeNeedsAFlip, Flip
<1>1. ~Flip(c)
  BY FlipsStay
<1>2. peak[c] \in Nat /\ peak'[c] \in Nat /\ peak'[c] >= peak[c]
  BY PeaksRise DEF MoneyTypes
<1>3. SumOver(c, Live) \in Nat /\ SumOver(c, Live)' \in Nat
  BY ChargesGrow
<1>4. CASE SumOver(c, Live)' <= SumOver(c, Live)
  <2>1. SumOver(c, Live) <= peak[c]
    BY <1>1 DEF ChargeInv, DoubleChargeNeedsAFlip, Flip
  <2> QED
    BY <1>2, <1>3, <1>4, <2>1
<1>5. ASSUME NEW s \in Sale, SaleCheck[s] = c, sale[s].phase = "summed",
             Settles(s) <= sale[s].due, SumOver(c, Live)' = SumOver(c, Live) + Settles(s)
      PROVE  SumOver(c, Live)' <= peak'[c]
  <2>1. SumOver(c, Live) + sale[s].due <= peak[c]
    BY <1>1, <1>5 DEF ChargeInv, GuardsHold
  <2>2. sale[s].due \in Int /\ Settles(s) \in Nat
    BY <1>5, SaleShape, PaymentsAdd DEF MoneyTypes
  <2> QED
    BY <1>2, <1>3, <1>5, <2>1, <2>2
<1> QED
  BY <1>4, <1>5, ChargesGrow

\* The per-check lock closes every way to charge a check twice but one: a check carries
\* more than it ever owed only when a payment of it completed between somebody's sums.
THEOREM OverchargesNeedAFlip == Spec => []DoubleChargeNeedsAFlip
<1>1. Init => ChargeInv
  <2> SUFFICES ASSUME Init PROVE ChargeInv
    OBVIOUS
  <2>1. ASSUME NEW c \in Check
        PROVE  Total(c) <= peak[c] /\ SumOver(c, Live) <= peak[c]
    <3>1. Bill(c) = {}
      BY ChecksAssumption DEF Init, Bill
    <3>2. PaymentsIn(c, Live) = {}
      BY DEF Init, PaymentsIn, Live
    <3>3. Total(c) = 0 /\ SumOver(c, Live) = 0
      BY <3>1, <3>2, SumEmpty DEF Total, SumPrices, SumOver
    <3> QED
      BY <3>3 DEF Init
  <2>2. \A s \in Sale : sale[s].phase = "idle"
    BY DEF Init, Idle
  <2> QED
    BY <2>1, <2>2 DEF ChargeInv, TotalsArePeaked, LocksExclude, PricesWerePeaked, GuardsHold,
                      DoubleChargeNeedsAFlip
<1>2. ASSUME MoneyTypes, OrderInv, check \in [Check -> CheckStatus], ChargeInv, [Next]_vars
      PROVE  ChargeInv'
  <2>1. TotalsArePeaked'
    BY <1>2, PeaksRise DEF ChargeInv, TotalsArePeaked, MoneyTypes
  <2> QED
    BY <1>2, <2>1, LocksKept, PricesKept, GuardsKept, ChargesKept DEF ChargeInv
<1>3. ChargeInv => DoubleChargeNeedsAFlip
  BY DEF ChargeInv
<1> QED
  BY <1>1, <1>2, <1>3, MoneyTypesInvariant, OrdersAreInvariant, PTL DEF Spec

-----------------------------------------------------------------------------
(* Money left behind.                                                      *)

\* A call that has seen no money knows of all there is, except what was raced: after its
\* first read the completed payments, after its second the pending ones as well.
EmptyReadsAreTrue ==
  \A k \in Clerk, c \in Check :
    At(k, c) =>
      /\ desk[k].phase = "paid" /\ desk[k].paid = 0 =>
           PaymentsIn(c, {"completed"}) \subseteq late \cup flipped
      /\ desk[k].phase = "ready" /\ Collected(k) = 0 =>
           PaymentsIn(c, Live) \subseteq late \cup flipped

\* A payment that reaches a check while a call is settling it is on record: as late when
\* it was created then, as flipped when it completed between the call's sums.
LEMMA RacesAreRecorded ==
  ASSUME MoneyTypes, [Next]_vars, NEW k \in Clerk, NEW c \in Check, At(k, c),
         desk'[k] = desk[k]
  PROVE  /\ late \cup flipped \subseteq late' \cup flipped'
         /\ PaymentsIn(c, Live)' \subseteq PaymentsIn(c, Live) \cup late'
         /\ desk[k].phase = "paid" =>
              PaymentsIn(c, {"completed"})' \subseteq PaymentsIn(c, {"completed"}) \cup flipped'
<1>1. late \subseteq late' /\ flipped \subseteq flipped'
  BY CompletedPaymentsMove DEF MoneyTypes
<1>2. CASE UNCHANGED <<pay, late, flipped>>
  BY <1>2 DEF PaymentsIn
<1>3. ASSUME NEW s \in Sale, SettleSale(s), pay[s] = "none"
      PROVE  /\ PaymentsIn(c, Live)' \subseteq PaymentsIn(c, Live) \cup late'
             /\ PaymentsIn(c, {"completed"})' \subseteq PaymentsIn(c, {"completed"})
  <2>1. SaleCheck[s] = c => BeingSettled(SaleCheck[s])
    BY DEF At, BeingSettled
  <2>2. SaleCheck[s] = c => s \in late'
    BY <1>3, <2>1 DEF SettleSale, CreatePayment
  <2>3. pay' = [pay EXCEPT ![s] = "pending"]
    BY <1>3 DEF SettleSale, CreatePayment
  <2> QED
    BY <2>2, <2>3 DEF PaymentsIn, MoneyTypes
<1>4. ASSUME NEW s \in Sale, PaymentCompletes(s)
      PROVE  /\ PaymentsIn(c, Live)' \subseteq PaymentsIn(c, Live)
             /\ desk[k].phase = "paid" =>
                  PaymentsIn(c, {"completed"})' \subseteq PaymentsIn(c, {"completed"}) \cup flipped'
  <2>1. desk[k].phase = "paid" /\ SaleCheck[s] = c => BetweenSums(SaleCheck[s])
    BY DEF At, BetweenSums
  <2>2. desk[k].phase = "paid" /\ SaleCheck[s] = c => s \in flipped'
    BY <1>4, <2>1 DEF PaymentCompletes
  <2>3. pay[s] = "pending" /\ pay' = [pay EXCEPT ![s] = "completed"]
    BY <1>4 DEF PaymentCompletes
  <2> QED
    BY <2>2, <2>3 DEF PaymentsIn, Live, MoneyTypes
<1>5. ASSUME NEW s \in Sale, PaymentFails(s) \/ PaymentVoided(s)
      PROVE  /\ PaymentsIn(c, Live)' \subseteq PaymentsIn(c, Live)
             /\ PaymentsIn(c, {"completed"})' \subseteq PaymentsIn(c, {"completed"})
  BY <1>5 DEF PaymentFails, PaymentVoided, PaymentsIn, Live, MoneyTypes
<1> QED
  BY <1>1, <1>2, <1>3, <1>4, <1>5, PaymentMoves

\* A check that was read empty has only payments that are on record as late or flipped.
LEMMA EmptyReadsKept ==
  ASSUME MoneyTypes, EmptyReadsAreTrue, [Next]_vars
  PROVE  EmptyReadsAreTrue'
<1> SUFFICES ASSUME NEW k \in Clerk, NEW c \in Check, At(k, c)'
             PROVE  /\ desk'[k].phase = "paid" /\ desk'[k].paid = 0 =>
                         PaymentsIn(c, {"completed"})' \subseteq late' \cup flipped'
                    /\ desk'[k].phase = "ready" /\ Collected(k)' = 0 =>
                         PaymentsIn(c, Live)' \subseteq late' \cup flipped'
  BY DEF EmptyReadsAreTrue
<1>1. CASE At(k, c) /\ desk'[k] = desk[k]
  <2>1. Collected(k)' = Collected(k)
    BY <1>1 DEF Collected
  <2> QED
    BY <1>1, <2>1, RacesAreRecorded DEF EmptyReadsAreTrue
<1>2. CASE /\ At(k, c) /\ desk[k].phase = "paid"
           /\ desk'[k].phase = "ready"
           /\ desk'[k].paid = desk[k].paid
           /\ desk'[k].pending = PendingTotal(c)
           /\ UNCHANGED <<pay, late, flipped>>
  <2> SUFFICES ASSUME Collected(k)' = 0
               PROVE  PaymentsIn(c, Live)' \subseteq late' \cup flipped'
    BY <1>2
  <2>1. desk[k].paid \in Nat /\ PendingTotal(c) \in Nat
    BY <1>2, DeskShape, TotalsAreNaturals DEF MoneyTypes, PendingTotal
  <2>2. desk[k].paid = 0 /\ PendingTotal(c) = 0
    BY <1>2, <2>1 DEF Collected
  <2>3. PaymentsIn(c, {"pending"}) = {}
    <3>1. PaymentsIn(c, {"pending"}) \in SUBSET Sale /\ Settled(PaymentsIn(c, {"pending"})) = 0
      BY <2>2, TotalsAreNaturals DEF PendingTotal
    <3> QED
      BY <3>1, NothingSettled
  <2>4. PaymentsIn(c, {"completed"}) \subseteq late \cup flipped
    BY <1>2, <2>2 DEF EmptyReadsAreTrue
  <2>5. PaymentsIn(c, Live)' = PaymentsIn(c, {"pending"}) \cup PaymentsIn(c, {"completed"})
    BY <1>2 DEF PaymentsIn, Live
  <2> QED
    BY <1>2, <2>3, <2>4, <2>5
<1>3. CASE /\ desk'[k].phase = "paid" /\ desk'[k].paid = PaidTotal(c)
           /\ UNCHANGED <<pay, late, flipped>>
  <2> SUFFICES ASSUME PaidTotal(c) = 0
               PROVE  PaymentsIn(c, {"completed"})' = {}
    BY <1>3
  <2>1. /\ PaymentsIn(c, {"completed"}) \in SUBSET Sale
        /\ Settled(PaymentsIn(c, {"completed"})) = 0
    BY TotalsAreNaturals DEF PaidTotal
  <2>2. PaymentsIn(c, {"completed"}) = {}
    BY <2>1, NothingSettled
  <2> QED
    BY <1>3, <2>2 DEF PaymentsIn
<1> QED
  BY <1>1, <1>2, <1>3, DeskMoves

\* Money stays on a cancelled check only where the cancellation was raced.
LEMMA OrphansKept ==
  ASSUME MoneyTypes, check \in [Check -> CheckStatus], EmptyReadsAreTrue,
         OrphanedMoneyWasRaced, [Next]_vars
  PROVE  OrphanedMoneyWasRaced'
<1> SUFFICES ASSUME NEW s \in Sale, pay'[s] \in Live, SaleCheck[s] # NoCheck,
                    check'[SaleCheck[s]] \in Dead
             PROVE  s \in late' \cup flipped'
  BY DEF OrphanedMoneyWasRaced
<1>1. PICK c \in Check : c = SaleCheck[s]
  BY ChecksAssumption
<1>2. late \subseteq late' /\ flipped \subseteq flipped'
  BY CompletedPaymentsMove, <1>1 DEF MoneyTypes
<1>3. CASE check[c] \in Dead
  <2>1. CASE pay[s] \in Live
    BY <1>1, <1>2, <1>3, <2>1 DEF OrphanedMoneyWasRaced
  <2>2. CASE pay[s] \notin Live
    <3>1. PICK z \in Sale : SettleSale(z) /\ pay'[z] # pay[z] /\ z = s
      <4>1. ASSUME NEW z \in Sale, PaymentCompletes(z) \/ PaymentFails(z) \/ PaymentVoided(z)
            PROVE  FALSE
        BY <2>2, <4>1 DEF PaymentCompletes, PaymentFails, PaymentVoided, Live, MoneyTypes
      <4>2. ~UNCHANGED <<pay, late, flipped>>
        BY <2>2
      <4>3. PICK z \in Sale : SettleSale(z)
        BY <4>1, <4>2, PaymentMoves
      <4>4. z = s
        BY <2>2, <4>3 DEF SettleSale, CreatePayment, MoneyTypes
      <4> QED
        BY <2>2, <4>3, <4>4
    <3>2. ~Writable(SaleCheck[s])
      BY <1>1, <1>3, ChecksAssumption DEF Writable, Dead
    <3> QED
      BY <3>1, <3>2 DEF SettleSale, CreatePayment
  <2> QED
    BY <2>1, <2>2
<1>4. CASE check[c] \notin Dead
  <2>1. PICK k \in Clerk : Holds(k, c) /\ Collected(k) = 0 /\ UNCHANGED <<pay, late, flipped>>
    BY <1>1, <1>4, ChecksMove DEF Dead
  <2>2. PaymentsIn(c, Live) \subseteq late \cup flipped
    BY <2>1 DEF EmptyReadsAreTrue, At, Holds
  <2>3. s \in PaymentsIn(c, Live)
    BY <1>1, <2>1 DEF PaymentsIn
  <2> QED
    BY <2>1, <2>2, <2>3
<1> QED
  BY <1>3, <1>4

\* Money stays behind on a cancelled or merged check only after a race that the history
\* names: created while the call was under way, or completed between its two reads.
THEOREM OrphansWereRaced == Spec => []OrphanedMoneyWasRaced
<1>1. Init => EmptyReadsAreTrue /\ OrphanedMoneyWasRaced
  BY DEF Init, EmptyReadsAreTrue, OrphanedMoneyWasRaced, At, Idle, Live
<1>2. /\ MoneyTypes /\ check \in [Check -> CheckStatus]
      /\ EmptyReadsAreTrue /\ OrphanedMoneyWasRaced /\ [Next]_vars
      => (EmptyReadsAreTrue /\ OrphanedMoneyWasRaced)'
  BY EmptyReadsKept, OrphansKept
<1> QED
  BY <1>1, <1>2, MoneyTypesInvariant, OrdersAreInvariant, PTL DEF Spec
=============================================================================
