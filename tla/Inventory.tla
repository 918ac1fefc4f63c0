----------------------------- MODULE Inventory -----------------------------
(***************************************************************************)
(* The inventory module: stock levels, the shipments that move stock       *)
(* between warehouses, and the branch transfer order (BTO) that shipments  *)
(* fulfil.                                                                 *)
(*                                                                         *)
(* Every operation is one READ COMMITTED transaction that reads the status *)
(* of its row without a lock, checks the edge, and then overwrites the row *)
(* by id.  What it wrote keeps its rows locked until it commits, and       *)
(* nobody else sees it before; so a call is a read, a look at the level    *)
(* (Advance), the writes (rows held from here on), a read of the order     *)
(* with the count of its lines, and a commit that publishes everything.    *)
(* A refused call rolls back.  One order; one line per shipment.           *)
(***************************************************************************)
EXTENDS Integers, FiniteSets, FiniteSetsExt

CONSTANTS
  Warehouse, StockItem, Shipment, Clerk,
  OrderItem,   \* the stock items on the order's lines
  Linked,      \* the shipments created with transfer_order_id
  LineOf,      \* the stock item of a shipment's line
  Qty,         \* requested_qty of that line
  From,        \* from_warehouse_id
  Requested,   \* requested_qty of an order line
  Opening,     \* on_hand before the first call
  Approvals,   \* bound: the quantities a source branch approves
  Hand         \* bound: the movements recorded by hand, each at most once

MovementType == {"in", "out", "adjust", "transfer", "reserve", "release"}

ASSUME InventoryAssumption ==
  /\ IsFiniteSet(Warehouse) /\ IsFiniteSet(Shipment)
  /\ OrderItem \subseteq StockItem /\ Linked \subseteq Shipment
  /\ LineOf \in [Shipment -> StockItem] /\ \A s \in Linked : LineOf[s] \in OrderItem
  /\ Qty \in [Shipment -> Nat \ {0}] /\ From \in [Shipment -> Warehouse]
  /\ Requested \in [OrderItem -> Nat \ {0}]
  /\ Opening \in [Warehouse -> [StockItem -> Nat]]
  /\ Approvals \subseteq Nat
  /\ Hand \subseteq [wh : Warehouse, item : StockItem, type : MovementType, qty : Int]

VARIABLES
  bto,        \* branch_transfer_orders.status; "none" before the row exists
  line,       \* branch_transfer_order_items: approved, shipped and received quantities
  ship,       \* shipments.status
  shipped,    \* shipment_items.shipped_qty
  onHand,     \* stock_levels.on_hand
  reserved,   \* stock_levels.reserved
  recorded,   \* the hand movements in the ledger
  call,       \* the operations in progress
  net,        \* history: what hand movements changed on_hand by
  stale,      \* history: items shipped after the level looked at had changed
  raced,      \* history: shipments whose status was overwritten unseen
  crossed,    \* history: the order's status was overwritten unseen
  skewed      \* history: a Receive counted lines another one had not committed

orderVars == <<bto, line, crossed>>
stockVars == <<onHand, reserved, recorded, net>>
shipVars  == <<ship, shipped, raced, stale>>
vars == <<orderVars, stockVars, shipVars, call, skewed>>

-----------------------------------------------------------------------------
BTOStatus ==
  {"none", "draft", "submitted", "approved", "fulfilling", "shipped", "received",
   "closed", "rejected", "cancelled"}

\* Mutant: an order can still be cancelled once its goods have left.
BTOEdgesCancelLate ==
  [s \in BTOStatus |->
     CASE s = "draft"      -> {"submitted", "cancelled"}
       [] s = "submitted"  -> {"approved", "rejected", "cancelled"}
       [] s = "approved"   -> {"fulfilling", "cancelled"}
       [] s = "fulfilling" -> {"shipped"}
       [] s = "shipped"    -> {"received", "cancelled"}
       [] s = "received"   -> {"closed"}
       [] OTHER            -> {}]

\* domain.allowedBTOTransitions.
BTOEdges ==
  [s \in BTOStatus |->
     CASE s = "draft"      -> {"submitted", "cancelled"}
       [] s = "submitted"  -> {"approved", "rejected", "cancelled"}
       [] s = "approved"   -> {"fulfilling", "cancelled"}
       [] s = "fulfilling" -> {"shipped"}
       [] s = "shipped"    -> {"received"}
       [] s = "received"   -> {"closed"}
       [] OTHER            -> {}]

ShipmentStatus == {"none", "draft", "approved", "in_transit", "received", "cancelled"}

\* domain.allowedShipmentTransitions.
ShipmentEdges ==
  [s \in ShipmentStatus |->
     CASE s = "draft"      -> {"approved", "cancelled"}
       [] s = "approved"   -> {"in_transit", "cancelled"}
       [] s = "in_transit" -> {"received"}
       [] OTHER            -> {}]

Unset == -1

Line == [approved : Nat \cup {Unset}, shipped : Nat, received : Nat]

Idle == [phase |-> "idle"]

\* A call is named by the status it moves its row to.
OrderCall == [phase : {"order"}, to : {"submitted", "approved", "rejected", "cancelled", "fulfilling"}, saw : BTOStatus]

ShipmentCall ==
  [phase : {"read"}, to : ShipmentStatus, at : Shipment, saw : ShipmentStatus]
    \cup [phase : {"looked"}, to : {"in_transit"}, at : Shipment, saw : ShipmentStatus, had : Nat]
    \cup [phase : {"wrote"}, to : {"in_transit", "received"}, at : Shipment,
          saw : ShipmentStatus, wh : Warehouse]
    \cup [phase : {"counted"}, to : {"in_transit", "received"}, at : Shipment,
          saw : ShipmentStatus, wh : Warehouse, order : BTOStatus, all : BOOLEAN]

\* Every row and every call in progress has one of the shapes the code gives it.
TypeOK ==
  /\ bto \in BTOStatus
  /\ line \in [OrderItem -> Line]
  /\ ship \in [Shipment -> ShipmentStatus]
  /\ shipped \in [Shipment -> Nat]
  /\ onHand \in [Warehouse -> [StockItem -> Nat]]
  /\ reserved \in [Warehouse -> [StockItem -> Nat]]
  /\ recorded \subseteq Hand
  /\ call \in [Clerk -> {Idle} \cup OrderCall \cup ShipmentCall]
  /\ net \in [StockItem -> Int]
  /\ stale \subseteq StockItem
  /\ raced \subseteq Shipment
  /\ crossed \in BOOLEAN
  /\ skewed \in BOOLEAN

Init ==
  /\ bto = "none"
  /\ line = [i \in OrderItem |-> [approved |-> Unset, shipped |-> 0, received |-> 0]]
  /\ ship = [s \in Shipment |-> "none"]
  /\ shipped = [s \in Shipment |-> 0]
  /\ onHand = Opening
  /\ reserved = [w \in Warehouse |-> [i \in StockItem |-> 0]]
  /\ recorded = {}
  /\ call = [k \in Clerk |-> Idle]
  /\ net = [i \in StockItem |-> 0]
  /\ stale = {} /\ raced = {} /\ crossed = FALSE /\ skewed = FALSE

-----------------------------------------------------------------------------
(* What the calls hold and count.                                          *)

\* The calls that have written and not committed.
Holding == {k \in Clerk : call[k].phase \in {"wrote", "counted"}}

\* A call holds its shipment row, the level it adjusts and, when it fulfils the
\* order, the order's line of the same item.
HoldsShipment(k, s) == k \in Holding /\ call[k].at = s
HoldsLevel(k, w, i) == k \in Holding /\ call[k].wh = w /\ LineOf[call[k].at] = i
HoldsLine(k, i) == k \in Holding /\ call[k].at \in Linked /\ LineOf[call[k].at] = i

FreeFor(k, s, w) ==
  \A j \in Clerk \ {k} :
    /\ ~HoldsShipment(j, s)
    /\ ~HoldsLevel(j, w, LineOf[s])
    /\ ~(s \in Linked /\ HoldsLine(j, LineOf[s]))

\* COALESCE(approved_qty, requested_qty).
Due(i) == IF line[i].approved = Unset THEN Requested[i] ELSE line[i].approved

\* Mutant: the lines are counted before the arrival is added to them.
AllReceivedBefore(s) == \A i \in OrderItem : line[i].received >= Due(i)

\* TransferOrderItemRepo.AllReceived inside a Receive of s: the committed lines and
\* the one this call has added to.
AllReceived(s) ==
  \A i \in OrderItem :
    line[i].received + (IF i = LineOf[s] THEN shipped[s] ELSE 0) >= Due(i)

\* ShipmentService.transitionLinkedBTO: a no-op at the target, else an edge.
MayMoveBTO(from, to) == from = to \/ to \in BTOEdges[from]

\* What a shipment call makes of the order status it read.
OrderAllows(c) ==
  IF c.to = "in_transit" THEN MayMoveBTO(c.order, "shipped")
                         ELSE c.all => MayMoveBTO(c.order, "received")

OrderAfter(c) ==
  IF c.to = "in_transit" THEN "shipped" ELSE IF c.all THEN "closed" ELSE bto

\* GREATEST(0, n).
Clamp(n) == IF n > 0 THEN n ELSE 0

Done(k) == call' = [call EXCEPT ![k] = Idle]

-----------------------------------------------------------------------------
(* The transfer order.                                                     *)

\* TransferOrderService.Create.
CreateOrder ==
  /\ bto = "none"
  /\ bto' = "draft"
  /\ UNCHANGED <<line, crossed, stockVars, shipVars, call, skewed>>

\* Submit, Approve, Reject, Cancel and Fulfil read the order without a lock.
ReadOrder(k, to) ==
  /\ call[k] = Idle
  /\ to \in BTOEdges[bto] \ {"shipped", "received", "closed"}
  /\ call' = [call EXCEPT ![k] = [phase |-> "order", to |-> to, saw |-> bto]]
  /\ UNCHANGED <<orderVars, stockVars, shipVars, skewed>>

\* Approve sets the quantities of the lines it is given, Unset for the others.
Approve(qtys) ==
  line' = [i \in OrderItem |->
             IF qtys[i] = Unset THEN line[i] ELSE [line[i] EXCEPT !.approved = qtys[i]]]

\* TransferOrderRepo.UpdateStatus: by id, whatever the status has become.
WriteOrder(k) ==
  /\ call[k].phase = "order"
  /\ IF call[k].to = "approved"
       THEN /\ \A j \in Clerk, i \in OrderItem : ~HoldsLine(j, i)
            /\ \E qtys \in [OrderItem -> Approvals \cup {Unset}] : Approve(qtys)
       ELSE UNCHANGED line
  /\ bto' = call[k].to
  /\ crossed' = (crossed \/ bto # call[k].saw)
  /\ Done(k)
  /\ UNCHANGED <<stockVars, shipVars, skewed>>

-----------------------------------------------------------------------------
(* Shipments.                                                              *)

\* ShipmentService.Create: the status of the order it names is not looked at.
CreateShipment(s) ==
  /\ ship[s] = "none"
  /\ s \in Linked => bto # "none"
  /\ ship' = [ship EXCEPT ![s] = "draft"]
  /\ UNCHANGED <<orderVars, stockVars, shipped, raced, stale, call, skewed>>

\* Mutant: the edge of a Receive is not checked.
ReadShipmentUnchecked(k, s, to) ==
  /\ call[k] = Idle
  /\ to \in ShipmentEdges[ship[s]] \/ (to = "received" /\ ship[s] = "received")
  /\ call' = [call EXCEPT ![k] = [phase |-> "read", to |-> to, at |-> s, saw |-> ship[s]]]
  /\ UNCHANGED <<orderVars, stockVars, shipVars, skewed>>

\* Approve, Advance, Receive and Cancel read the shipment without a lock.
ReadShipment(k, s, to) ==
  /\ call[k] = Idle
  /\ to \in ShipmentEdges[ship[s]]
  /\ call' = [call EXCEPT ![k] = [phase |-> "read", to |-> to, at |-> s, saw |-> ship[s]]]
  /\ UNCHANGED <<orderVars, stockVars, shipVars, skewed>>

\* ShipmentRepo.UpdateStatus: by id, whatever the status has become.
SetStatus(k, s) ==
  /\ ship' = [ship EXCEPT ![s] = call[k].to]
  /\ raced' = IF ship[s] = call[k].saw THEN raced ELSE raced \cup {s}

\* Approve and Cancel end here.
WriteShipment(k) ==
  /\ call[k].phase = "read" /\ call[k].to \in {"approved", "cancelled"}
  /\ \A j \in Clerk : ~HoldsShipment(j, call[k].at)
  /\ SetStatus(k, call[k].at)
  /\ Done(k)
  /\ UNCHANGED <<orderVars, stockVars, shipped, stale, skewed>>

\* Mutant: no availability guard.
LookAway(k) ==
  /\ call[k].phase = "read" /\ call[k].to = "in_transit"
  /\ LET s == call[k].at
         had == onHand[From[s]][LineOf[s]]
     IN call' = [call EXCEPT ![k] =
                   [phase |-> "looked", to |-> "in_transit", at |-> s,
                    saw |-> call[k].saw, had |-> had]]
  /\ UNCHANGED <<orderVars, stockVars, shipVars, skewed>>

\* Advance: the availability guard reads the level without a lock.
Look(k) ==
  /\ call[k].phase = "read" /\ call[k].to = "in_transit"
  /\ LET s == call[k].at
         had == onHand[From[s]][LineOf[s]]
     IN /\ had >= Qty[s]
        /\ call' = [call EXCEPT ![k] =
                      [phase |-> "looked", to |-> "in_transit", at |-> s,
                       saw |-> call[k].saw, had |-> had]]
  /\ UNCHANGED <<orderVars, stockVars, shipVars, skewed>>

\* The movement, the level, the shipment's line and the order's line are written.
Write(k) ==
  /\ \/ call[k].phase = "looked"
     \/ call[k].phase = "read" /\ call[k].to = "received"
  /\ \E w \in Warehouse :
       LET s == call[k].at IN
       /\ call[k].to = "in_transit" => w = From[s]
       /\ FreeFor(k, s, w)
       /\ call' = [call EXCEPT ![k] =
                     [phase |-> "wrote", to |-> call[k].to, at |-> s, saw |-> call[k].saw,
                      wh |-> w]]
       /\ stale' = IF call[k].phase = "looked" /\ onHand[w][LineOf[s]] # call[k].had
                     THEN stale \cup {LineOf[s]} ELSE stale
  /\ UNCHANGED <<orderVars, stockVars, ship, shipped, raced, skewed>>

\* transitionLinkedBTO reads the order, Receive having counted the lines first.
CountLines(k) ==
  /\ call[k].phase = "wrote" /\ call[k].at \in Linked
  /\ call' = [call EXCEPT ![k] =
                [phase |-> "counted", to |-> call[k].to, at |-> call[k].at,
                 saw |-> call[k].saw, wh |-> call[k].wh, order |-> bto,
                 all |-> call[k].to = "received" /\ AllReceived(call[k].at)]]
  /\ skewed' = (skewed \/ (/\ call[k].to = "received"
                           /\ \E j \in Holding \ {k} :
                                call[j].to = "received" /\ call[j].at \in Linked))
  /\ UNCHANGED <<orderVars, stockVars, shipVars>>

\* AdjustOnHand: the level moves on from what it is now, and never below zero.
MoveStock(w, i, delta) ==
  onHand' = [onHand EXCEPT ![w][i] = Clamp(@ + delta)]

\* What an Advance publishes: movement and level, shipped_qty, the order's copy.
ShipOut(k, s) ==
  /\ MoveStock(From[s], LineOf[s], -Qty[s])
  /\ shipped' = [shipped EXCEPT ![s] = Qty[s]]
  /\ line' = IF s \in Linked
               THEN [line EXCEPT ![LineOf[s]].shipped = @ + Qty[s]] ELSE line

\* What a Receive publishes.
BookIn(k, s) ==
  /\ MoveStock(call[k].wh, LineOf[s], shipped[s])
  /\ line' = IF s \in Linked
               THEN [line EXCEPT ![LineOf[s]].received = @ + shipped[s]] ELSE line
  /\ UNCHANGED shipped

\* Advance and Receive commit: stock, both documents and the order at once.
CommitShipment(k) ==
  LET c == call[k]
      s == c.at
  IN /\ \/ c.phase = "wrote" /\ s \notin Linked /\ UNCHANGED <<bto, crossed>>
        \/ /\ c.phase = "counted" /\ OrderAllows(c)
           /\ bto' = OrderAfter(c)
           /\ crossed' = (crossed \/ (OrderAfter(c) # bto /\ bto # c.order))
     /\ IF c.to = "in_transit" THEN ShipOut(k, s) ELSE BookIn(k, s)
     /\ SetStatus(k, s)
     /\ Done(k)
     /\ UNCHANGED <<reserved, recorded, net, stale, skewed>>

\* The level is short, or the order has no edge for this event: all of it rolls back.
Refuse(k) ==
  /\ \/ /\ call[k].phase = "read" /\ call[k].to = "in_transit"
        /\ onHand[From[call[k].at]][LineOf[call[k].at]] < Qty[call[k].at]
     \/ call[k].phase = "counted" /\ ~OrderAllows(call[k])
  /\ Done(k)
  /\ UNCHANGED <<orderVars, stockVars, shipVars, skewed>>

-----------------------------------------------------------------------------
(* Movements recorded by hand.                                             *)

OnHandTypes == {"in", "out", "adjust", "transfer"}

\* signedDelta.
SignedDelta(m) == IF m.type \in {"out", "reserve", "transfer"} THEN -m.qty ELSE m.qty

\* InventoryService.RecordMovement: the ledger row and the level it changes.
RecordMovement(m) ==
  /\ m \notin recorded
  /\ \A k \in Clerk : ~HoldsLevel(k, m.wh, m.item)
  /\ recorded' = recorded \cup {m}
  /\ IF m.type \in OnHandTypes
       THEN /\ MoveStock(m.wh, m.item, SignedDelta(m))
            /\ net' = [net EXCEPT ![m.item] = @ + onHand'[m.wh][m.item] - onHand[m.wh][m.item]]
            /\ UNCHANGED reserved
       ELSE /\ reserved' = [reserved EXCEPT ![m.wh][m.item] = Clamp(@ + SignedDelta(m))]
            /\ UNCHANGED <<onHand, net>>
  /\ UNCHANGED <<orderVars, shipVars, call, skewed>>

-----------------------------------------------------------------------------
Next ==
  \/ CreateOrder
  \/ \E s \in Shipment : CreateShipment(s)
  \/ \E m \in Hand : RecordMovement(m)
  \/ \E k \in Clerk :
       \/ \E to \in BTOStatus : ReadOrder(k, to)
       \/ \E s \in Shipment, to \in ShipmentStatus : ReadShipment(k, s, to)
       \/ WriteOrder(k)
       \/ WriteShipment(k)
       \/ Look(k)
       \/ Write(k)
       \/ CountLines(k)
       \/ CommitShipment(k)
       \/ Refuse(k)

Spec == Init /\ [][Next]_vars

-----------------------------------------------------------------------------
(* Properties.                                                             *)

OnTheRoad(i) == {s \in Shipment : ship[s] = "in_transit" /\ LineOf[s] = i}

\* What lies in all warehouses, and what is on the road.
Stored(i) == SumFunctionOnSet([w \in Warehouse |-> onHand[w][i]], Warehouse)

Travelling(i) == SumFunctionOnSet(shipped, OnTheRoad(i))

Opened(i) == SumFunctionOnSet([w \in Warehouse |-> Opening[w][i]], Warehouse)

\* Goods are neither made nor lost on the way: what lies in the warehouses and what
\* is on the road adds up to the opening stock and the hand movements, for every
\* item that was not shipped on an outdated level and whose shipments were never
\* overwritten by a call that had read an older status.
StockIsConserved ==
  \A i \in StockItem :
    i \in stale \/ (\E s \in raced : LineOf[s] = i)
      \/ Stored(i) + Travelling(i) = Opened(i) + net[i]

\* What the shipments of an order line carry that are in one of the statuses.
Carried(i, statuses) ==
  SumFunctionOnSet(shipped, {s \in Linked : LineOf[s] = i /\ ship[s] \in statuses})

\* The quantities copied onto the order are those of its shipments.
OrderCountsAgree ==
  \A i \in OrderItem :
    \/ \E s \in raced : LineOf[s] = i
    \/ /\ line[i].shipped = Carried(i, {"in_transit", "received"})
       /\ line[i].received = Carried(i, {"received"})

\* Goods travel for live orders only: no order was cancelled, rejected or still
\* unapproved when its goods left, unless calls overwrote its status unseen.
GoodsMoveForLiveOrders ==
  \A s \in Linked :
    ship[s] \in {"in_transit", "received"} =>
      bto \in {"shipped", "received", "closed"} \/ crossed

\* A closed order has been delivered in full.
ClosedMeansReceived ==
  bto \in {"received", "closed"} =>
    crossed \/ \A i \in OrderItem : line[i].received >= Due(i)

\* An order that has been delivered in full, with nothing left on the road, is
\* closed; it stays "shipped" for good only when two arrivals counted the lines
\* without each other's, or a status was overwritten unseen.
DeliveredOrdersClose ==
  bto = "shipped" /\ (\A i \in OrderItem : line[i].received >= Due(i))
    /\ (\A s \in Linked : ship[s] # "in_transit")
  => skewed \/ crossed \/ raced \cap Linked # {}

\* Receive closes an order when, and only when, it has been delivered in full.
OrdersCloseOnDelivery == ClosedMeansReceived /\ DeliveredOrdersClose

\* The order never keeps a shipment from arriving: "subsequent shipments for the
\* same BTO reaching the same shipment-side event must NOT be treated as an invalid
\* re-transition".
ArrivalsAreNotRefused ==
  \A k \in Clerk :
    call[k].phase = "counted" /\ call[k].to = "received" => OrderAllows(call[k]) \/ crossed
=============================================================================
