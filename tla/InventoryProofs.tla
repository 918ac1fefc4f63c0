-------------------------- MODULE InventoryProofs --------------------------
(***************************************************************************)
(* Proofs about Inventory for any warehouses, items, shipments, order,     *)
(* clerks and quantities: the types, the three properties that tie the     *)
(* order to its shipments, and the two sums: goods are neither made nor    *)
(* lost, and the order's copies are those of its shipments.                *)
(***************************************************************************)
EXTENDS Inventory, Sums, TLAPS

\* Statuses an order has only once goods have left for it.
Moving == {"shipped", "received", "closed"}

\* What has been shipped is the requested quantity, and it was shipped for a live
\* order.
ShippedForLive ==
  /\ \A s \in Shipment : shipped[s] \in {0, Qty[s]}
  /\ \A s \in Shipment : ship[s] \in {"in_transit", "received"} => shipped[s] = Qty[s]
  /\ (\E s \in Linked : shipped[s] # 0) => bto \in Moving \/ crossed

\* A call moves its row along an edge of the status it read.
CallsFollowEdges ==
  \A k \in Clerk :
    /\ call[k].phase = "order" => call[k].to \in BTOEdges[call[k].saw] \ Moving
    /\ call[k].phase \in {"read", "looked", "wrote", "counted"} =>
         call[k].to \in ShipmentEdges[call[k].saw]
    /\ call[k].phase \in {"wrote", "counted"} => call[k].to \in {"in_transit", "received"}
    /\ call[k].phase \in {"read", "wrote", "counted"} /\ call[k].to = "received" =>
         shipped[call[k].at] = Qty[call[k].at]

\* The arrivals of the order that have counted its lines.
Counted == {k \in Clerk : call[k].phase = "counted" /\ call[k].to = "received"}

\* A count stays true while its call holds one of the lines, unless another arrival
\* counted at the same time; then skewed says so.
CountsHold ==
  /\ \A k \in Clerk : call[k].phase = "counted" => call[k].at \in Linked
  /\ \A k \in Counted : call[k].all => AllReceived(call[k].at)
  /\ \A k \in Counted : ~call[k].all => skewed \/ ~AllReceived(call[k].at)
  /\ \A j, k \in Counted : j # k => skewed

\* The inductive invariant.
InventoryInv ==
  /\ TypeOK
  /\ ShippedForLive
  /\ CallsFollowEdges
  /\ CountsHold
  /\ ClosedMeansReceived
  /\ DeliveredOrdersClose

-----------------------------------------------------------------------------
(* Types.                                                                  *)

\* The calls by how far they have come; they carry what they read on the way.
ReadCall == [phase : {"read"}, to : ShipmentStatus, at : Shipment, saw : ShipmentStatus]
LookedCall ==
  [phase : {"looked"}, to : {"in_transit"}, at : Shipment, saw : ShipmentStatus, had : Nat]
WroteCall ==
  [phase : {"wrote"}, to : {"in_transit", "received"}, at : Shipment, saw : ShipmentStatus,
   wh : Warehouse]
CountedCall ==
  [phase : {"counted"}, to : {"in_transit", "received"}, at : Shipment, saw : ShipmentStatus,
   wh : Warehouse, order : BTOStatus, all : BOOLEAN]

\* A call's phase tells what it carries.
LEMMA CallShape ==
  ASSUME TypeOK, NEW k \in Clerk
  PROVE  /\ call[k].phase \in {"idle", "order", "read", "looked", "wrote", "counted"}
         /\ call[k].phase = "idle" => call[k] = Idle
         /\ call[k].phase = "order" => call[k] \in OrderCall
         /\ call[k].phase = "read" => call[k] \in ReadCall
         /\ call[k].phase = "looked" => call[k] \in LookedCall
         /\ call[k].phase = "wrote" => call[k] \in WroteCall
         /\ call[k].phase = "counted" => call[k] \in CountedCall
<1>1. call[k] \in {Idle} \cup OrderCall \cup ShipmentCall
  BY DEF TypeOK
<1>2. CASE call[k] = Idle
  BY <1>2 DEF Idle
<1>3. CASE call[k] \in OrderCall
  BY <1>3 DEF OrderCall
<1>4. CASE call[k] \in ReadCall
  BY <1>4 DEF ReadCall
<1>5. CASE call[k] \in LookedCall
  BY <1>5 DEF LookedCall
<1>6. CASE call[k] \in WroteCall
  BY <1>6 DEF WroteCall
<1>7. CASE call[k] \in CountedCall
  BY <1>7 DEF CountedCall
<1>8. ShipmentCall = ReadCall \cup LookedCall \cup WroteCall \cup CountedCall
  BY DEF ShipmentCall, ReadCall, LookedCall, WroteCall, CountedCall
<1> QED BY <1>1, <1>2, <1>3, <1>4, <1>5, <1>6, <1>7, <1>8

\* The changes the operations make to an order line keep it one.
LEMMA LineChanges ==
  ASSUME NEW x \in Line, NEW n \in Nat
  PROVE  /\ [x EXCEPT !.approved = n] \in Line
         /\ [x EXCEPT !.shipped = @ + n] \in Line
         /\ [x EXCEPT !.received = @ + n] \in Line
<1> DEFINE A == Nat \cup {Unset}
<1> HIDE DEF A
<1>1. Line = [approved : A, shipped : Nat, received : Nat] /\ n \in A
  BY DEF Line, A
<1>2. x.shipped + n \in Nat /\ x.received + n \in Nat
  BY <1>1
<1> QED BY <1>1, <1>2

\* The initial state is well typed,
LEMMA InitTypes == Init => TypeOK
<1> SUFFICES ASSUME Init PROVE TypeOK
  OBVIOUS
<1>1. [approved |-> Unset, shipped |-> 0, received |-> 0] \in Line
  BY DEF Line
<1>2. line \in [OrderItem -> Line]
  BY <1>1 DEF Init
<1>3. bto \in BTOStatus /\ ship \in [Shipment -> ShipmentStatus]
  BY DEF Init, BTOStatus, ShipmentStatus
<1>4. call \in [Clerk -> {Idle} \cup OrderCall \cup ShipmentCall]
  BY DEF Init
<1>5. shipped \in [Shipment -> Nat] /\ net \in [StockItem -> Int]
  BY DEF Init
<1>6. reserved \in [Warehouse -> [StockItem -> Nat]] /\ onHand \in [Warehouse -> [StockItem -> Nat]]
  BY InventoryAssumption DEF Init
<1> QED BY <1>2, <1>3, <1>4, <1>5, <1>6 DEF Init, TypeOK

\* A call that ends leaves the others as they were.
LEMMA DoneTypes ==
  ASSUME TypeOK, NEW k \in Clerk, Done(k)
  PROVE  call' \in [Clerk -> {Idle} \cup OrderCall \cup ShipmentCall]
BY DEF TypeOK, Done

\* Stock moves within the naturals.
LEMMA StockTypes ==
  ASSUME TypeOK, NEW w \in Warehouse, NEW i \in StockItem, NEW d \in Int, MoveStock(w, i, d)
  PROVE  onHand' \in [Warehouse -> [StockItem -> Nat]]
<1>1. Clamp(onHand[w][i] + d) \in Nat
  BY DEF TypeOK, Clamp
<1> QED BY <1>1 DEF TypeOK, MoveStock

\* and every step keeps the types.
LEMMA TypesKept ==
  ASSUME TypeOK, [Next]_vars
  PROVE  TypeOK'
<1> USE InventoryAssumption
<1>1. CASE CreateOrder
  BY <1>1 DEF TypeOK, CreateOrder, BTOStatus, stockVars, shipVars
<1>2. ASSUME NEW s \in Shipment, CreateShipment(s) PROVE TypeOK'
  BY <1>2 DEF TypeOK, CreateShipment, ShipmentStatus, stockVars, orderVars
<1>3. ASSUME NEW m \in Hand, RecordMovement(m) PROVE TypeOK'
  <2>1. m.wh \in Warehouse /\ m.item \in StockItem /\ m.qty \in Int
    OBVIOUS
  <2>2. SignedDelta(m) \in Int
    BY <2>1 DEF SignedDelta
  <2>3. CASE m.type \in OnHandTypes
    <3>1. onHand' \in [Warehouse -> [StockItem -> Nat]]
      BY <1>3, <2>1, <2>2, <2>3, StockTypes DEF RecordMovement
    <3>2. net' \in [StockItem -> Int]
      BY <1>3, <2>1, <2>3, <3>1 DEF RecordMovement, TypeOK
    <3> QED BY <1>3, <2>3, <3>1, <3>2 DEF RecordMovement, TypeOK, orderVars, shipVars
  <2>4. CASE m.type \notin OnHandTypes
    <3> DEFINE n == Clamp(reserved[m.wh][m.item] + SignedDelta(m))
    <3>1. n \in Nat
      BY <2>1, <2>2 DEF TypeOK, Clamp
    <3>2. reserved' = [reserved EXCEPT ![m.wh][m.item] = n]
      BY <1>3, <2>4 DEF RecordMovement
    <3> HIDE DEF n
    <3>3. reserved' \in [Warehouse -> [StockItem -> Nat]]
      BY <2>1, <3>1, <3>2 DEF TypeOK
    <3> QED BY <1>3, <2>4, <3>3 DEF RecordMovement, TypeOK, orderVars, shipVars
  <2> QED BY <2>3, <2>4
<1>4. ASSUME NEW k \in Clerk, NEW to \in BTOStatus, ReadOrder(k, to) PROVE TypeOK'
  <2>1. to \in {"submitted", "approved", "rejected", "cancelled", "fulfilling"}
    BY <1>4 DEF ReadOrder, BTOEdges, TypeOK
  <2>2. [phase |-> "order", to |-> to, saw |-> bto] \in OrderCall
    BY <2>1 DEF OrderCall, TypeOK
  <2> QED BY <1>4, <2>2 DEF ReadOrder, TypeOK, orderVars, stockVars, shipVars
<1>5. ASSUME NEW k \in Clerk, NEW s \in Shipment, NEW to \in ShipmentStatus,
             ReadShipment(k, s, to)
      PROVE TypeOK'
  <2>1. [phase |-> "read", to |-> to, at |-> s, saw |-> ship[s]] \in ShipmentCall
    BY DEF ShipmentCall, TypeOK
  <2> QED BY <1>5, <2>1 DEF ReadShipment, TypeOK, orderVars, stockVars, shipVars
<1>6. ASSUME NEW k \in Clerk, WriteOrder(k) PROVE TypeOK'
  <2>1. call[k] \in OrderCall
    BY <1>6, CallShape DEF WriteOrder
  <2>2. line' \in [OrderItem -> Line]
    <3>1. CASE call[k].to = "approved"
      <4>1. PICK qtys \in [OrderItem -> Approvals \cup {Unset}] : Approve(qtys)
        BY <1>6, <3>1 DEF WriteOrder
      <4>2. ASSUME NEW i \in OrderItem, qtys[i] # Unset
            PROVE [line[i] EXCEPT !.approved = qtys[i]] \in Line
        <5>1. qtys[i] \in Nat /\ line[i] \in Line
          BY <4>2 DEF TypeOK
        <5> QED BY <5>1, LineChanges
      <4> QED BY <4>1, <4>2 DEF Approve, TypeOK
    <3> QED BY <1>6, <3>1 DEF WriteOrder, TypeOK
  <2>3. bto' \in BTOStatus /\ crossed' \in BOOLEAN
    BY <1>6, <2>1 DEF WriteOrder, OrderCall, BTOStatus, TypeOK
  <2>4. call' \in [Clerk -> {Idle} \cup OrderCall \cup ShipmentCall]
    BY <1>6, DoneTypes DEF WriteOrder
  <2> QED BY <1>6, <2>2, <2>3, <2>4 DEF WriteOrder, TypeOK, stockVars, shipVars
<1>7. ASSUME NEW k \in Clerk, WriteShipment(k) PROVE TypeOK'
  <2>1. call[k] \in ReadCall
    BY <1>7, CallShape DEF WriteShipment
  <2>2. call' \in [Clerk -> {Idle} \cup OrderCall \cup ShipmentCall]
    BY <1>7, DoneTypes DEF WriteShipment
  <2>3. ship' \in [Shipment -> ShipmentStatus] /\ raced' \subseteq Shipment
    BY <1>7, <2>1 DEF WriteShipment, SetStatus, ReadCall, TypeOK
  <2> QED BY <1>7, <2>2, <2>3 DEF WriteShipment, TypeOK, stockVars, orderVars
<1>8. ASSUME NEW k \in Clerk, Look(k) PROVE TypeOK'
  <2>1. call[k] \in ReadCall
    BY <1>8, CallShape DEF Look
  <2> DEFINE s == call[k].at
             c == [phase |-> "looked", to |-> "in_transit", at |-> s, saw |-> call[k].saw,
                   had |-> onHand[From[s]][LineOf[s]]]
  <2>2. c \in ShipmentCall
    BY <2>1 DEF ShipmentCall, ReadCall, TypeOK
  <2>3. call' = [call EXCEPT ![k] = c]
    BY <1>8 DEF Look
  <2> HIDE DEF c
  <2> QED BY <1>8, <2>2, <2>3 DEF Look, TypeOK, orderVars, stockVars, shipVars
<1>9. ASSUME NEW k \in Clerk, Write(k) PROVE TypeOK'
  <2>1. call[k] \in LookedCall \/ (call[k] \in ReadCall /\ call[k].to = "received")
    BY <1>9, CallShape DEF Write
  <2>2. PICK w \in Warehouse :
          /\ call' = [call EXCEPT ![k] =
                        [phase |-> "wrote", to |-> call[k].to, at |-> call[k].at,
                         saw |-> call[k].saw, wh |-> w]]
          /\ stale' = IF call[k].phase = "looked" /\ onHand[w][LineOf[call[k].at]] # call[k].had
                        THEN stale \cup {LineOf[call[k].at]} ELSE stale
    BY <1>9 DEF Write
  <2>3. [phase |-> "wrote", to |-> call[k].to, at |-> call[k].at, saw |-> call[k].saw,
         wh |-> w] \in ShipmentCall
    BY <2>1 DEF ShipmentCall, LookedCall, ReadCall
  <2>4. LineOf[call[k].at] \in StockItem
    BY <2>1 DEF LookedCall, ReadCall
  <2> QED BY <1>9, <2>2, <2>3, <2>4 DEF Write, TypeOK, orderVars, stockVars
<1>10. ASSUME NEW k \in Clerk, CountLines(k) PROVE TypeOK'
  <2>1. call[k] \in WroteCall
    BY <1>10, CallShape DEF CountLines
  <2> DEFINE c == [phase |-> "counted", to |-> call[k].to, at |-> call[k].at,
                   saw |-> call[k].saw, wh |-> call[k].wh, order |-> bto,
                   all |-> call[k].to = "received" /\ AllReceived(call[k].at)]
  <2>2. (call[k].to = "received" /\ AllReceived(call[k].at)) \in BOOLEAN
    OBVIOUS
  <2>3. c \in ShipmentCall
    BY <2>1, <2>2 DEF ShipmentCall, WroteCall, TypeOK
  <2>4. call' = [call EXCEPT ![k] = c] /\ skewed' \in BOOLEAN
    BY <1>10 DEF CountLines, TypeOK
  <2> HIDE DEF c
  <2> QED BY <1>10, <2>3, <2>4 DEF CountLines, TypeOK, orderVars, stockVars, shipVars
<1>11. ASSUME NEW k \in Clerk, CommitShipment(k) PROVE TypeOK'
  <2> DEFINE s == call[k].at
  <2>1. call[k] \in WroteCall \/ call[k] \in CountedCall
    BY <1>11, CallShape DEF CommitShipment
  <2>2. /\ s \in Shipment /\ call[k].wh \in Warehouse /\ call[k].to \in ShipmentStatus
        /\ s \in Linked => LineOf[s] \in OrderItem
    BY <2>1 DEF WroteCall, CountedCall, ShipmentStatus
  <2>3. bto' \in BTOStatus /\ crossed' \in BOOLEAN
    BY <1>11 DEF CommitShipment, OrderAfter, BTOStatus, TypeOK
  <2>4. /\ onHand' \in [Warehouse -> [StockItem -> Nat]]
        /\ shipped' \in [Shipment -> Nat]
        /\ line' \in [OrderItem -> Line]
    <3>1. CASE call[k].to = "in_transit"
      <4>1. ShipOut(k, s)
        BY <1>11, <3>1 DEF CommitShipment
      <4>2. -Qty[s] \in Int /\ From[s] \in Warehouse /\ LineOf[s] \in StockItem
        BY <2>2
      <4>3. onHand' \in [Warehouse -> [StockItem -> Nat]]
        BY <4>1, <4>2, StockTypes DEF ShipOut
      <4>4. ASSUME s \in Linked
            PROVE [line[LineOf[s]] EXCEPT !.shipped = @ + Qty[s]] \in Line
        <5>1. line[LineOf[s]] \in Line /\ shipped[s] \in Nat /\ Qty[s] \in Nat
          BY <2>2, <4>4 DEF TypeOK
        <5> QED BY <5>1, LineChanges
      <4> QED BY <2>2, <4>1, <4>3, <4>4 DEF ShipOut, TypeOK
    <3>2. CASE call[k].to # "in_transit"
      <4>1. BookIn(k, s)
        BY <1>11, <3>2 DEF CommitShipment
      <4>2. shipped[s] \in Int /\ LineOf[s] \in StockItem
        BY <2>2 DEF TypeOK
      <4>3. onHand' \in [Warehouse -> [StockItem -> Nat]]
        BY <2>2, <4>1, <4>2, StockTypes DEF BookIn
      <4>4. ASSUME s \in Linked
            PROVE [line[LineOf[s]] EXCEPT !.received = @ + shipped[s]] \in Line
        <5>1. line[LineOf[s]] \in Line /\ shipped[s] \in Nat /\ Qty[s] \in Nat
          BY <2>2, <4>4 DEF TypeOK
        <5> QED BY <5>1, LineChanges
      <4> QED BY <2>2, <4>1, <4>3, <4>4 DEF BookIn, TypeOK
    <3> QED BY <3>1, <3>2
  <2>5. ship' \in [Shipment -> ShipmentStatus] /\ raced' \subseteq Shipment
    BY <1>11, <2>2 DEF CommitShipment, SetStatus, TypeOK
  <2>6. call' \in [Clerk -> {Idle} \cup OrderCall \cup ShipmentCall]
    BY <1>11, DoneTypes DEF CommitShipment
  <2> QED BY <1>11, <2>3, <2>4, <2>5, <2>6 DEF CommitShipment, TypeOK
<1>12. ASSUME NEW k \in Clerk, Refuse(k) PROVE TypeOK'
  BY <1>12, DoneTypes DEF Refuse, TypeOK, orderVars, stockVars, shipVars
<1>13. CASE UNCHANGED vars
  BY <1>13 DEF TypeOK, vars, orderVars, stockVars, shipVars
<1> QED
  BY <1>1, <1>2, <1>3, <1>4, <1>5, <1>6, <1>7, <1>8, <1>9, <1>10, <1>11, <1>12, <1>13 DEF Next

-----------------------------------------------------------------------------
(* The inductive invariant, part by part.                                  *)

\* The steps that touch neither document's status nor a quantity on them.
Quiet ==
  \/ \E m \in Hand : RecordMovement(m)
  \/ \E k \in Clerk :
       \/ \E to \in BTOStatus : ReadOrder(k, to)
       \/ \E s \in Shipment, to \in ShipmentStatus : ReadShipment(k, s, to)
       \/ Look(k) \/ Write(k) \/ CountLines(k) \/ Refuse(k)
  \/ UNCHANGED vars

\* Steps that leave the order and the status of every shipment alone.
LEMMA QuietSteps ==
  ASSUME Quiet
  PROVE  UNCHANGED <<orderVars, ship, shipped, raced>>
BY DEF Quiet, RecordMovement, ReadOrder, ReadShipment, Look, Write, CountLines, Refuse, vars,
       orderVars, shipVars

\* A quantity is shipped once, in full, for a live order.
LEMMA ShippedKept ==
  ASSUME InventoryInv, [Next]_vars
  PROVE  ShippedForLive'
<1> USE InventoryAssumption DEF InventoryInv
<1>1. CASE Quiet
  BY <1>1, QuietSteps DEF ShippedForLive, orderVars
<1>2. CASE CreateOrder
  BY <1>2 DEF CreateOrder, ShippedForLive, Moving, shipVars
<1>3. ASSUME NEW s \in Shipment, CreateShipment(s) PROVE ShippedForLive'
  BY <1>3 DEF CreateShipment, ShippedForLive, orderVars, TypeOK
<1>4. ASSUME NEW k \in Clerk, WriteOrder(k) PROVE ShippedForLive'
  <2>1. call[k] \in OrderCall /\ call[k].to \in BTOEdges[call[k].saw] \ Moving
    BY <1>4, CallShape DEF WriteOrder, CallsFollowEdges
  <2>2. bto = call[k].saw => bto \notin Moving
    BY <2>1 DEF BTOEdges, Moving, TypeOK
  <2>3. bto # call[k].saw => crossed'
    BY <1>4 DEF WriteOrder
  <2>4. UNCHANGED <<ship, shipped>> /\ (crossed => crossed')
    BY <1>4 DEF WriteOrder, shipVars
  <2> QED BY <2>2, <2>3, <2>4 DEF ShippedForLive
<1>5. ASSUME NEW k \in Clerk, WriteShipment(k) PROVE ShippedForLive'
  BY <1>5 DEF WriteShipment, SetStatus, ShippedForLive, orderVars, TypeOK
<1>6. ASSUME NEW k \in Clerk, CommitShipment(k) PROVE ShippedForLive'
  <2> DEFINE s == call[k].at
  <2>1. call[k] \in WroteCall \/ call[k] \in CountedCall
    BY <1>6, CallShape DEF CommitShipment
  <2>2. s \in Shipment /\ call[k].to \in {"in_transit", "received"}
    BY <2>1 DEF WroteCall, CountedCall
  <2>3. ship' = [ship EXCEPT ![s] = call[k].to]
    BY <1>6 DEF CommitShipment, SetStatus
  <2>4. shipped' = [shipped EXCEPT ![s] = Qty[s]]
    <3>1. CASE call[k].to = "in_transit"
      BY <1>6, <3>1 DEF CommitShipment, ShipOut
    <3>2. CASE call[k].to = "received"
      <4>1. shipped' = shipped
        BY <1>6, <3>2 DEF CommitShipment, BookIn
      <4>2. shipped[s] = Qty[s]
        BY <2>1, <3>2 DEF CallsFollowEdges, WroteCall, CountedCall
      <4> QED BY <2>2, <4>1, <4>2 DEF TypeOK
    <3> QED BY <2>2, <3>1, <3>2
  <2>5. (\E z \in Linked : shipped'[z] # 0) => bto' \in Moving \/ crossed'
    <3>1. CASE s \notin Linked
      <4>1. UNCHANGED <<bto, crossed>>
        BY <1>6, <3>1 DEF CommitShipment, CountsHold
      <4> QED BY <2>2, <2>4, <3>1, <4>1 DEF ShippedForLive, TypeOK
    <3>2. CASE s \in Linked /\ call[k].to = "in_transit"
      BY <1>6, <3>2 DEF CommitShipment, OrderAfter, Moving
    <3>3. CASE s \in Linked /\ call[k].to = "received"
      <4>1. shipped[s] # 0
        BY <2>1, <3>3 DEF CallsFollowEdges, WroteCall, CountedCall
      <4>2. bto \in Moving \/ crossed
        BY <3>3, <4>1 DEF ShippedForLive
      <4> QED BY <1>6, <3>3, <4>2 DEF CommitShipment, OrderAfter, Moving
    <3> QED BY <2>2, <3>1, <3>2, <3>3
  <2> QED BY <2>2, <2>3, <2>4, <2>5 DEF ShippedForLive, TypeOK
<1> QED BY <1>1, <1>2, <1>3, <1>4, <1>5, <1>6 DEF Next, Quiet

\* What one call carries, and what the rows owe it.
FollowsEdges(c, sent) ==
  /\ c.phase = "order" => c.to \in BTOEdges[c.saw] \ Moving
  /\ c.phase \in {"read", "looked", "wrote", "counted"} => c.to \in ShipmentEdges[c.saw]
  /\ c.phase \in {"wrote", "counted"} => c.to \in {"in_transit", "received"}
  /\ c.phase \in {"read", "wrote", "counted"} /\ c.to = "received" => sent[c.at] = Qty[c.at]

\* A step that gives one clerk a call that follows edges keeps the part, since a
\* shipped quantity never leaves its requested value.
LEMMA OneCallChanges ==
  ASSUME TypeOK, ShippedForLive, CallsFollowEdges, NEW k \in Clerk, NEW STATE c,
         call' = [call EXCEPT ![k] = c], FollowsEdges(c, shipped'),
         \A s \in Shipment : shipped'[s] = shipped[s] \/ shipped'[s] = Qty[s]
  PROVE  CallsFollowEdges'
<1>1. ASSUME NEW j \in Clerk \ {k} PROVE FollowsEdges(call'[j], shipped')
  <2>1. call'[j] = call[j] /\ FollowsEdges(call[j], shipped)
    BY <1>1 DEF CallsFollowEdges, FollowsEdges, TypeOK
  <2>2. call[j].phase \in {"read", "wrote", "counted"} => call[j].at \in Shipment
    BY <1>1, CallShape DEF ReadCall, WroteCall, CountedCall
  <2> QED BY <2>1, <2>2 DEF FollowsEdges
<1>2. call'[k] = c
  BY DEF TypeOK
<1> QED BY <1>1, <1>2 DEF CallsFollowEdges, FollowsEdges

\* A call in progress keeps to the edges of the status it read.
LEMMA EdgesKept ==
  ASSUME InventoryInv, [Next]_vars
  PROVE  CallsFollowEdges'
<1> USE InventoryAssumption DEF InventoryInv
<1>1. CASE UNCHANGED <<call, shipped>>
  BY <1>1 DEF CallsFollowEdges
<1>2. ASSUME NEW k \in Clerk, Done(k),
             \A s \in Shipment : shipped'[s] = shipped[s] \/ shipped'[s] = Qty[s]
      PROVE CallsFollowEdges'
  <2>1. FollowsEdges(Idle, shipped')
    BY DEF FollowsEdges, Idle
  <2> QED BY <1>2, <2>1, OneCallChanges DEF Done
<1>3. ASSUME NEW k \in Clerk, NEW to \in BTOStatus, ReadOrder(k, to) PROVE CallsFollowEdges'
  <2> DEFINE c == [phase |-> "order", to |-> to, saw |-> bto]
  <2>1. FollowsEdges(c, shipped')
    BY <1>3 DEF ReadOrder, FollowsEdges, Moving
  <2>2. call' = [call EXCEPT ![k] = c] /\ shipped' = shipped
    BY <1>3 DEF ReadOrder, shipVars
  <2> QED BY <2>1, <2>2, OneCallChanges
<1>4. ASSUME NEW k \in Clerk, NEW s \in Shipment, NEW to \in ShipmentStatus,
             ReadShipment(k, s, to)
      PROVE CallsFollowEdges'
  <2> DEFINE c == [phase |-> "read", to |-> to, at |-> s, saw |-> ship[s]]
  <2>1. to = "received" => shipped[s] = Qty[s]
    BY <1>4 DEF ReadShipment, ShipmentEdges, ShippedForLive, TypeOK
  <2>2. call' = [call EXCEPT ![k] = c] /\ shipped' = shipped
    BY <1>4 DEF ReadShipment, shipVars
  <2>3. FollowsEdges(c, shipped')
    BY <1>4, <2>1, <2>2 DEF ReadShipment, FollowsEdges
  <2> QED BY <2>2, <2>3, OneCallChanges
<1>5. ASSUME NEW k \in Clerk, Look(k) PROVE CallsFollowEdges'
  <2> DEFINE s == call[k].at
             c == [phase |-> "looked", to |-> "in_transit", at |-> s, saw |-> call[k].saw,
                   had |-> onHand[From[s]][LineOf[s]]]
  <2>1. call' = [call EXCEPT ![k] = c] /\ shipped' = shipped
    BY <1>5 DEF Look, shipVars
  <2>2. "in_transit" \in ShipmentEdges[call[k].saw]
    BY <1>5 DEF Look, CallsFollowEdges
  <2>3. FollowsEdges(c, shipped')
    BY <2>2 DEF FollowsEdges
  <2> QED BY <2>1, <2>3, OneCallChanges
<1>6. ASSUME NEW k \in Clerk, Write(k) PROVE CallsFollowEdges'
  <2>1. call[k] \in LookedCall \/ (call[k] \in ReadCall /\ call[k].to = "received")
    BY <1>6, CallShape DEF Write
  <2>2. PICK w \in Warehouse :
          call' = [call EXCEPT ![k] =
                     [phase |-> "wrote", to |-> call[k].to, at |-> call[k].at,
                      saw |-> call[k].saw, wh |-> w]]
    BY <1>6 DEF Write
  <2>3. /\ call[k].to \in ShipmentEdges[call[k].saw]
        /\ call[k].to \in {"in_transit", "received"}
        /\ call[k].to = "received" => shipped[call[k].at] = Qty[call[k].at]
    BY <2>1 DEF CallsFollowEdges, LookedCall, ReadCall
  <2>4. shipped' = shipped
    BY <1>6 DEF Write
  <2>5. FollowsEdges([phase |-> "wrote", to |-> call[k].to, at |-> call[k].at,
                      saw |-> call[k].saw, wh |-> w], shipped')
    BY <2>3, <2>4 DEF FollowsEdges
  <2> QED BY <2>2, <2>4, <2>5, OneCallChanges
<1>7. ASSUME NEW k \in Clerk, CountLines(k) PROVE CallsFollowEdges'
  <2> DEFINE c == [phase |-> "counted", to |-> call[k].to, at |-> call[k].at,
                   saw |-> call[k].saw, wh |-> call[k].wh, order |-> bto,
                   all |-> call[k].to = "received" /\ AllReceived(call[k].at)]
  <2>1. call' = [call EXCEPT ![k] = c] /\ shipped' = shipped
    BY <1>7 DEF CountLines, shipVars
  <2>2. FollowsEdges(call[k], shipped) /\ call[k].phase = "wrote"
    BY <1>7 DEF CountLines, CallsFollowEdges, FollowsEdges
  <2>3. FollowsEdges(c, shipped')
    BY <2>1, <2>2 DEF FollowsEdges
  <2> QED BY <2>1, <2>3, OneCallChanges
<1>8. ASSUME NEW k \in Clerk, CommitShipment(k) PROVE CallsFollowEdges'
  <2>1. Done(k)
    BY <1>8 DEF CommitShipment
  <2>2. \A s \in Shipment : shipped'[s] = shipped[s] \/ shipped'[s] = Qty[s]
    BY <1>8 DEF CommitShipment, ShipOut, BookIn, TypeOK
  <2> QED BY <2>1, <2>2, <1>2
<1>9. ASSUME NEW k \in Clerk, WriteOrder(k) \/ WriteShipment(k) \/ Refuse(k)
      PROVE CallsFollowEdges'
  BY <1>2, <1>9 DEF WriteOrder, WriteShipment, Refuse, shipVars
<1>10. CreateOrder \/ (\E s \in Shipment : CreateShipment(s)) \/ (\E m \in Hand : RecordMovement(m))
         \/ UNCHANGED vars => UNCHANGED <<call, shipped>>
  BY DEF CreateOrder, CreateShipment, RecordMovement, vars, shipVars
<1> QED BY <1>1, <1>3, <1>4, <1>5, <1>6, <1>7, <1>8, <1>9, <1>10 DEF Next

\* A step that leaves the counting calls and what they counted alone.
LEMMA CountsUntouched ==
  ASSUME CountsHold, UNCHANGED <<line, shipped>>, skewed => skewed',
         \A k \in Clerk : call'[k].phase = "counted" => call'[k] = call[k]
  PROVE  CountsHold'
<1>1. Counted' \subseteq Counted
  BY DEF Counted
<1>2. \A s : AllReceived(s)' = AllReceived(s)
  BY DEF AllReceived, Due
<1>3. \A k \in Counted' : call'[k] = call[k]
  BY DEF Counted
<1> QED BY <1>1, <1>2, <1>3 DEF CountsHold, Counted

\* AllReceived of given rows.
Arrived(z, lines, sent) ==
  \A i \in OrderItem :
    lines[i].received + (IF i = LineOf[z] THEN sent[z] ELSE 0)
      >= IF lines[i].approved = Unset THEN Requested[i] ELSE lines[i].approved

\* What an arrival counted stays true while it holds a line.
LEMMA CountsKept ==
  ASSUME InventoryInv, [Next]_vars
  PROVE  CountsHold'
<1> USE InventoryAssumption DEF InventoryInv
<1>1. CASE CreateOrder \/ UNCHANGED vars \/ (\E s \in Shipment : CreateShipment(s))
             \/ (\E m \in Hand : RecordMovement(m))
  <2>1. UNCHANGED <<line, shipped, skewed, call>>
    BY <1>1 DEF CreateOrder, vars, CreateShipment, RecordMovement, orderVars, shipVars
  <2> QED BY <2>1, CountsUntouched
<1>2. ASSUME NEW k \in Clerk, Done(k), UNCHANGED <<line, shipped, skewed>> PROVE CountsHold'
  <2>1. \A j \in Clerk : call'[j].phase = "counted" => call'[j] = call[j]
    BY <1>2 DEF Done, Idle, TypeOK
  <2> QED BY <1>2, <2>1, CountsUntouched
<1>3. ASSUME NEW k \in Clerk, NEW to \in BTOStatus, ReadOrder(k, to) PROVE CountsHold'
  <2>1. \A j \in Clerk : call'[j].phase = "counted" => call'[j] = call[j]
    BY <1>3 DEF ReadOrder, TypeOK
  <2> QED BY <1>3, <2>1, CountsUntouched DEF ReadOrder, orderVars, shipVars
<1>4. ASSUME NEW k \in Clerk, NEW s \in Shipment, NEW to \in ShipmentStatus,
             ReadShipment(k, s, to)
      PROVE CountsHold'
  <2>1. \A j \in Clerk : call'[j].phase = "counted" => call'[j] = call[j]
    BY <1>4 DEF ReadShipment, TypeOK
  <2> QED BY <1>4, <2>1, CountsUntouched DEF ReadShipment, orderVars, shipVars
<1>5. ASSUME NEW k \in Clerk, Look(k) PROVE CountsHold'
  <2>1. \A j \in Clerk : call'[j].phase = "counted" => call'[j] = call[j]
    BY <1>5 DEF Look, TypeOK
  <2> QED BY <1>5, <2>1, CountsUntouched DEF Look, orderVars, shipVars
<1>6. ASSUME NEW k \in Clerk, Write(k) PROVE CountsHold'
  <2>1. \A j \in Clerk : call'[j].phase = "counted" => call'[j] = call[j]
    BY <1>6 DEF Write, TypeOK
  <2> QED BY <1>6, <2>1, CountsUntouched DEF Write, orderVars
<1>7. ASSUME NEW k \in Clerk, CountLines(k) PROVE CountsHold'
  <2> DEFINE s == call[k].at
  <2>1. /\ call[k].phase = "wrote" /\ s \in Linked
        /\ call' = [call EXCEPT ![k] =
                      [phase |-> "counted", to |-> call[k].to, at |-> s, saw |-> call[k].saw,
                       wh |-> call[k].wh, order |-> bto,
                       all |-> call[k].to = "received" /\ AllReceived(s)]]
        /\ UNCHANGED <<line, shipped>>
    BY <1>7 DEF CountLines, orderVars, shipVars
  <2>2. /\ call'[k].phase = "counted" /\ call'[k].to = call[k].to /\ call'[k].at = s
        /\ call'[k].all <=> (call[k].to = "received" /\ Arrived(s, line, shipped))
    BY <2>1 DEF TypeOK, Arrived, AllReceived, Due
  <2>3. \A j \in Clerk \ {k} : call'[j] = call[j]
    BY <2>1 DEF TypeOK
  <2>4. \A z : Arrived(z, line', shipped') = Arrived(z, line, shipped)
    BY <2>1
  <2>5. /\ skewed => skewed'
        /\ call[k].to = "received"
             /\ (\E j \in Holding \ {k} : call[j].to = "received" /\ call[j].at \in Linked)
           => skewed'
    BY <1>7 DEF CountLines
  <2>6. \A j \in Counted : j \in Holding /\ call[j].to = "received" /\ call[j].at \in Linked
    BY DEF Counted, Holding, CountsHold
  <2>7. Counted' \subseteq Counted \cup {k}
    BY <2>3 DEF Counted
  <2>8. k \in Counted' => call[k].to = "received"
    BY <2>2 DEF Counted
  <2>9. \A j, i \in Counted' : j # i => skewed'
    BY <2>5, <2>6, <2>7, <2>8 DEF CountsHold
  <2>10. \A j \in Clerk : call'[j].phase = "counted" => call'[j].at \in Linked
    BY <2>1, <2>2, <2>3 DEF CountsHold
  <2>11. ASSUME NEW j \in Counted'
         PROVE  /\ call'[j].all => Arrived(call'[j].at, line', shipped')
                /\ ~call'[j].all => skewed' \/ ~Arrived(call'[j].at, line', shipped')
    <3>1. CASE j = k
      BY <2>2, <2>4, <2>8, <3>1
    <3>2. CASE j # k
      <4>1. j \in Counted /\ call'[j] = call[j]
        BY <2>3, <2>7, <3>2 DEF Counted
      <4>2. /\ call[j].all => Arrived(call[j].at, line, shipped)
            /\ ~call[j].all => skewed \/ ~Arrived(call[j].at, line, shipped)
        BY <4>1 DEF CountsHold, Arrived, AllReceived, Due
      <4> QED BY <2>4, <2>5, <4>1, <4>2
    <3> QED BY <3>1, <3>2
  <2> QED BY <2>9, <2>10, <2>11 DEF CountsHold, Arrived, AllReceived, Due
<1>8. ASSUME NEW k \in Clerk, CommitShipment(k) PROVE CountsHold'
  <2> DEFINE s == call[k].at
  <2>1. call[k] \in WroteCall \/ call[k] \in CountedCall
    BY <1>8, CallShape DEF CommitShipment
  <2>2. s \in Shipment /\ call[k].to \in {"in_transit", "received"}
    BY <2>1 DEF WroteCall, CountedCall
  <2>3. call' = [call EXCEPT ![k] = Idle] /\ skewed' = skewed
    BY <1>8 DEF CommitShipment, Done
  <2>4. Counted' \subseteq Counted \ {k} /\ \A j \in Clerk \ {k} : call'[j] = call[j]
    BY <2>3 DEF Counted, Idle, TypeOK
  <2>5. \A j \in Clerk : call'[j].phase = "counted" => j # k
    BY <2>3 DEF Idle, TypeOK
  <2>6. ASSUME NEW j \in Counted'
        PROVE  /\ Arrived(call[j].at, line, shipped) => Arrived(call[j].at, line', shipped')
               /\ Arrived(call[j].at, line', shipped')
                    => skewed \/ Arrived(call[j].at, line, shipped)
    <3> DEFINE z == call[j].at
    <3>1. j \in Counted /\ j # k /\ z \in Linked /\ shipped[z] = Qty[z] /\ LineOf[z] \in OrderItem
      BY <2>4 DEF Counted, CountsHold, CallsFollowEdges
    <3>2. shipped'[z] = shipped[z]
      BY <1>8, <2>2, <3>1 DEF CommitShipment, ShipOut, BookIn, TypeOK
    <3>3. CASE call[k].to = "in_transit" \/ s \notin Linked
      <4>1. \A i \in OrderItem :
              line'[i].received = line[i].received /\ line'[i].approved = line[i].approved
        <5>1. CASE s \notin Linked
          BY <1>8, <2>2, <5>1 DEF CommitShipment, ShipOut, BookIn
        <5>2. CASE s \in Linked /\ call[k].to = "in_transit"
          <6>1. line' = [line EXCEPT ![LineOf[s]].shipped = @ + Qty[s]]
            BY <1>8, <5>2 DEF CommitShipment, ShipOut
          <6> QED BY <6>1 DEF TypeOK, Line
        <5> QED BY <3>3, <5>1, <5>2
      <4> QED BY <3>2, <4>1 DEF Arrived
    <3>4. CASE call[k].to = "received" /\ s \in Linked
      <4>1. line' = [line EXCEPT ![LineOf[s]].received = @ + shipped[s]]
        BY <1>8, <3>4 DEF CommitShipment, BookIn
      <4>2. shipped[s] \in Nat /\ LineOf[s] \in OrderItem
        BY <2>2, <3>4 DEF TypeOK
      <4>3. \A i \in OrderItem :
              /\ line[i].received \in Nat /\ line'[i].received \in Nat
              /\ line'[i].received >= line[i].received
              /\ line'[i].approved = line[i].approved
        BY <4>1, <4>2 DEF TypeOK, Line
      <4>4. \A i \in OrderItem :
              (IF line[i].approved = Unset THEN Requested[i] ELSE line[i].approved) \in Int
        BY DEF TypeOK, Line
      <4>5. shipped[z] \in Nat
        BY <3>1 DEF TypeOK
      <4>6. Arrived(z, line, shipped) => Arrived(z, line', shipped')
        BY <3>2, <4>3, <4>4, <4>5 DEF Arrived
      <4>7. k \in Counted
        BY <1>8, <3>4 DEF CommitShipment, Counted
      <4>8. skewed
        BY <3>1, <4>7 DEF CountsHold
      <4> QED BY <4>6, <4>8
    <3> QED BY <2>2, <3>3, <3>4
  <2>7. \A j \in Counted' : j \in Counted /\ call'[j] = call[j]
    BY <2>4, <2>5 DEF Counted
  <2>8. \A j \in Clerk : call'[j].phase = "counted" => call'[j].at \in Linked
    BY <2>4, <2>5 DEF CountsHold
  <2>9. \A j \in Counted' :
          /\ call'[j].all => Arrived(call'[j].at, line', shipped')
          /\ ~call'[j].all => skewed' \/ ~Arrived(call'[j].at, line', shipped')
    <3>1. \A j \in Counted : /\ call[j].all => Arrived(call[j].at, line, shipped)
                             /\ ~call[j].all => skewed \/ ~Arrived(call[j].at, line, shipped)
      BY DEF CountsHold, Arrived, AllReceived, Due
    <3> QED BY <2>3, <2>6, <2>7, <3>1
  <2>10. \A j, i \in Counted' : j # i => skewed'
    BY <2>3, <2>7 DEF CountsHold
  <2> QED BY <2>8, <2>9, <2>10 DEF CountsHold, Arrived, AllReceived, Due
<1>9. ASSUME NEW k \in Clerk, WriteOrder(k) PROVE CountsHold'
  <2>1. CASE call[k].to # "approved"
    BY <1>2, <1>9, <2>1 DEF WriteOrder, shipVars
  <2>2. CASE call[k].to = "approved"
    <3>1. \A j \in Clerk, i \in OrderItem : ~HoldsLine(j, i)
      BY <1>9, <2>2 DEF WriteOrder
    <3>2. \A j \in Clerk : call[j].phase # "counted"
      BY <3>1 DEF HoldsLine, Holding, CountsHold
    <3>3. \A j \in Clerk : call'[j].phase # "counted"
      BY <1>9, <3>2 DEF WriteOrder, Done, Idle, TypeOK
    <3> QED BY <3>3 DEF CountsHold, Counted
  <2> QED BY <2>1, <2>2
<1>10. ASSUME NEW k \in Clerk, WriteShipment(k) \/ Refuse(k) PROVE CountsHold'
  BY <1>2, <1>10 DEF WriteShipment, Refuse, orderVars, shipVars
<1> QED BY <1>1, <1>3, <1>4, <1>5, <1>6, <1>7, <1>8, <1>9, <1>10 DEF Next

\* An order is received only by the arrival that completes its lines.
LEMMA ClosedKept ==
  ASSUME InventoryInv, [Next]_vars
  PROVE  ClosedMeansReceived'
<1> USE InventoryAssumption DEF InventoryInv
<1>1. CASE Quiet
  BY <1>1, QuietSteps DEF ClosedMeansReceived, Due, orderVars
<1>2. CASE CreateOrder
  BY <1>2 DEF CreateOrder, ClosedMeansReceived
<1>3. ASSUME NEW s \in Shipment, CreateShipment(s) PROVE ClosedMeansReceived'
  BY <1>3 DEF CreateShipment, ClosedMeansReceived, Due, orderVars
<1>4. ASSUME NEW k \in Clerk, WriteOrder(k) PROVE ClosedMeansReceived'
  <2>1. call[k].to \notin {"received", "closed"}
    BY <1>4, CallShape DEF WriteOrder, OrderCall
  <2> QED BY <1>4, <2>1 DEF WriteOrder, ClosedMeansReceived
<1>5. ASSUME NEW k \in Clerk, WriteShipment(k) PROVE ClosedMeansReceived'
  BY <1>5 DEF WriteShipment, ClosedMeansReceived, Due, orderVars
<1>6. ASSUME NEW k \in Clerk, CommitShipment(k) PROVE ClosedMeansReceived'
  <2> DEFINE s == call[k].at
  <2>1. call[k] \in WroteCall \/ call[k] \in CountedCall
    BY <1>6, CallShape DEF CommitShipment
  <2>2. s \in Shipment /\ call[k].to \in {"in_transit", "received"} /\ shipped[s] \in Nat
    BY <2>1 DEF WroteCall, CountedCall, TypeOK
  <2>3. ASSUME NEW i \in OrderItem
        PROVE  /\ Due(i)' = Due(i) /\ Due(i) \in Int
               /\ line[i].received \in Nat /\ line'[i].received \in Nat
               /\ line'[i].received >= line[i].received
               /\ s \in Linked /\ call[k].to = "received" =>
                    line'[i].received
                      = line[i].received + (IF i = LineOf[s] THEN shipped[s] ELSE 0)
    <3>1. CASE s \notin Linked
      BY <1>6, <2>2, <3>1 DEF CommitShipment, ShipOut, BookIn, Due, TypeOK, Line
    <3>2. CASE s \in Linked /\ call[k].to = "in_transit"
      <4>1. line' = [line EXCEPT ![LineOf[s]].shipped = @ + Qty[s]]
        BY <1>6, <3>2 DEF CommitShipment, ShipOut
      <4> QED BY <3>2, <4>1 DEF Due, TypeOK, Line
    <3>3. CASE s \in Linked /\ call[k].to = "received"
      <4>1. line' = [line EXCEPT ![LineOf[s]].received = @ + shipped[s]]
        BY <1>6, <3>3 DEF CommitShipment, BookIn
      <4>2. LineOf[s] \in OrderItem
        BY <3>3
      <4> QED BY <2>2, <4>1, <4>2 DEF Due, TypeOK, Line
    <3> QED BY <2>2, <3>1, <3>2, <3>3
  <2>4. CASE UNCHANGED <<bto, crossed>>
    <3> SUFFICES ASSUME bto \in {"received", "closed"}, ~crossed, NEW i \in OrderItem
                 PROVE  line'[i].received >= Due(i)'
      BY <2>4 DEF ClosedMeansReceived
    <3>1. line[i].received >= Due(i)
      BY DEF ClosedMeansReceived
    <3> QED BY <2>3, <3>1
  <2>5. CASE call[k].phase = "counted" /\ call[k].to = "received" /\ call[k].all
    <3>1. s \in Linked /\ AllReceived(s)
      BY <2>5 DEF CountsHold, Counted
    <3>2. \A i \in OrderItem : line'[i].received >= Due(i)'
      BY <2>3, <2>5, <3>1 DEF AllReceived
    <3> QED BY <3>2 DEF ClosedMeansReceived
  <2>6. CASE call[k].phase = "counted" /\ call[k].to = "in_transit"
    BY <1>6, <2>6 DEF CommitShipment, OrderAfter, ClosedMeansReceived
  <2>7. call[k].phase = "counted" /\ call[k].to = "received" /\ ~call[k].all
          => UNCHANGED <<bto, crossed>>
    BY <1>6, <2>2 DEF CommitShipment, OrderAfter, TypeOK
  <2> QED BY <1>6, <2>2, <2>4, <2>5, <2>6, <2>7 DEF CommitShipment
<1> QED BY <1>1, <1>2, <1>3, <1>4, <1>5, <1>6 DEF Next, Quiet

\* The arrival that is the last closes the order.
LEMMA DeliveredKept ==
  ASSUME InventoryInv, [Next]_vars
  PROVE  DeliveredOrdersClose'
<1> USE InventoryAssumption DEF InventoryInv
<1>0. skewed => skewed'
  BY DEF Next, CreateOrder, CreateShipment, RecordMovement, ReadOrder, ReadShipment, WriteOrder,
         WriteShipment, Look, Write, CountLines, CommitShipment, Refuse, vars
<1>1. CASE Quiet
  BY <1>0, <1>1, QuietSteps DEF DeliveredOrdersClose, Due, orderVars
<1>2. CASE CreateOrder
  BY <1>2 DEF CreateOrder, DeliveredOrdersClose
<1>3. ASSUME NEW s \in Shipment, CreateShipment(s) PROVE DeliveredOrdersClose'
  BY <1>3 DEF CreateShipment, DeliveredOrdersClose, Due, orderVars, TypeOK
<1>4. ASSUME NEW k \in Clerk, WriteOrder(k) PROVE DeliveredOrdersClose'
  <2>1. call[k].to # "shipped"
    BY <1>4, CallShape DEF WriteOrder, OrderCall
  <2> QED BY <1>4, <2>1 DEF WriteOrder, DeliveredOrdersClose
<1>5. ASSUME NEW k \in Clerk, WriteShipment(k) PROVE DeliveredOrdersClose'
  <2> DEFINE s == call[k].at
  <2>1. call[k] \in ReadCall
    BY <1>5, CallShape DEF WriteShipment
  <2>2. call[k].saw # "in_transit"
    <3>1. call[k].to \in ShipmentEdges[call[k].saw] /\ call[k].to \in {"approved", "cancelled"}
      BY <1>5 DEF WriteShipment, CallsFollowEdges
    <3>2. ShipmentEdges["in_transit"] = {"received"}
      BY DEF ShipmentEdges, ShipmentStatus
    <3> QED BY <3>1, <3>2
  <2>3. s \in Shipment /\ ship' = [ship EXCEPT ![s] = call[k].to]
        /\ (ship[s] = "in_transit" => s \in raced') /\ raced \subseteq raced'
    BY <1>5, <2>1, <2>2 DEF WriteShipment, SetStatus, ReadCall
  <2> QED BY <1>5, <2>3 DEF WriteShipment, DeliveredOrdersClose, Due, orderVars, TypeOK
<1>6. ASSUME NEW k \in Clerk, CommitShipment(k) PROVE DeliveredOrdersClose'
  <2> DEFINE s == call[k].at
  <2>1. call[k] \in WroteCall \/ call[k] \in CountedCall
    BY <1>6, CallShape DEF CommitShipment
  <2>2. s \in Shipment /\ call[k].to \in {"in_transit", "received"} /\ shipped[s] \in Nat
    BY <2>1 DEF WroteCall, CountedCall, TypeOK
  <2>3. ship' = [ship EXCEPT ![s] = call[k].to] /\ raced \subseteq raced'
    BY <1>6 DEF CommitShipment, SetStatus
  <2>4. CASE s \notin Linked
    <3>1. UNCHANGED <<bto, crossed, line>>
      BY <1>6, <2>4 DEF CommitShipment, ShipOut, BookIn, CountsHold
    <3> QED BY <1>0, <2>3, <2>4, <3>1 DEF DeliveredOrdersClose, Due, TypeOK
  <2>5. CASE s \in Linked /\ call[k].to = "in_transit"
    BY <2>3, <2>5 DEF DeliveredOrdersClose, TypeOK
  <2>6. CASE s \in Linked /\ call[k].to = "received" /\ call[k].all
    BY <1>6, <2>6 DEF CommitShipment, OrderAfter, DeliveredOrdersClose
  <2>7. CASE s \in Linked /\ call[k].to = "received" /\ ~call[k].all
    <3>1. skewed \/ ~AllReceived(s)
      BY <1>6, <2>7 DEF CommitShipment, CountsHold, Counted
    <3>2. line' = [line EXCEPT ![LineOf[s]].received = @ + shipped[s]]
      BY <1>6, <2>7 DEF CommitShipment, BookIn
    <3>3. \A i \in OrderItem :
            /\ Due(i)' = Due(i)
            /\ line'[i].received = line[i].received + (IF i = LineOf[s] THEN shipped[s] ELSE 0)
      BY <2>2, <3>2 DEF Due, TypeOK, Line
    <3>4. (\A i \in OrderItem : line'[i].received >= Due(i)') => AllReceived(s)
      BY <3>3 DEF AllReceived
    <3> QED BY <1>0, <3>1, <3>4 DEF DeliveredOrdersClose
  <2> QED BY <2>2, <2>4, <2>5, <2>6, <2>7
<1> QED BY <1>1, <1>2, <1>3, <1>4, <1>5, <1>6 DEF Next, Quiet

-----------------------------------------------------------------------------
(* The theorems.                                                           *)

\* The inductive invariant holds at first,
LEMMA InventoryInvInit == Init => InventoryInv
<1> SUFFICES ASSUME Init PROVE InventoryInv
  OBVIOUS
<1>1. TypeOK
  BY InitTypes
<1>2. \A k \in Clerk : call[k].phase = "idle"
  BY DEF Init, Idle
<1>3. CallsFollowEdges /\ CountsHold
  BY <1>2 DEF CallsFollowEdges, CountsHold, Counted
<1>4. ShippedForLive /\ ClosedMeansReceived /\ DeliveredOrdersClose
  BY InventoryAssumption DEF Init, ShippedForLive, ClosedMeansReceived, DeliveredOrdersClose
<1> QED BY <1>1, <1>3, <1>4 DEF InventoryInv

\* and in every reachable state, for any warehouses, shipments and clerks.
THEOREM InventoryInvariant == Spec => []InventoryInv
<1>1. Init => InventoryInv
  BY InventoryInvInit
<1>2. InventoryInv /\ [Next]_vars => InventoryInv'
  BY TypesKept, ShippedKept, EdgesKept, CountsKept, ClosedKept, DeliveredKept DEF InventoryInv
<1> QED BY <1>1, <1>2, PTL DEF Spec

\* Every row and every call in progress keeps its shape.
THEOREM InventoryTypes == Spec => []TypeOK
<1>1. InventoryInv => TypeOK
  BY DEF InventoryInv
<1> QED BY <1>1, InventoryInvariant, PTL

\* Goods never travel for an order that was cancelled, rejected or not yet approved,
\* unless two calls on the order overlapped.
THEOREM GoodsForLiveOrders == Spec => []GoodsMoveForLiveOrders
<1>1. InventoryInv => GoodsMoveForLiveOrders
  <2> SUFFICES ASSUME InventoryInv, NEW s \in Linked, ship[s] \in {"in_transit", "received"}
               PROVE  bto \in Moving \/ crossed
    BY DEF GoodsMoveForLiveOrders, Moving
  <2>1. shipped[s] # 0
    BY InventoryAssumption DEF InventoryInv, ShippedForLive
  <2> QED BY <2>1 DEF InventoryInv, ShippedForLive
<1> QED BY <1>1, InventoryInvariant, PTL

\* An order Receive has closed was delivered in full, whatever shipments, clerks and
\* approved quantities there are.
THEOREM ClosedOrdersReceived == Spec => []ClosedMeansReceived
<1>1. InventoryInv => ClosedMeansReceived
  BY DEF InventoryInv
<1> QED BY <1>1, InventoryInvariant, PTL

\* A fully delivered order stays open only after a race: arrivals that counted the
\* lines at the same time, or a status overwritten unseen.
THEOREM DeliveredOrdersAreClosed == Spec => []DeliveredOrdersClose
<1>1. InventoryInv => DeliveredOrdersClose
  BY DEF InventoryInv
<1> QED BY <1>1, InventoryInvariant, PTL

\* Receive closes an order when, and only when, it has been delivered in full.
THEOREM OrdersCloseAsDelivered == Spec => []OrdersCloseOnDelivery
<1>1. ClosedMeansReceived /\ DeliveredOrdersClose => OrdersCloseOnDelivery
  BY DEF OrdersCloseOnDelivery
<1> QED BY <1>1, ClosedOrdersReceived, DeliveredOrdersAreClosed, PTL

-----------------------------------------------------------------------------
(* The stock lock: a call that has written its level's row holds it.      *)

\* The availability guard let the call through on the level it looked at.
LooksWereEnough ==
  \A k \in Clerk : call[k].phase = "looked" => call[k].had >= Qty[call[k].at]

\* A call that has written holds its level alone, an Advance that of its source.
LevelsAreHeld ==
  /\ \A k \in Holding : call[k].to = "in_transit" => call[k].wh = From[call[k].at]
  /\ \A j, k \in Holding :
       call[j].wh = call[k].wh /\ LineOf[call[j].at] = LineOf[call[k].at] => j = k

\* An Advance that has written still finds what it takes, unless the level had moved
\* between its look and its lock.
HeldStockSuffices ==
  \A k \in Holding :
    call[k].to = "in_transit" =>
      \/ LineOf[call[k].at] \in stale
      \/ onHand[From[call[k].at]][LineOf[call[k].at]] >= Qty[call[k].at]

\* What the proofs about sums need of the calls in progress.
HoldInv == LooksWereEnough /\ LevelsAreHeld /\ HeldStockSuffices

\* What a step does to the calls that have written.
LEMMA HoldingMoves ==
  ASSUME TypeOK, [Next]_vars, NEW k \in Holding'
  PROVE  \/ k \in Holding /\ call'[k] = call[k]
         \/ /\ CountLines(k) /\ k \in Holding
            /\ call'[k].to = call[k].to /\ call'[k].at = call[k].at /\ call'[k].wh = call[k].wh
         \/ Write(k)
<1>0. k \in Clerk /\ call'[k].phase \in {"wrote", "counted"}
  BY DEF Holding
<1>1. CASE UNCHANGED call
  BY <1>0, <1>1 DEF Holding
<1>2. ASSUME NEW j \in Clerk, NEW to \in BTOStatus, ReadOrder(j, to) PROVE call'[k] = call[k]
  BY <1>0, <1>2 DEF ReadOrder, TypeOK
<1>3. ASSUME NEW j \in Clerk, NEW s \in Shipment, NEW to \in ShipmentStatus, ReadShipment(j, s, to)
      PROVE  call'[k] = call[k]
  BY <1>0, <1>3 DEF ReadShipment, TypeOK
<1>4. ASSUME NEW j \in Clerk, WriteOrder(j) \/ WriteShipment(j) \/ Refuse(j) \/ CommitShipment(j)
      PROVE  call'[k] = call[k]
  <2>1. call' = [call EXCEPT ![j] = Idle]
    BY <1>4 DEF WriteOrder, WriteShipment, Refuse, CommitShipment, Done
  <2> QED BY <1>0, <2>1 DEF Idle, TypeOK
<1>5. ASSUME NEW j \in Clerk, Look(j) PROVE call'[k] = call[k]
  BY <1>0, <1>5 DEF Look, TypeOK
<1>6. ASSUME NEW j \in Clerk, Write(j), j # k PROVE call'[k] = call[k]
  BY <1>0, <1>6 DEF Write, TypeOK
<1>7. ASSUME NEW j \in Clerk, CountLines(j), j # k PROVE call'[k] = call[k]
  BY <1>0, <1>7 DEF CountLines, TypeOK
<1>8. ASSUME CountLines(k)
      PROVE  /\ k \in Holding /\ call'[k].to = call[k].to /\ call'[k].at = call[k].at
             /\ call'[k].wh = call[k].wh
  BY <1>0, <1>8 DEF CountLines, TypeOK, Holding
<1>9. call'[k] = call[k] => k \in Holding
  BY <1>0 DEF Holding
<1>10. (CreateOrder \/ (\E s \in Shipment : CreateShipment(s))
        \/ (\E m \in Hand : RecordMovement(m)))
         => UNCHANGED call
  BY DEF CreateOrder, CreateShipment, RecordMovement
<1>11. UNCHANGED vars => UNCHANGED call
  BY DEF vars
<1> QED
  BY <1>0, <1>1, <1>2, <1>3, <1>4, <1>5, <1>6, <1>7, <1>8, <1>9, <1>10, <1>11 DEF Next

\* What a Write finds and leaves.
LEMMA WriteHolds ==
  ASSUME TypeOK, LooksWereEnough, NEW k \in Clerk, Write(k)
  PROVE  /\ call'[k].to = call[k].to /\ call'[k].at = call[k].at
         /\ call[k].at \in Shipment /\ call'[k].wh \in Warehouse
         /\ FreeFor(k, call[k].at, call'[k].wh)
         /\ call[k].to = "in_transit" =>
              /\ call'[k].wh = From[call[k].at]
              /\ \/ LineOf[call[k].at] \in stale'
                 \/ onHand[From[call[k].at]][LineOf[call[k].at]] >= Qty[call[k].at]
         /\ \A j \in Clerk \ {k} : call'[j] = call[j]
         /\ UNCHANGED onHand
<1>1. PICK w \in Warehouse :
        /\ call[k].to = "in_transit" => w = From[call[k].at]
        /\ FreeFor(k, call[k].at, w)
        /\ call' = [call EXCEPT ![k] =
                      [phase |-> "wrote", to |-> call[k].to, at |-> call[k].at,
                       saw |-> call[k].saw, wh |-> w]]
        /\ stale' = IF call[k].phase = "looked" /\ onHand[w][LineOf[call[k].at]] # call[k].had
                      THEN stale \cup {LineOf[call[k].at]} ELSE stale
  BY DEF Write
<1>2. call'[k] = [phase |-> "wrote", to |-> call[k].to, at |-> call[k].at,
                  saw |-> call[k].saw, wh |-> w]
      /\ \A j \in Clerk \ {k} : call'[j] = call[j]
  BY <1>1 DEF TypeOK
<1>3. call[k].at \in Shipment
  BY CallShape DEF Write, ReadCall, LookedCall
<1>4. call[k].to = "in_transit" => call[k].phase = "looked"
  BY DEF Write
<1>5. ASSUME call[k].to = "in_transit"
      PROVE  \/ LineOf[call[k].at] \in stale'
             \/ onHand[From[call[k].at]][LineOf[call[k].at]] >= Qty[call[k].at]
  <2>1. call[k].had >= Qty[call[k].at] /\ w = From[call[k].at]
    BY <1>1, <1>4, <1>5 DEF LooksWereEnough
  <2> QED BY <1>1, <1>4, <1>5, <2>1
<1>6. UNCHANGED onHand
  BY DEF Write, stockVars
<1> QED BY <1>1, <1>2, <1>3, <1>5, <1>6

\* A call looks at a level only to find enough there.
LEMMA LooksKept ==
  ASSUME TypeOK, LooksWereEnough, [Next]_vars
  PROVE  LooksWereEnough'
<1> SUFFICES ASSUME NEW k \in Clerk, call'[k].phase = "looked"
             PROVE  call'[k].had >= Qty[call'[k].at]
  BY DEF LooksWereEnough
<1>1. CASE call'[k] = call[k]
  BY <1>1 DEF LooksWereEnough
<1>2. ASSUME NEW j \in Clerk, NEW to \in BTOStatus, ReadOrder(j, to) PROVE call'[k] = call[k]
  BY <1>2 DEF ReadOrder, TypeOK
<1>3. ASSUME NEW j \in Clerk, NEW s \in Shipment, NEW to \in ShipmentStatus, ReadShipment(j, s, to)
      PROVE  call'[k] = call[k]
  BY <1>3 DEF ReadShipment, TypeOK
<1>4. ASSUME NEW j \in Clerk, WriteOrder(j) \/ WriteShipment(j) \/ Refuse(j) \/ CommitShipment(j)
      PROVE  call'[k] = call[k]
  <2>1. call' = [call EXCEPT ![j] = Idle]
    BY <1>4 DEF WriteOrder, WriteShipment, Refuse, CommitShipment, Done
  <2> QED BY <2>1 DEF Idle, TypeOK
<1>5. ASSUME NEW j \in Clerk, Look(j), j # k PROVE call'[k] = call[k]
  BY <1>5 DEF Look, TypeOK
<1>6. ASSUME Look(k) PROVE call'[k].had >= Qty[call'[k].at]
  BY <1>6 DEF Look, TypeOK
<1>7. ASSUME NEW j \in Clerk, Write(j) \/ CountLines(j) PROVE call'[k] = call[k]
  BY <1>7 DEF Write, CountLines, TypeOK
<1>8. (CreateOrder \/ (\E s \in Shipment : CreateShipment(s))
        \/ (\E m \in Hand : RecordMovement(m)))
         => UNCHANGED call
  BY DEF CreateOrder, CreateShipment, RecordMovement
<1>9. UNCHANGED vars => UNCHANGED call
  BY DEF vars
<1> QED
  BY <1>1, <1>2, <1>3, <1>4, <1>5, <1>6, <1>7, <1>8, <1>9 DEF Next

\* The level locks exclude each other: a second writer of a level waits.
LEMMA LevelsKept ==
  ASSUME TypeOK, LooksWereEnough, LevelsAreHeld, [Next]_vars
  PROVE  LevelsAreHeld'
<1>1. ASSUME NEW k \in Holding', call'[k].to = "in_transit"
      PROVE  call'[k].wh = From[call'[k].at]
  <2>1. CASE Write(k)
    BY <1>1, <2>1, WriteHolds DEF Holding
  <2>2. CASE k \in Holding /\ call'[k].to = call[k].to /\ call'[k].at = call[k].at
             /\ call'[k].wh = call[k].wh
    BY <1>1, <2>2 DEF LevelsAreHeld
  <2> QED BY <2>1, <2>2, HoldingMoves
<1>2. ASSUME NEW j \in Holding', NEW k \in Holding', Write(k), j # k,
             call'[j].wh = call'[k].wh, LineOf[call'[j].at] = LineOf[call'[k].at]
      PROVE  FALSE
  <2>1. /\ FreeFor(k, call[k].at, call'[k].wh) /\ call'[k].at = call[k].at
        /\ call'[j] = call[j] /\ j \in Holding /\ j \in Clerk
    BY <1>2, WriteHolds DEF Holding
  <2> QED BY <1>2, <2>1 DEF FreeFor, HoldsLevel
<1>3. ASSUME NEW j \in Holding', NEW k \in Holding', j # k,
             call'[j].wh = call'[k].wh, LineOf[call'[j].at] = LineOf[call'[k].at]
      PROVE  FALSE
  <2>1. ~Write(k) /\ ~Write(j)
    BY <1>2, <1>3
  <2>2. k \in Holding /\ call'[k].at = call[k].at /\ call'[k].wh = call[k].wh
    BY <2>1, HoldingMoves
  <2>3. j \in Holding /\ call'[j].at = call[j].at /\ call'[j].wh = call[j].wh
    BY <2>1, HoldingMoves
  <2> QED BY <1>3, <2>2, <2>3 DEF LevelsAreHeld
<1> QED BY <1>1, <1>3 DEF LevelsAreHeld

\* The steps that move stock, and where.
LEMMA StockMoves ==
  ASSUME TypeOK, [Next]_vars
  PROVE  \/ UNCHANGED onHand
         \/ \E m \in Hand : RecordMovement(m) /\ m.type \in OnHandTypes
         \/ \E k \in Clerk : CommitShipment(k)
<1>1. ASSUME NEW k \in Clerk,
             \/ \E to \in BTOStatus : ReadOrder(k, to)
             \/ \E s \in Shipment, to \in ShipmentStatus : ReadShipment(k, s, to)
             \/ WriteOrder(k) \/ WriteShipment(k) \/ Look(k) \/ Write(k) \/ CountLines(k)
             \/ Refuse(k)
      PROVE  UNCHANGED onHand
  BY <1>1 DEF ReadOrder, ReadShipment, WriteOrder, WriteShipment, Look, Write, CountLines, Refuse,
              stockVars
<1>2. CreateOrder \/ (\E s \in Shipment : CreateShipment(s)) \/ UNCHANGED vars => UNCHANGED onHand
  BY DEF CreateOrder, CreateShipment, vars, stockVars
<1>3. ASSUME NEW m \in Hand, RecordMovement(m), m.type \notin OnHandTypes PROVE UNCHANGED onHand
  BY <1>3 DEF RecordMovement
<1> QED BY <1>1, <1>2, <1>3 DEF Next

\* What a committing call carries.
LEMMA CommitShape ==
  ASSUME TypeOK, NEW k \in Clerk, CommitShipment(k)
  PROVE  /\ k \in Holding
         /\ call[k].at \in Shipment /\ call[k].wh \in Warehouse
         /\ call[k].to \in {"in_transit", "received"}
         /\ LineOf[call[k].at] \in StockItem
         /\ From[call[k].at] \in Warehouse
         /\ call' = [call EXCEPT ![k] = Idle]
         /\ shipped[call[k].at] \in Nat
         /\ Qty[call[k].at] \in Nat
<1>1. call[k] \in WroteCall \/ call[k] \in CountedCall
  BY CallShape DEF CommitShipment
<1>2. call[k].phase \in {"wrote", "counted"}
  BY DEF CommitShipment
<1>3. /\ call[k].at \in Shipment /\ call[k].wh \in Warehouse
      /\ call[k].to \in {"in_transit", "received"}
  BY <1>1 DEF WroteCall, CountedCall
<1> QED BY <1>2, <1>3, InventoryAssumption DEF CommitShipment, Done, Holding, TypeOK

\* The level of a call that has written moves only when that call commits.
LEMMA HeldLevelsRest ==
  ASSUME TypeOK, LevelsAreHeld, [Next]_vars, NEW k \in Holding, k \in Holding'
  PROVE  onHand'[call[k].wh][LineOf[call[k].at]] = onHand[call[k].wh][LineOf[call[k].at]]
<1>0. k \in Clerk
  BY DEF Holding
<1>1. CASE UNCHANGED onHand
  BY <1>1
<1>2. ASSUME NEW m \in Hand, RecordMovement(m), m.type \in OnHandTypes
      PROVE  onHand'[call[k].wh][LineOf[call[k].at]] = onHand[call[k].wh][LineOf[call[k].at]]
  <2>1. ~(call[k].wh = m.wh /\ LineOf[call[k].at] = m.item)
    BY <1>0, <1>2 DEF RecordMovement, HoldsLevel
  <2>2. MoveStock(m.wh, m.item, SignedDelta(m))
    BY <1>2 DEF RecordMovement
  <2>3. m.wh \in Warehouse /\ m.item \in StockItem
    BY InventoryAssumption
  <2>4. call[k].wh \in Warehouse /\ LineOf[call[k].at] \in StockItem
    BY <1>0, CallShape, InventoryAssumption DEF Holding, WroteCall, CountedCall
  <2> QED BY <2>1, <2>2, <2>3, <2>4 DEF MoveStock, TypeOK
<1>3. ASSUME NEW j \in Clerk, CommitShipment(j)
      PROVE  onHand'[call[k].wh][LineOf[call[k].at]] = onHand[call[k].wh][LineOf[call[k].at]]
  <2> DEFINE i == LineOf[call[j].at]
  <2>1. /\ j \in Holding /\ call[j].wh \in Warehouse /\ i \in StockItem
        /\ call[j].to \in {"in_transit", "received"} /\ call' = [call EXCEPT ![j] = Idle]
    BY <1>3, CommitShape
  <2>2. j # k
    BY <1>0, <2>1 DEF Holding, Idle, TypeOK
  <2>3. ~(call[k].wh = call[j].wh /\ LineOf[call[k].at] = i)
    BY <2>1, <2>2 DEF LevelsAreHeld
  <2>4. \E d : MoveStock(call[j].wh, i, d)
    <3>1. CASE call[j].to = "in_transit"
      BY <1>3, <2>1, <3>1 DEF CommitShipment, ShipOut, LevelsAreHeld
    <3>2. CASE call[j].to = "received"
      BY <1>3, <3>2 DEF CommitShipment, BookIn
    <3> QED BY <2>1, <3>1, <3>2
  <2>5. PICK d : onHand' = [onHand EXCEPT ![call[j].wh][i] = Clamp(onHand[call[j].wh][i] + d)]
    BY <2>4 DEF MoveStock
  <2>6. call[k].wh \in Warehouse /\ LineOf[call[k].at] \in StockItem
    BY <1>0, CallShape, InventoryAssumption DEF Holding, WroteCall, CountedCall
  <2> QED BY <2>1, <2>3, <2>5, <2>6 DEF TypeOK
<1> QED BY <1>1, <1>2, <1>3, StockMoves

\* History: an item shipped on an outdated level stays on record.
LEMMA StaleStays ==
  ASSUME [Next]_vars
  PROVE  stale \subseteq stale' /\ raced \subseteq raced'
<1>1. ASSUME NEW k \in Clerk, Write(k) PROVE stale \subseteq stale' /\ raced' = raced
  BY <1>1 DEF Write
<1>2. ASSUME NEW k \in Clerk, WriteShipment(k) \/ CommitShipment(k)
      PROVE  stale' = stale /\ raced \subseteq raced'
  BY <1>2 DEF WriteShipment, CommitShipment, SetStatus
<1>3. ASSUME NEW k \in Clerk,
             \/ \E to \in BTOStatus : ReadOrder(k, to)
             \/ \E s \in Shipment, to \in ShipmentStatus : ReadShipment(k, s, to)
             \/ WriteOrder(k) \/ Look(k) \/ CountLines(k) \/ Refuse(k)
      PROVE  UNCHANGED <<stale, raced>>
  BY <1>3 DEF ReadOrder, ReadShipment, WriteOrder, Look, CountLines, Refuse, shipVars
<1>4. \/ CreateOrder \/ (\E s \in Shipment : CreateShipment(s))
      \/ (\E m \in Hand : RecordMovement(m)) \/ UNCHANGED vars
      => UNCHANGED <<stale, raced>>
  BY DEF CreateOrder, CreateShipment, RecordMovement, vars, shipVars
<1> QED BY <1>1, <1>2, <1>3, <1>4 DEF Next

\* The stock an Advance was let through on is still there when it commits, or the item is
\* on record as stale.
LEMMA HeldStockKept ==
  ASSUME TypeOK, HoldInv, [Next]_vars
  PROVE  HeldStockSuffices'
<1> SUFFICES ASSUME NEW k \in Holding', call'[k].to = "in_transit"
             PROVE  \/ LineOf[call'[k].at] \in stale'
                    \/ onHand'[From[call'[k].at]][LineOf[call'[k].at]] >= Qty[call'[k].at]
  BY DEF HeldStockSuffices
<1>1. CASE Write(k)
  BY <1>1, WriteHolds DEF Holding, HoldInv
<1>2. CASE k \in Holding /\ call'[k].to = call[k].to /\ call'[k].at = call[k].at
           /\ call'[k].wh = call[k].wh
  <2>1. call[k].wh = From[call[k].at]
    BY <1>2 DEF HoldInv, LevelsAreHeld
  <2>2. onHand'[call[k].wh][LineOf[call[k].at]] = onHand[call[k].wh][LineOf[call[k].at]]
    BY <1>2, HeldLevelsRest DEF HoldInv
  <2>3. \/ LineOf[call[k].at] \in stale
        \/ onHand[From[call[k].at]][LineOf[call[k].at]] >= Qty[call[k].at]
    BY <1>2 DEF HoldInv, HeldStockSuffices
  <2> QED BY <1>2, <2>1, <2>2, <2>3, StaleStays
<1> QED BY <1>1, <1>2, HoldingMoves

\* The three together, in every behaviour.
LEMMA HoldInvariant == Spec => []HoldInv
<1>1. Init => HoldInv
  BY DEF Init, HoldInv, LooksWereEnough, LevelsAreHeld, HeldStockSuffices, Holding, Idle
<1>2. TypeOK /\ HoldInv /\ [Next]_vars => HoldInv'
  BY LooksKept, LevelsKept, HeldStockKept DEF HoldInv
<1> QED BY <1>1, <1>2, InventoryTypes, PTL DEF Spec

-----------------------------------------------------------------------------
(* Goods are neither made nor lost.                                        *)

\* Sums over shipments: what they carry.
LEMMA LoadsAdd ==
  ASSUME NEW f \in [Shipment -> Nat], NEW P \in SUBSET Shipment
  PROVE  IsFiniteSet(P) /\ SumFunctionOnSet(f, P) \in Nat
<1>1. IsFiniteSet(P) /\ \A s \in P : f[s] \in Nat
  BY InventoryAssumption, FS_Subset
<1> QED BY <1>1, SumNat

\* They carry the same while their quantities do not change,
LEMMA LoadsRest ==
  ASSUME NEW f \in [Shipment -> Nat], NEW g \in [Shipment -> Nat], NEW P \in SUBSET Shipment,
         \A s \in P : g[s] = f[s]
  PROVE  SumFunctionOnSet(g, P) = SumFunctionOnSet(f, P)
<1>1. IsFiniteSet(P) /\ \A s \in P : f[s] = g[s]
  BY LoadsAdd
<1>2. SumFunctionOnSet(f, P) = SumFunctionOnSet(g, P)
  BY <1>1, SumEqual
<1> QED BY <1>2

\* and its quantity more with one more shipment.
LEMMA LoadAdded ==
  ASSUME NEW f \in [Shipment -> Nat], NEW g \in [Shipment -> Nat], NEW P \in SUBSET Shipment,
         NEW s \in Shipment, s \notin P, \A z \in P : g[z] = f[z]
  PROVE  SumFunctionOnSet(g, P \cup {s}) = SumFunctionOnSet(f, P) + g[s]
<1>1. IsFiniteSet(P) /\ \A z \in P \cup {s} : g[z] \in Int
  BY LoadsAdd
<1>2. SumFunctionOnSet(g, P \cup {s}) = g[s] + SumFunctionOnSet(g, P)
  BY <1>1, SumAddElement
<1>3. SumFunctionOnSet(g, P) = SumFunctionOnSet(f, P)
  BY LoadsRest
<1>4. SumFunctionOnSet(f, P) \in Nat /\ g[s] \in Nat
  BY LoadsAdd
<1> QED BY <1>2, <1>3, <1>4

\* A level that moves moves the stock of its item by as much.
LEMMA StoredMoves ==
  ASSUME TypeOK, NEW w \in Warehouse, NEW i \in StockItem, NEW n \in Nat,
         onHand' = [onHand EXCEPT ![w][i] = n], NEW j \in StockItem
  PROVE  /\ Stored(j) \in Nat /\ Stored(j)' \in Nat
         /\ Stored(j)' = IF j = i THEN Stored(j) - onHand[w][i] + n ELSE Stored(j)
<1> DEFINE f == [v \in Warehouse |-> onHand[v][j]]
           g == [v \in Warehouse |-> onHand'[v][j]]
<1>1. IsFiniteSet(Warehouse)
  BY InventoryAssumption
<1>2. \A v \in Warehouse : /\ f[v] = onHand[v][j] /\ f[v] \in Nat
                           /\ g[v] = onHand'[v][j] /\ g[v] \in Nat
  BY DEF TypeOK
<1>3. Stored(j) = SumFunctionOnSet(f, Warehouse) /\ Stored(j)' = SumFunctionOnSet(g, Warehouse)
  BY DEF Stored
<1>4. \A v \in Warehouse : v # w \/ j # i => g[v] = f[v]
  BY <1>2 DEF TypeOK
<1>5. j = i => g[w] = n
  BY <1>2 DEF TypeOK
<1> HIDE DEF f, g
<1>6. SumFunctionOnSet(f, Warehouse) \in Nat /\ SumFunctionOnSet(g, Warehouse) \in Nat
  BY <1>1, <1>2, SumNat
<1>7. CASE j # i
  <2>1. \A v \in Warehouse : f[v] = g[v]
    BY <1>4, <1>7
  <2>2. SumFunctionOnSet(f, Warehouse) = SumFunctionOnSet(g, Warehouse)
    BY <1>1, <2>1, SumEqual
  <2> QED BY <1>3, <1>6, <1>7, <2>2
<1>8. CASE j = i
  <2>1. /\ \A v \in Warehouse : f[v] \in Int /\ g[v] \in Int
        /\ \A v \in Warehouse : v # w => g[v] = f[v]
    BY <1>2, <1>4
  <2>2. SumFunctionOnSet(g, Warehouse) = SumFunctionOnSet(f, Warehouse) - f[w] + g[w]
    BY <1>1, <2>1, SumChange
  <2> QED BY <1>2, <1>3, <1>5, <1>6, <1>8, <2>2
<1> QED BY <1>7, <1>8

\* The goods of item i are where they belong.
Conserved(i) == Stored(i) + Travelling(i) = Opened(i) + net[i]

\* An item whose goods a race may have made or lost.
Excused(i) == i \in stale \/ \E s \in raced : LineOf[s] = i

\* A shipment that was not raced moved along an edge of its status.
LEMMA UnracedMoves ==
  ASSUME InventoryInv, NEW k \in Clerk, SetStatus(k, call[k].at),
         call[k].phase \in {"read", "wrote", "counted"}, call[k].at \in Shipment,
         call[k].at \notin raced'
  PROVE  /\ ship' = [ship EXCEPT ![call[k].at] = call[k].to]
         /\ call[k].to \in {"approved", "cancelled"} => ship[call[k].at] \in {"draft", "approved"}
         /\ call[k].to = "in_transit" => ship[call[k].at] = "approved"
         /\ call[k].to = "received" => ship[call[k].at] = "in_transit"
<1>1. ship[call[k].at] = call[k].saw
  BY DEF SetStatus
<1>2. call[k].to \in ShipmentEdges[call[k].saw] /\ call[k].saw \in ShipmentStatus
  BY <1>1 DEF InventoryInv, CallsFollowEdges, TypeOK
<1>3. /\ call[k].to \in {"approved", "cancelled"} => call[k].saw \in {"draft", "approved"}
      /\ call[k].to = "in_transit" => call[k].saw = "approved"
      /\ call[k].to = "received" => call[k].saw = "in_transit"
  BY <1>2 DEF ShipmentEdges, ShipmentStatus
<1> QED BY <1>1, <1>3 DEF SetStatus

\* No step makes or loses goods of an item that is not excused.
LEMMA GoodsKept ==
  ASSUME InventoryInv, HoldInv, [Next]_vars, NEW i \in StockItem, ~Excused(i)', Conserved(i)
  PROVE  Conserved(i)'
<1> USE DEF InventoryInv
<1>0. ~Excused(i)
  BY StaleStays DEF Excused
<1>1. CASE UNCHANGED <<onHand, net>> /\ OnTheRoad(i)' = OnTheRoad(i) /\ UNCHANGED shipped
  BY <1>1 DEF Conserved, Stored, Travelling, Opened
<1>2. ASSUME NEW m \in Hand, RecordMovement(m) PROVE Conserved(i)'
  <2>1. OnTheRoad(i)' = OnTheRoad(i) /\ UNCHANGED shipped
    BY <1>2 DEF RecordMovement, OnTheRoad, shipVars
  <2>2. CASE m.type \notin OnHandTypes
    BY <1>1, <1>2, <2>1, <2>2 DEF RecordMovement
  <2>3. CASE m.type \in OnHandTypes
    <3> DEFINE n == Clamp(onHand[m.wh][m.item] + SignedDelta(m))
    <3>1. m.wh \in Warehouse /\ m.item \in StockItem /\ m.qty \in Int
      BY InventoryAssumption
    <3>2. n \in Nat
      BY <3>1 DEF Clamp, SignedDelta, TypeOK
    <3>3. onHand' = [onHand EXCEPT ![m.wh][m.item] = n]
      BY <1>2, <2>3 DEF RecordMovement, MoveStock
    <3>4. net' = [net EXCEPT ![m.item] = @ + onHand'[m.wh][m.item] - onHand[m.wh][m.item]]
      BY <1>2, <2>3 DEF RecordMovement
    <3> HIDE DEF n
    <3>5. /\ Stored(i) \in Nat /\ Stored(i)' \in Nat
          /\ Stored(i)' = IF i = m.item THEN Stored(i) - onHand[m.wh][m.item] + n ELSE Stored(i)
      BY <3>1, <3>2, <3>3, StoredMoves
    <3>6. onHand'[m.wh][m.item] = n /\ onHand[m.wh][m.item] \in Nat
      BY <3>1, <3>3 DEF TypeOK
    <3>7. /\ net[i] \in Int
          /\ net'[i] = IF i = m.item THEN net[i] + n - onHand[m.wh][m.item] ELSE net[i]
      BY <3>1, <3>4, <3>6 DEF TypeOK
    <3>8. Travelling(i)' = Travelling(i) /\ Opened(i)' = Opened(i)
      BY <2>1 DEF Travelling, Opened
    <3>9. Travelling(i) \in Nat
      <4>1. shipped \in [Shipment -> Nat] /\ OnTheRoad(i) \in SUBSET Shipment
        BY DEF TypeOK, OnTheRoad
      <4> QED BY <4>1, LoadsAdd DEF Travelling
    <3>10. Opened(i) \in Int
      <4>1. IsFiniteSet(Warehouse)
            /\ \A w \in Warehouse : [v \in Warehouse |-> Opening[v][i]][w] \in Int
        BY InventoryAssumption
      <4> QED BY <4>1, SumInt DEF Opened
    <3> QED BY <3>2, <3>5, <3>6, <3>7, <3>8, <3>9, <3>10 DEF Conserved
  <2> QED BY <2>2, <2>3
<1>3. ASSUME NEW s \in Shipment, CreateShipment(s) PROVE Conserved(i)'
  <2>1. OnTheRoad(i)' = OnTheRoad(i)
    BY <1>3 DEF CreateShipment, OnTheRoad, TypeOK
  <2> QED BY <1>1, <1>3, <2>1 DEF CreateShipment, stockVars
<1>4. ASSUME NEW k \in Clerk, WriteShipment(k) PROVE Conserved(i)'
  <2> DEFINE s == call[k].at
  <2>1. s \in Shipment /\ call[k].phase = "read" /\ call[k].to \in {"approved", "cancelled"}
        /\ SetStatus(k, s)
    BY <1>4, CallShape DEF WriteShipment, ReadCall
  <2>2. LineOf[s] = i => s \notin raced'
    BY DEF Excused
  <2>3. LineOf[s] = i => /\ ship[s] \in {"draft", "approved"}
                         /\ ship' = [ship EXCEPT ![s] = call[k].to]
    BY <2>1, <2>2, UnracedMoves
  <2>4. ship' = [ship EXCEPT ![s] = call[k].to]
    BY <2>1 DEF SetStatus
  <2>5. OnTheRoad(i)' = OnTheRoad(i)
    BY <2>1, <2>3, <2>4 DEF OnTheRoad, TypeOK
  <2> QED BY <1>1, <1>4, <2>5 DEF WriteShipment, stockVars
<1>5. ASSUME NEW k \in Clerk, CommitShipment(k) PROVE Conserved(i)'
  <2> DEFINE s == call[k].at
  <2>1. /\ k \in Holding /\ s \in Shipment /\ call[k].wh \in Warehouse
        /\ call[k].to \in {"in_transit", "received"} /\ LineOf[s] \in StockItem
        /\ From[s] \in Warehouse /\ shipped[s] \in Nat /\ Qty[s] \in Nat
    BY <1>5, CommitShape
  <2>2. SetStatus(k, s) /\ UNCHANGED net /\ call[k].phase \in {"read", "wrote", "counted"}
        /\ UNCHANGED stale
    BY <1>5 DEF CommitShipment
  <2>3. ship' = [ship EXCEPT ![s] = call[k].to]
    BY <2>2 DEF SetStatus
  <2>4. LineOf[s] = i => s \notin raced'
    BY DEF Excused
  <2>5. LineOf[s] = i => /\ call[k].to = "in_transit" => ship[s] = "approved"
                         /\ call[k].to = "received" => ship[s] = "in_transit"
    BY <2>1, <2>2, <2>4, UnracedMoves
  <2>6. Opened(i)' = Opened(i)
    BY DEF Opened
  <2>7. shipped \in [Shipment -> Nat] /\ shipped' \in [Shipment -> Nat]
    BY TypesKept DEF TypeOK
  <2>8. OnTheRoad(i) \in SUBSET Shipment /\ OnTheRoad(i)' \in SUBSET Shipment
    BY DEF OnTheRoad
  <2>9. Travelling(i) \in Nat /\ Travelling(i) = SumFunctionOnSet(shipped, OnTheRoad(i))
        /\ Travelling(i)' = SumFunctionOnSet(shipped', OnTheRoad(i)')
    BY <2>7, <2>8, LoadsAdd DEF Travelling
  <2>10. onHand[From[s]][LineOf[s]] \in Nat /\ onHand[call[k].wh][LineOf[s]] \in Nat
    BY <2>1 DEF TypeOK
  <2>11. net[i] \in Int /\ Opened(i) \in Int
    <3>1. IsFiniteSet(Warehouse)
          /\ \A w \in Warehouse : [v \in Warehouse |-> Opening[v][i]][w] \in Int
      BY InventoryAssumption
    <3>2. Opened(i) \in Int
      BY <3>1, SumInt DEF Opened
    <3> QED BY <3>2 DEF TypeOK
  <2>12. CASE call[k].to = "in_transit"
    <3>1. ShipOut(k, s)
      BY <1>5, <2>12 DEF CommitShipment
    <3> DEFINE n == Clamp(onHand[From[s]][LineOf[s]] + (-Qty[s]))
    <3>2. onHand' = [onHand EXCEPT ![From[s]][LineOf[s]] = n] /\ n \in Nat
      <4>1. n \in Nat
        BY <2>1, <2>10 DEF Clamp
      <4> QED BY <3>1, <4>1 DEF ShipOut, MoveStock
    <3>3. LineOf[s] = i => n = onHand[From[s]][LineOf[s]] - Qty[s]
      <4>1. LineOf[s] = i => onHand[From[s]][LineOf[s]] >= Qty[s]
        BY <1>0, <2>1, <2>12 DEF HoldInv, HeldStockSuffices, Excused
      <4> QED BY <2>1, <2>10, <4>1 DEF Clamp
    <3> HIDE DEF n
    <3>4. /\ Stored(i) \in Nat /\ Stored(i)' \in Nat
          /\ Stored(i)' = IF i = LineOf[s] THEN Stored(i) - onHand[From[s]][LineOf[s]] + n
                                           ELSE Stored(i)
      <4>1. PICK w \in Warehouse, l \in StockItem : w = From[s] /\ l = LineOf[s]
        BY <2>1
      <4>2. onHand' = [onHand EXCEPT ![w][l] = n] /\ n \in Nat
        BY <3>2, <4>1
      <4>3. /\ Stored(i) \in Nat /\ Stored(i)' \in Nat
            /\ Stored(i)' = IF i = l THEN Stored(i) - onHand[w][l] + n ELSE Stored(i)
        BY <4>2, StoredMoves
      <4> QED BY <4>1, <4>3
    <3>5. shipped' = [shipped EXCEPT ![s] = Qty[s]]
      BY <3>1 DEF ShipOut
    <3>6. CASE LineOf[s] = i
      <4>1. s \notin OnTheRoad(i) /\ OnTheRoad(i)' = OnTheRoad(i) \cup {s}
        BY <2>1, <2>3, <2>5, <2>12, <3>6 DEF OnTheRoad, TypeOK
      <4>2. shipped'[s] = Qty[s] /\ \A z \in OnTheRoad(i) : shipped'[z] = shipped[z]
        BY <2>1, <2>8, <3>5, <4>1 DEF TypeOK
      <4>3. SumFunctionOnSet(shipped', OnTheRoad(i) \cup {s})
              = SumFunctionOnSet(shipped, OnTheRoad(i)) + shipped'[s]
        BY <2>1, <2>7, <2>8, <4>1, <4>2, LoadAdded
      <4>4. Travelling(i)' = Travelling(i) + Qty[s]
        BY <2>9, <4>1, <4>2, <4>3
      <4> QED BY <2>1, <2>2, <2>6, <2>9, <2>10, <2>11, <3>3, <3>4, <3>6, <4>4 DEF Conserved
    <3>7. CASE LineOf[s] # i
      <4>1. OnTheRoad(i)' = OnTheRoad(i) /\ s \notin OnTheRoad(i)
        BY <2>3, <3>7 DEF OnTheRoad, TypeOK
      <4>2. \A z \in OnTheRoad(i) : shipped'[z] = shipped[z]
        BY <2>8, <3>5, <4>1 DEF TypeOK
      <4>3. SumFunctionOnSet(shipped', OnTheRoad(i)) = SumFunctionOnSet(shipped, OnTheRoad(i))
        BY <2>7, <2>8, <4>2, LoadsRest
      <4>4. Travelling(i)' = Travelling(i)
        BY <2>9, <4>1, <4>3
      <4> QED BY <2>2, <2>6, <3>4, <3>7, <4>4 DEF Conserved
    <3> QED BY <3>6, <3>7
  <2>13. CASE call[k].to = "received"
    <3>1. BookIn(k, s)
      BY <1>5, <2>13 DEF CommitShipment
    <3> DEFINE n == Clamp(onHand[call[k].wh][LineOf[s]] + shipped[s])
    <3>2. onHand' = [onHand EXCEPT ![call[k].wh][LineOf[s]] = n]
      BY <3>1 DEF BookIn, MoveStock
    <3>2a. n = onHand[call[k].wh][LineOf[s]] + shipped[s] /\ n \in Nat
      BY <2>1, <2>10 DEF Clamp
    <3> HIDE DEF n
    <3>3. /\ Stored(i) \in Nat /\ Stored(i)' \in Nat
          /\ Stored(i)' = IF i = LineOf[s] THEN Stored(i) - onHand[call[k].wh][LineOf[s]] + n
                                           ELSE Stored(i)
      <4>1. PICK w \in Warehouse, l \in StockItem : w = call[k].wh /\ l = LineOf[s]
        BY <2>1
      <4>2. onHand' = [onHand EXCEPT ![w][l] = n] /\ n \in Nat
        BY <3>2, <3>2a, <4>1
      <4>3. /\ Stored(i) \in Nat /\ Stored(i)' \in Nat
            /\ Stored(i)' = IF i = l THEN Stored(i) - onHand[w][l] + n ELSE Stored(i)
        BY <4>2, StoredMoves
      <4> QED BY <4>1, <4>3
    <3>4. shipped' = shipped
      BY <3>1 DEF BookIn
    <3>5. CASE LineOf[s] = i
      <4> DEFINE P == OnTheRoad(i)'
      <4>1. s \notin P /\ OnTheRoad(i) = P \cup {s}
        BY <2>1, <2>3, <2>5, <2>13, <3>5 DEF OnTheRoad, TypeOK
      <4> HIDE DEF P
      <4>2. P \in SUBSET Shipment
        BY <2>8 DEF P
      <4>3. SumFunctionOnSet(shipped, P \cup {s}) = SumFunctionOnSet(shipped, P) + shipped[s]
        BY <2>1, <2>7, <4>1, <4>2, LoadAdded
      <4>4. Travelling(i)' = SumFunctionOnSet(shipped, P) /\ SumFunctionOnSet(shipped, P) \in Nat
        BY <2>7, <2>9, <3>4, <4>2, LoadsAdd DEF P
      <4>5. Travelling(i) = Travelling(i)' + shipped[s] /\ Travelling(i)' \in Nat
        BY <2>9, <4>1, <4>3, <4>4
      <4>6. Stored(i)' = Stored(i) + shipped[s]
        BY <2>1, <2>10, <3>3, <3>5, <3>2a
      <4> QED BY <2>1, <2>2, <2>6, <2>9, <2>11, <3>3, <4>5, <4>6 DEF Conserved
    <3>6. CASE LineOf[s] # i
      <4>1. OnTheRoad(i)' = OnTheRoad(i)
        BY <2>3, <3>6 DEF OnTheRoad, TypeOK
      <4> QED BY <2>2, <2>6, <2>9, <3>3, <3>4, <3>6, <4>1 DEF Conserved
    <3> QED BY <3>5, <3>6
  <2> QED BY <2>1, <2>12, <2>13
<1>6. ASSUME NEW k \in Clerk,
             \/ \E to \in BTOStatus : ReadOrder(k, to)
             \/ \E s \in Shipment, to \in ShipmentStatus : ReadShipment(k, s, to)
             \/ WriteOrder(k) \/ Look(k) \/ Write(k) \/ CountLines(k) \/ Refuse(k)
      PROVE  Conserved(i)'
  <2>1. UNCHANGED <<onHand, net, ship, shipped>>
    BY <1>6 DEF ReadOrder, ReadShipment, WriteOrder, Look, Write, CountLines, Refuse, shipVars,
                stockVars
  <2> QED BY <1>1, <2>1 DEF OnTheRoad
<1>7. CreateOrder \/ UNCHANGED vars => UNCHANGED <<onHand, net, ship, shipped>>
  BY DEF CreateOrder, vars, shipVars, stockVars
<1>8. UNCHANGED <<onHand, net, ship, shipped>> => Conserved(i)'
  BY <1>1 DEF OnTheRoad
<1> QED BY <1>2, <1>3, <1>4, <1>5, <1>6, <1>7, <1>8 DEF Next

\* Goods are neither made nor lost between warehouses, for any number of warehouses,
\* shipments and clerks: an Advance takes what it found and a Receive books what was
\* shipped, unless a level was outdated or a status overwritten, which the histories name.
THEOREM GoodsAreConserved == Spec => []StockIsConserved
<1>1. ASSUME Init PROVE StockIsConserved
  <2> SUFFICES ASSUME NEW i \in StockItem PROVE Conserved(i)
    BY DEF StockIsConserved, Conserved
  <2>1. OnTheRoad(i) = {}
    BY <1>1 DEF Init, OnTheRoad
  <2>2. Travelling(i) = 0
    BY <2>1, SumEmpty DEF Travelling
  <2>3. Stored(i) = Opened(i) /\ net[i] = 0
    BY <1>1 DEF Init, Stored, Opened
  <2> QED BY <2>2, <2>3 DEF Conserved
<1>2. ASSUME InventoryInv, HoldInv, StockIsConserved, [Next]_vars PROVE StockIsConserved'
  <2> SUFFICES ASSUME NEW i \in StockItem, ~Excused(i)' PROVE Conserved(i)'
    BY DEF StockIsConserved, Conserved, Excused
  <2>1. ~Excused(i)
    BY <1>2, StaleStays DEF Excused
  <2>2. Conserved(i)
    BY <1>2, <2>1 DEF StockIsConserved, Conserved, Excused
  <2> QED BY <1>2, <2>2, GoodsKept
<1> QED BY <1>1, <1>2, InventoryInvariant, HoldInvariant, PTL DEF Spec

-----------------------------------------------------------------------------
(* The copies on the order.                                                *)

\* The shipments of an order line that are in one of the statuses.
Legs(i, statuses) == {s \in Linked : LineOf[s] = i /\ ship[s] \in statuses}

\* The copies of order line i are those of its shipments.
CountsAgree(i) ==
  /\ line[i].shipped = SumFunctionOnSet(shipped, Legs(i, {"in_transit", "received"}))
  /\ line[i].received = SumFunctionOnSet(shipped, Legs(i, {"received"}))

\* No step makes the copies on a line differ from its shipments, unless one was raced.
LEMMA CountsKeptOf ==
  ASSUME InventoryInv, [Next]_vars, NEW i \in OrderItem, CountsAgree(i),
         \A s \in raced' : LineOf[s] # i
  PROVE  CountsAgree(i)'
<1> USE DEF InventoryInv
<1> DEFINE Left == {"in_transit", "received"}
           Home == {"received"}
<1>0. /\ line[i].shipped \in Nat /\ line[i].received \in Nat
      /\ shipped \in [Shipment -> Nat] /\ shipped' \in [Shipment -> Nat]
      /\ Legs(i, Left) \in SUBSET Shipment /\ Legs(i, Left)' \in SUBSET Shipment
      /\ Legs(i, Home) \in SUBSET Shipment /\ Legs(i, Home)' \in SUBSET Shipment
  <2>1. line[i].shipped \in Nat /\ line[i].received \in Nat /\ shipped \in [Shipment -> Nat]
    BY DEF TypeOK, Line
  <2>2. shipped' \in [Shipment -> Nat]
    BY TypesKept DEF TypeOK
  <2> QED BY <2>1, <2>2, InventoryAssumption DEF Legs
<1>1. ASSUME line'[i].shipped = line[i].shipped, line'[i].received = line[i].received,
             UNCHANGED shipped, Legs(i, Left)' = Legs(i, Left), Legs(i, Home)' = Legs(i, Home)
      PROVE  CountsAgree(i)'
  BY <1>1 DEF CountsAgree
<1>2. ASSUME NEW s \in Shipment, CreateShipment(s) PROVE CountsAgree(i)'
  <2>1. Legs(i, Left)' = Legs(i, Left) /\ Legs(i, Home)' = Legs(i, Home)
    BY <1>2, InventoryAssumption DEF CreateShipment, Legs, TypeOK
  <2> QED BY <1>1, <1>2, <2>1 DEF CreateShipment, orderVars
<1>3. ASSUME NEW k \in Clerk, WriteOrder(k) PROVE CountsAgree(i)'
  <2>1. UNCHANGED <<ship, shipped>>
    BY <1>3 DEF WriteOrder, shipVars
  <2>2. line'[i].shipped = line[i].shipped /\ line'[i].received = line[i].received
    <3>1. CASE UNCHANGED line
      BY <3>1
    <3>2. ASSUME NEW qtys, Approve(qtys)
          PROVE  line'[i].shipped = line[i].shipped /\ line'[i].received = line[i].received
      BY <3>2 DEF Approve, TypeOK, Line
    <3> QED BY <1>3, <3>1, <3>2 DEF WriteOrder
  <2> QED BY <1>1, <2>1, <2>2 DEF Legs
<1>4. ASSUME NEW k \in Clerk, WriteShipment(k) PROVE CountsAgree(i)'
  <2> DEFINE s == call[k].at
  <2>1. s \in Shipment /\ call[k].phase = "read" /\ call[k].to \in {"approved", "cancelled"}
        /\ SetStatus(k, s)
    BY <1>4, CallShape DEF WriteShipment, ReadCall
  <2>2. LineOf[s] = i => ship[s] \in {"draft", "approved"}
    BY <2>1, UnracedMoves
  <2>3. ship' = [ship EXCEPT ![s] = call[k].to]
    BY <2>1 DEF SetStatus
  <2>4. Legs(i, Left)' = Legs(i, Left) /\ Legs(i, Home)' = Legs(i, Home)
    BY <2>1, <2>2, <2>3, InventoryAssumption DEF Legs, TypeOK
  <2> QED BY <1>1, <1>4, <2>4 DEF WriteShipment, orderVars
<1>5. ASSUME NEW k \in Clerk, CommitShipment(k) PROVE CountsAgree(i)'
  <2>0. PICK s \in Shipment : s = call[k].at
    BY <1>5, CommitShape
  <2>1. /\ call[k].to \in {"in_transit", "received"} /\ shipped[s] \in Nat /\ Qty[s] \in Nat
        /\ SetStatus(k, call[k].at) /\ call[k].phase \in {"wrote", "counted"}
    BY <1>5, <2>0, CommitShape DEF CommitShipment
  <2>2. ship' = [ship EXCEPT ![s] = call[k].to]
    BY <2>0, <2>1 DEF SetStatus
  <2>3. LineOf[s] = i => /\ call[k].to = "in_transit" => ship[s] = "approved"
                         /\ call[k].to = "received" => ship[s] = "in_transit"
    BY <2>0, <2>1, UnracedMoves
  <2>4. s \in Linked => LineOf[s] \in OrderItem
    BY InventoryAssumption
  <2>5. CASE call[k].to = "in_transit"
    <3>1. ShipOut(k, s)
      BY <1>5, <2>0, <2>5 DEF CommitShipment
    <3>2. shipped' = [shipped EXCEPT ![s] = Qty[s]]
      BY <3>1 DEF ShipOut
    <3>3. CASE s \in Linked /\ LineOf[s] = i
      <4>1. /\ s \notin Legs(i, Left) /\ Legs(i, Left)' = Legs(i, Left) \cup {s}
            /\ s \notin Legs(i, Home) /\ Legs(i, Home)' = Legs(i, Home)
        BY <2>2, <2>3, <2>5, <3>3, InventoryAssumption DEF Legs, TypeOK
      <4>2. /\ shipped'[s] = Qty[s]
            /\ \A z \in Legs(i, Left) : shipped'[z] = shipped[z]
            /\ \A z \in Legs(i, Home) : shipped'[z] = shipped[z]
        BY <1>0, <3>2, <4>1
      <4>3. line'[i].shipped = line[i].shipped + Qty[s] /\ line'[i].received = line[i].received
        <5>1. line' = [line EXCEPT ![i].shipped = @ + Qty[s]]
          BY <3>1, <3>3 DEF ShipOut
        <5> QED BY <5>1 DEF TypeOK, Line
      <4>4. SumFunctionOnSet(shipped', Legs(i, Left) \cup {s})
              = SumFunctionOnSet(shipped, Legs(i, Left)) + shipped'[s]
        BY <1>0, <4>1, <4>2, LoadAdded
      <4>5. SumFunctionOnSet(shipped', Legs(i, Home)) = SumFunctionOnSet(shipped, Legs(i, Home))
        BY <1>0, <4>2, LoadsRest
      <4>6. line'[i].shipped = SumFunctionOnSet(shipped', Legs(i, Left)')
        BY <4>1, <4>2, <4>3, <4>4 DEF CountsAgree
      <4>7. line'[i].received = SumFunctionOnSet(shipped', Legs(i, Home)')
        BY <4>1, <4>3, <4>5 DEF CountsAgree
      <4> QED BY <4>6, <4>7 DEF CountsAgree
    <3>4. CASE ~(s \in Linked /\ LineOf[s] = i)
      <4>1. /\ s \notin Legs(i, Left) /\ Legs(i, Left)' = Legs(i, Left)
            /\ s \notin Legs(i, Home) /\ Legs(i, Home)' = Legs(i, Home)
        BY <2>2, <3>4, InventoryAssumption DEF Legs, TypeOK
      <4>2. /\ \A z \in Legs(i, Left) : shipped'[z] = shipped[z]
            /\ \A z \in Legs(i, Home) : shipped'[z] = shipped[z]
        BY <1>0, <3>2, <4>1
      <4>3. line'[i] = line[i]
        BY <2>4, <3>1, <3>4 DEF ShipOut, TypeOK
      <4>4. SumFunctionOnSet(shipped', Legs(i, Left)) = SumFunctionOnSet(shipped, Legs(i, Left))
        BY <1>0, <4>2, LoadsRest
      <4>5. SumFunctionOnSet(shipped', Legs(i, Home)) = SumFunctionOnSet(shipped, Legs(i, Home))
        BY <1>0, <4>2, LoadsRest
      <4>6. line'[i].shipped = SumFunctionOnSet(shipped', Legs(i, Left)')
        BY <4>1, <4>3, <4>4 DEF CountsAgree
      <4>7. line'[i].received = SumFunctionOnSet(shipped', Legs(i, Home)')
        BY <4>1, <4>3, <4>5 DEF CountsAgree
      <4> QED BY <4>6, <4>7 DEF CountsAgree
    <3> QED BY <3>3, <3>4
  <2>6. CASE call[k].to = "received"
    <3>1. BookIn(k, s) /\ shipped' = shipped
      BY <1>5, <2>0, <2>6 DEF CommitShipment, BookIn
    <3>2. CASE s \in Linked /\ LineOf[s] = i
      <4>1. /\ Legs(i, Left)' = Legs(i, Left)
            /\ s \notin Legs(i, Home) /\ Legs(i, Home)' = Legs(i, Home) \cup {s}
        BY <2>2, <2>3, <2>6, <3>2, InventoryAssumption DEF Legs, TypeOK
      <4>2. /\ line'[i].received = line[i].received + shipped[s]
            /\ line'[i].shipped = line[i].shipped
        <5>1. line' = [line EXCEPT ![i].received = @ + shipped[s]]
          BY <3>1, <3>2 DEF BookIn
        <5> QED BY <5>1 DEF TypeOK, Line
      <4>3. SumFunctionOnSet(shipped, Legs(i, Home) \cup {s})
              = SumFunctionOnSet(shipped, Legs(i, Home)) + shipped[s]
        BY <1>0, <4>1, LoadAdded
      <4>4. line'[i].received = SumFunctionOnSet(shipped', Legs(i, Home)')
        BY <3>1, <4>1, <4>2, <4>3 DEF CountsAgree
      <4>5. line'[i].shipped = SumFunctionOnSet(shipped', Legs(i, Left)')
        BY <3>1, <4>1, <4>2 DEF CountsAgree
      <4> QED BY <4>4, <4>5 DEF CountsAgree
    <3>3. CASE ~(s \in Linked /\ LineOf[s] = i)
      <4>1. Legs(i, Left)' = Legs(i, Left) /\ Legs(i, Home)' = Legs(i, Home)
        BY <2>2, <3>3, InventoryAssumption DEF Legs, TypeOK
      <4>2. line'[i] = line[i]
        BY <2>4, <3>1, <3>3 DEF BookIn, TypeOK
      <4> QED BY <1>1, <3>1, <4>1, <4>2
    <3> QED BY <3>2, <3>3
  <2> QED BY <2>1, <2>5, <2>6
<1>6. ASSUME UNCHANGED <<line, ship, shipped>> PROVE CountsAgree(i)'
  BY <1>1, <1>6 DEF Legs
<1>7. CASE Quiet \/ CreateOrder
  <2>1. UNCHANGED <<line, ship, shipped>>
    BY <1>7, QuietSteps DEF CreateOrder, orderVars, shipVars
  <2> QED BY <1>6, <2>1
<1> QED BY <1>2, <1>3, <1>4, <1>5, <1>7 DEF Next, Quiet

\* The quantities copied onto the order are those of its shipments, whatever the order
\* in which clerks ship and receive, unless a shipment's status was overwritten unseen.
THEOREM OrderCountsAreTrue == Spec => []OrderCountsAgree
<1>0. OrderCountsAgree <=> \A i \in OrderItem : (\E s \in raced : LineOf[s] = i) \/ CountsAgree(i)
  BY DEF OrderCountsAgree, CountsAgree, Carried, Legs
<1>1. ASSUME Init PROVE OrderCountsAgree
  <2> SUFFICES ASSUME NEW i \in OrderItem PROVE CountsAgree(i)
    BY <1>0
  <2>1. Legs(i, {"in_transit", "received"}) = {} /\ Legs(i, {"received"}) = {}
    BY <1>1, InventoryAssumption DEF Init, Legs
  <2>2. line[i].shipped = 0 /\ line[i].received = 0
    BY <1>1 DEF Init
  <2> QED BY <2>1, <2>2, SumEmpty DEF CountsAgree
<1>2. ASSUME InventoryInv, OrderCountsAgree, [Next]_vars PROVE OrderCountsAgree'
  <2> SUFFICES ASSUME NEW i \in OrderItem, \A s \in raced' : LineOf[s] # i
               PROVE  CountsAgree(i)'
    BY DEF OrderCountsAgree, CountsAgree, Carried, Legs
  <2>1. CountsAgree(i)
    BY <1>0, <1>2, StaleStays
  <2> QED BY <1>2, <2>1, CountsKeptOf
<1> QED BY <1>1, <1>2, InventoryInvariant, PTL DEF Spec

=============================================================================
