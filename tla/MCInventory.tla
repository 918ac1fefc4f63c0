---------------------------- MODULE MCInventory ----------------------------
(***************************************************************************)
(* Values for the constants of Inventory: an order with two lines that two *)
(* or three shipments fulfil from a depot to a branch's warehouse.         *)
(***************************************************************************)
EXTENDS Inventory, TLC

CONSTANTS depot, branch, flour, salt, s1, s2, k1, k2

\* One shipment for each line of the order.
OneEach == [s \in Shipment |-> IF s = s1 THEN flour ELSE salt]

\* Both shipments carry flour.
AllFlour == [s \in Shipment |-> flour]

Single == [s \in Shipment |-> 1]

FromDepot == [s \in Shipment |-> depot]

AskedOne == [i \in OrderItem |-> 1]

\* The depot holds one of everything, the branch nothing.
OneInDepot == [w \in Warehouse |-> [i \in StockItem |-> IF w = depot THEN 1 ELSE 0]]

\* Bound: flour is issued from the depot by hand once.
Issued == {[wh |-> depot, item |-> flour, type |-> "out", qty |-> 1]}

NoHand == {}

\* The depot holds two of everything.
TwoInDepot == [w \in Warehouse |-> [i \in StockItem |-> IF w = depot THEN 2 ELSE 0]]

\* Clerks are interchangeable.
ClerkSymmetry == Permutations(Clerk)
=============================================================================
