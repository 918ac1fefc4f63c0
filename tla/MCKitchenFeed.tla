--------------------------- MODULE MCKitchenFeed ---------------------------
(***************************************************************************)
(* Values for the constants of KitchenFeed: one station, a board or a till.*)
(***************************************************************************)
EXTENDS KitchenFeed

CONSTANTS c1
=============================================================================
