------------------------------ MODULE MCOutbox ------------------------------
(***************************************************************************)
(* Outbox as it is checked: its constants are model values and numbers.    *)
(***************************************************************************)
EXTENDS Outbox
=============================================================================
