-------------------------- MODULE MCFiscalPipeline --------------------------
(***************************************************************************)
(* Values for the constants of FiscalPipeline.                             *)
(***************************************************************************)
EXTENDS FiscalPipeline

CONSTANTS p1, p2, t1, t2

\* Two payments of one branch: their baskets share a terminal.
SharedTerminal == [p \in Payment |-> t1]
=============================================================================
