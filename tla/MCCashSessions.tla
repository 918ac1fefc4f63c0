--------------------------- MODULE MCCashSessions ---------------------------
(***************************************************************************)
(* Values for the constants of CashSessions: two managers open and close   *)
(* two sessions around two cash sales and one card sale.                   *)
(***************************************************************************)
EXTENDS CashSessions, TLC

CONSTANTS d1, d2, c1, c2, card, m1, m2

\* Sessions, managers and the cash sales are interchangeable.
CashSymmetry ==
  Permutations(Session) \cup Permutations(Manager) \cup Permutations(Cash)
=============================================================================
