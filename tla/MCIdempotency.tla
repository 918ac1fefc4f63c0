--------------------------- MODULE MCIdempotency ---------------------------
(***************************************************************************)
(* Values for the constants of Idempotency.                                *)
(***************************************************************************)
EXTENDS Idempotency, TLC

\* Requests are alike, and so are bodies.
RequestSymmetry == Permutations(Request) \cup Permutations(Body)
=============================================================================
