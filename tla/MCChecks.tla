------------------------------ MODULE MCChecks ------------------------------
(***************************************************************************)
(* Values for the constants of Checks.  Checks are interchangeable only    *)
(* where no sale names one, sales only where they are alike.               *)
(***************************************************************************)
EXTENDS Checks, TLC

CONSTANTS c1, s1, s2, s3, s4, s5

\* Every line is worth three.
EvenPrices == [i \in Item |-> 3]

\* Every sale is on the first check.
OnOneCheck == [s \in Sale |-> c1]

\* The last sale has no check.
LastWithoutCheck == [s \in Sale |-> IF s = s4 THEN NoCheck ELSE c1]

OwnKeys == [s \in Sale |-> s]

\* Three requests carry one key: two for the check, one without a check.
RetriedKey == [s \in Sale |-> IF s \in {s3, s5} THEN s ELSE s1]

TwoUnits == [s \in Sale |-> 2]

ThreeUnits == [s \in Sale |-> 3]

NoRounding == [s \in Sale |-> 0]

\* Three sales of two units on a check are rounded down by one and settle three.
RoundedByOne == [s \in Sale |-> IF s \in {s4, s5} THEN 0 ELSE 1]

\* No sale names a check where there is none.
FloorSymmetry ==
  Permutations(Check) \cup Permutations(Table) \cup Permutations(Order) \cup Permutations(Item)

\* Orders are always alike.
OrderSymmetry == Permutations(Order)

\* So are the lines.
ItemSymmetry == Permutations(Item)
=============================================================================
