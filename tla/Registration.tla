---------------------------- MODULE Registration ----------------------------
(***************************************************************************)
(* What the payment module promises the rest of the system about a         *)
(* payment: it is registered once, and resolved once.  A completed payment *)
(* has one receipt and has been announced once; it may be voided later,    *)
(* once; a failed one stays failed.  Nothing here knows of workers,        *)
(* devices, retries or webhooks.                                           *)
(***************************************************************************)
EXTENDS Naturals

CONSTANT Payment

VARIABLES
  status,     \* "none", "pending", "completed", "failed" or "voided"
  receipts,   \* fiscal receipts on file for the payment
  completed,  \* payment.completed announcements
  voided      \* payment.voided announcements

vars == <<status, receipts, completed, voided>>

Init ==
  /\ status = [p \in Payment |-> "none"]
  /\ receipts = [p \in Payment |-> 0]
  /\ completed = [p \in Payment |-> 0]
  /\ voided = [p \in Payment |-> 0]

Moves(p, from, to) ==
  /\ status[p] \in from
  /\ status' = [status EXCEPT ![p] = to]

Register(p) ==
  /\ Moves(p, {"none"}, "pending")
  /\ UNCHANGED <<receipts, completed, voided>>

Complete(p) ==
  /\ Moves(p, {"pending"}, "completed")
  /\ receipts' = [receipts EXCEPT ![p] = 1]
  /\ completed' = [completed EXCEPT ![p] = 1]
  /\ UNCHANGED voided

Fail(p) ==
  /\ Moves(p, {"pending"}, "failed")
  /\ UNCHANGED <<receipts, completed, voided>>

Void(p) ==
  /\ Moves(p, {"pending", "completed"}, "voided")
  /\ voided' = [voided EXCEPT ![p] = 1]
  /\ UNCHANGED <<receipts, completed>>

Next == \E p \in Payment : Register(p) \/ Complete(p) \/ Fail(p) \/ Void(p)

Spec == Init /\ [][Next]_vars
=============================================================================
