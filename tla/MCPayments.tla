----------------------------- MODULE MCPayments -----------------------------
(* Payments for TLC: one or two invoices of a few cents each. *)
EXTENDS Payments, TLC

CONSTANTS i1, i2
TotalOfOne == i1 :> 3
TotalOfTwo == i1 :> 3 @@ i2 :> 0

Symmetry == Permutations(Requests) \cup Permutations(Deliveries)
=============================================================================
