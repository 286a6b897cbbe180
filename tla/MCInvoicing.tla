----------------------------- MODULE MCInvoicing -----------------------------
(* Invoicing for TLC, through Billing, where there is nothing to be paid:    *)
(* one metric with an allowance of one unit.                                 *)
EXTENDS Billing, TLC

CONSTANTS publish
AllowanceOfOne == publish :> 1

NoTotals == [i \in {} |-> 0]

Symmetry == Permutations(Sessions)
=============================================================================
