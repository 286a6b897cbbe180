----------------------------- MODULE MCJobQueue -----------------------------
(* JobQueue for TLC, through Executions: there are no workflows, and the     *)
(* agent does not move.                                                      *)
EXTENDS Executions, TLC

Symmetry == Permutations(Callers)
=============================================================================
