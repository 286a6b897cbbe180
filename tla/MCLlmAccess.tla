----------------------------- MODULE MCLlmAccess -----------------------------
(* LlmAccess for TLC. *)
EXTENDS LlmAccess, TLC

Symmetry == Permutations(Requests)
=============================================================================
