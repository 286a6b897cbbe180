--------------------------- MODULE MCVideoPipeline ---------------------------
(* VideoPipeline for TLC. *)
EXTENDS VideoPipeline, TLC

Symmetry == Permutations(Workers)
=============================================================================
