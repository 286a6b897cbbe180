--------------------------- MODULE MCWorkflowEngine ---------------------------
(* WorkflowEngine for TLC: four nodes, every graph over the pairs given. *)
EXTENDS WorkflowEngine

(* Edges forward in an order other than that of the keys, one edge back    *)
(* and one loop on a node.                                                 *)
SomePairs == {<<3, 1>>, <<3, 4>>, <<3, 2>>, <<1, 4>>, <<1, 2>>, <<4, 2>>, <<2, 3>>, <<1, 1>>}
=============================================================================
