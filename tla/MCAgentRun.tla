------------------------------ MODULE MCAgentRun ------------------------------
(* AgentRun for TLC, through Executions: there are no workflows and no jobs. *)
EXTENDS Executions
=============================================================================
