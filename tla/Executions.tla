------------------------------ MODULE Executions ------------------------------
(***************************************************************************)
(* The three ways in which the backend carries out work and keeps a        *)
(* record of it: executions of workflows (WorkflowEngine), runs of agents  *)
(* (AgentRun, here AR) and background jobs (JobQueue, here JQ).            *)
(*                                                                         *)
(* They write rows of their own and share no state, so each specification  *)
(* below moves one of them while the others stand where they began.        *)
(***************************************************************************)
EXTENDS WorkflowEngine, FiniteSets

CONSTANTS
    WorkCounts, MaxIterations, MaxSteps, Retries,    \* AgentRun
    Jobs, Callers, MaxAttempts, MaxVersion           \* JobQueue

ASSUME AgentAssumption ==
    /\ WorkCounts \subseteq Nat \ {0}
    /\ MaxIterations \in Nat /\ MaxSteps \in Nat /\ Retries \in Nat

ASSUME JobQueueAssumption ==
    MaxAttempts \in Nat \ {0} /\ MaxVersion \in Nat /\ IsFiniteSet(Callers)

VARIABLES
    (* AgentRun; its pc and row are agentPc and goalRow *)
    reflects, state, goal, paused, cancelled, tasks, planned, round, current, attempt,
    steps, iterations, spent, agentPc, goalRow,
    (* JobQueue *)
    jobs, call, starts, failures, requeues

AR == INSTANCE AgentRun WITH pc <- agentPc, row <- goalRow
JQ == INSTANCE JobQueue

agent == <<reflects, state, goal, paused, cancelled, tasks, planned, round, current, attempt,
           steps, iterations, spent, agentPc, goalRow>>
queue == <<jobs, call, starts, failures, requeues>>
all == <<vars, agent, queue>>

Begin == Init /\ AR!Init /\ JQ!Init

AgentStep == AR!Step /\ UNCHANGED <<vars, queue>>

(* A run of an agent.  The event loop goes on with it: model calls end or  *)
(* time out.                                                               *)
AgentRunSpec ==
    /\ Begin
    /\ [][AR!Next /\ UNCHANGED <<vars, queue>>]_all
    /\ WF_all(AgentStep)

(* Callers at work on background jobs. *)
JobSpec == Begin /\ [][JQ!Next /\ UNCHANGED <<vars, agent>>]_all

-----------------------------------------------------------------------------
(* "ready() returns tasks whose dependencies have all succeeded": whatever *)
(* replanning adds to the graph while the run goes on, a task that has     *)
(* been started has dependencies that succeeded before.                    *)
DependenciesSucceeded ==
    \A t \in AR!Tasks : tasks[t].status # "pending" =>
        \A d \in tasks[t].deps : d \in AR!Tasks /\ tasks[d].status = "succeeded"

(* A run that is over says the same of the agent, of its goal and in the   *)
(* row.  The one exception is an agent without reflection that has been    *)
(* paused: its goal is completed while the agent is still called paused.   *)
OutcomeAgrees ==
    agentPc \in {"closing", "persisting", "recorded"} =>
        /\ state # goal => state = "paused" /\ goal = "completed" /\ ~reflects
        /\ goal \in {"completed", "failed", "cancelled"}
        /\ goalRow # "none" => goalRow = goal

(* A cancellation that is asked for while the agent plans or executes is   *)
(* not overtaken by the completion of the run, not even when the round in  *)
(* hand finishes the graph.                                                *)
CancelTakesEffect ==
    (cancelled /\ agentPc \in {"initializing", "planning", "running"})
        ~> (goal \in {"cancelled", "failed"} \/ agentPc = "lost")

(* However tasks fail and are replanned, and whether or not someone pauses *)
(* the run and forgets it, a run ends.                                     *)
RunTerminates == <>(agentPc \in {"recorded", "lost"})

(* agents/base/lifecycle.py: the state machine that "keeps the manager,    *)
(* monitor, and API in agreement about what an agent is doing and what     *)
(* transitions are valid".  It does not hold: see README.md.               *)
LegalMoves == [][state' # state => <<state, state'>> \in AR!CanTransition]_agent

(* attempts counts every start that was committed, although mark_running   *)
(* is a read-modify-write that workers, cancels and retries race.          *)
AttemptsCountStarts == \A j \in Jobs : jobs[j].attempts = starts[j]

(* retry: "Requeue a failed job that still has attempts left."  Over the   *)
(* life of a job it is requeued fewer than max_attempts times, and never   *)
(* more often than it failed, even when several workers held it at once    *)
(* and reported one after the other.                                       *)
RequeuesWithinBudget ==
    \A j \in Jobs : requeues[j] < MaxAttempts /\ requeues[j] <= failures[j]

(* A job leaves SUCCEEDED or CANCELLED only while a worker that holds it   *)
(* is committing its report: no start or retry that read the row before    *)
(* it got there, and no cancel of a job that succeeded, moves it.          *)
OnlyLateReportsReopen ==
    [][\A j \in Jobs :
          jobs[j].status \in JQ!TerminalStatuses /\ jobs'[j].status # jobs[j].status =>
              \E c \in Callers : call[c].job = j
                                 /\ call[c].pc \in {"mark_succeeded", "mark_failed"}]_queue
=============================================================================
