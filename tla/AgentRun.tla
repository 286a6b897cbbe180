------------------------------- MODULE AgentRun -------------------------------
(***************************************************************************)
(* One run of an agent: BaseAgent.run (agents/base/agent.py) with its      *)
(* planner, executor, reflector and policy, under AgentManager.run and     *)
(* AgentService.run, while other requests pause, resume and cancel it.     *)
(*                                                                         *)
(* Everything happens in one event loop: an action is what runs between    *)
(* two awaits, and requests come in at the awaits.  The answers of the     *)
(* language model are any; what they cost is known as far as it exceeds    *)
(* the budget of the policy or does not.                                   *)
(***************************************************************************)
EXTENDS Integers, Sequences, FiniteSets

CONSTANTS
    WorkCounts,      \* how many work tasks the planner may find
    MaxIterations,   \* config.max_iterations
    MaxSteps,        \* policy.max_steps
    Retries          \* retries_for(task.max_retries)

VARIABLES
    reflects,        \* config.reflection_enabled, as the agent's configure() leaves it
    state,           \* AgentState
    goal,            \* GoalStatus
    paused, cancelled,
    tasks,           \* the task graph, in the order of insertion
    planned,         \* number of tasks the plan began with; the last is the synthesis
    round,           \* execute(): tasks of the ready list that are still to be run
    current,         \* the task the executor is busy with, 0 if none
    attempt,
    steps,           \* enforcer.state.steps
    iterations,
    spent,           \* the cost or token ceiling has been exceeded
    pc,
    row              \* status of the committed agent_goal row

requests == <<paused, cancelled>>
work == <<tasks, planned, round, current, attempt>>
limits == <<steps, iterations, spent>>
vars == <<reflects, state, goal, requests, work, limits, pc, row>>

States == {"created", "initializing", "idle", "planning", "executing", "reflecting",
           "paused", "completed", "failed", "cancelled"}
GoalStatuses == {"pending", "active", "completed", "failed", "cancelled"}

(* _TRANSITIONS, for the states that are used (REASONING never is). *)
CanTransition ==
    {<<"created", "initializing">>, <<"created", "cancelled">>,
     <<"initializing", "idle">>, <<"initializing", "failed">>,
     <<"idle", "planning">>, <<"idle", "paused">>, <<"idle", "cancelled">>,
     <<"planning", "executing">>,
     <<"executing", "reflecting">>, <<"executing", "completed">>,
     <<"reflecting", "idle">>, <<"reflecting", "planning">>, <<"reflecting", "completed">>,
     <<"paused", "idle">>, <<"paused", "cancelled">>}
    \cup {"planning", "executing", "reflecting"} \X {"failed", "paused", "cancelled"}

Init ==
    /\ reflects \in BOOLEAN
    /\ state = "created" /\ goal = "pending"
    /\ paused = FALSE /\ cancelled = FALSE
    /\ tasks = <<>> /\ planned = 0 /\ round = {} /\ current = 0 /\ attempt = 0
    /\ steps = 0 /\ iterations = 0 /\ spent = FALSE
    /\ pc = "created"
    /\ row = "none"

-----------------------------------------------------------------------------
(* run(): the except clause. *)
Fails == state' = "failed" /\ goal' = "failed" /\ pc' = "closing"

(* AgentManager.run registers the run and starts it; configure() is awaited. *)
Initialize ==
    /\ pc = "created"
    /\ state' = "initializing" /\ goal' = "active" /\ pc' = "initializing"
    /\ UNCHANGED <<reflects, requests, work, limits, row>>

InitializeFails ==
    /\ pc = "initializing"
    /\ Fails
    /\ UNCHANGED <<reflects, requests, work, limits, row>>

Initialized ==
    /\ pc = "initializing"
    /\ state' = "idle" /\ pc' = "idle"
    /\ UNCHANGED <<reflects, goal, requests, work, limits, row>>

BeginPlan ==
    /\ pc = "idle"
    /\ state' = "planning" /\ pc' = "planning"
    /\ UNCHANGED <<reflects, goal, requests, work, limits, row>>

(* _decompose: understand, then k work tasks, then the synthesis. *)
Plan(k) ==
    [t \in 1..(k + 2) |->
        [status |-> "pending",
         deps |-> IF t = 1 THEN {} ELSE IF t <= k + 1 THEN {1} ELSE 2..(k + 1)]]

(* The outline is asked for and may fail or cost too much: either way there *)
(* is a plan.                                                              *)
Planned ==
    /\ pc = "planning"
    /\ \E k \in WorkCounts : tasks' = Plan(k) /\ planned' = k + 2
    /\ spent' \in BOOLEAN
    /\ state' = "executing" /\ pc' = "deciding"
    /\ UNCHANGED <<reflects, goal, requests, round, current, attempt, steps, iterations, row>>

-----------------------------------------------------------------------------
Tasks == 1..Len(tasks)
HasFailure == \E t \in Tasks : tasks[t].status = "failed"
HasSuccess == \E t \in Tasks : tasks[t].status = "succeeded"
IsComplete == \A t \in Tasks : tasks[t].status \notin {"pending", "running"}

(* A deviation: a dependency need only have run. *)
ReadyAfterFailure ==
    {t \in Tasks : /\ tasks[t].status = "pending"
                   /\ \A d \in tasks[t].deps : tasks[d].status \in {"succeeded", "failed"}}

Ready == {t \in Tasks : /\ tasks[t].status = "pending"
                        /\ \A d \in tasks[t].deps : tasks[d].status = "succeeded"}

(* A deviation: the goal is failed by its state alone. *)
FinishOutOfStep(from) ==
    IF HasFailure /\ ~HasSuccess THEN state' = "failed" /\ goal' = "completed" ELSE
    /\ goal' = "completed"
    /\ state' = IF <<from, "completed">> \in CanTransition THEN "completed" ELSE from

(* finish(): failed if something failed and nothing succeeded.  An illegal *)
(* move to FAILED raises, which comes to the same.                         *)
Finish(from) ==
    IF HasFailure /\ ~HasSuccess THEN state' = "failed" /\ goal' = "failed" ELSE
    /\ goal' = "completed"
    /\ state' = IF <<from, "completed">> \in CanTransition THEN "completed" ELSE from

(* A deviation: cancellation is not looked at again after the loop. *)
LeaveRegardless(from) ==
    \/ /\ reflects /\ <<from, "reflecting">> \in CanTransition
       /\ state' = "reflecting" /\ pc' = "reflecting" /\ UNCHANGED goal
    \/ reflects /\ <<from, "reflecting">> \notin CanTransition /\ Fails
    \/ ~reflects /\ Finish(from) /\ pc' = "closing"

(* run(), after execute() returned in the state from. *)
Leave(from) ==
    \/ cancelled /\ state' = "cancelled" /\ goal' = "cancelled" /\ pc' = "closing"
    \/ /\ ~cancelled /\ reflects /\ <<from, "reflecting">> \in CanTransition
       /\ state' = "reflecting" /\ pc' = "reflecting" /\ UNCHANGED goal
    \/ ~cancelled /\ reflects /\ <<from, "reflecting">> \notin CanTransition /\ Fails
    \/ ~cancelled /\ ~reflects /\ Finish(from) /\ pc' = "closing"

More == ~IsComplete /\ iterations < MaxIterations

(* execute(): the loop is over, or is left for a cancellation. *)
Stop ==
    /\ pc = "deciding"
    /\ ~More \/ cancelled \/ (~paused /\ Ready = {})
    /\ Leave("executing")
    /\ UNCHANGED <<reflects, requests, work, limits, row>>

(* A deviation: the loop waits for resume() instead of returning. *)
WaitWhilePaused ==
    /\ pc = "deciding" /\ More /\ paused /\ ~cancelled
    /\ state' = "paused"
    /\ UNCHANGED <<reflects, goal, requests, work, limits, pc, row>>

(* execute() sets PAUSED and returns; run() goes on at once, so that PAUSED *)
(* is the state only until the next statement but one.                     *)
StopPaused ==
    /\ pc = "deciding" /\ More /\ paused /\ ~cancelled
    /\ state' = "paused" /\ pc' = "pausing"
    /\ UNCHANGED <<reflects, goal, requests, work, limits, row>>

LeavePaused ==
    /\ pc = "pausing"
    /\ Leave("paused")
    /\ UNCHANGED <<reflects, requests, work, limits, row>>

BeginRound ==
    /\ pc = "deciding" /\ More /\ ~paused /\ ~cancelled
    /\ Ready # {}
    /\ round' = Ready /\ pc' = "running"
    /\ UNCHANGED <<reflects, state, goal, requests, tasks, planned, current, attempt, limits, row>>

-----------------------------------------------------------------------------
(* Executor.execute: the tasks of a round one after the other. *)
StartTask ==
    /\ pc = "running" /\ current = 0
    /\ steps < MaxSteps
    /\ \E t \in round :
          /\ \A u \in round : t <= u
          /\ current' = t /\ round' = round \ {t}
          /\ tasks' = [tasks EXCEPT ![t].status = "running"]
    /\ attempt' = 1 /\ steps' = steps + 1
    /\ UNCHANGED <<reflects, state, goal, requests, planned, iterations, spent, pc, row>>

(* check_step raises, outside of the executor's try. *)
StepLimit ==
    /\ pc = "running" /\ current = 0 /\ round # {}
    /\ steps >= MaxSteps
    /\ steps' = steps + 1
    /\ Fails
    /\ UNCHANGED <<reflects, requests, work, iterations, spent, row>>

TaskEnds(status) ==
    /\ tasks' = [tasks EXCEPT ![current].status = status]
    /\ current' = 0 /\ attempt' = 0

TaskSucceeds ==
    /\ pc = "running" /\ current # 0
    /\ ~spent
    /\ TaskEnds("succeeded")
    /\ UNCHANGED <<reflects, state, goal, requests, planned, round, limits, pc, row>>

(* An error or a timeout: once more, or failed. *)
AttemptFails ==
    /\ pc = "running" /\ current # 0
    /\ \/ attempt <= Retries /\ attempt' = attempt + 1 /\ UNCHANGED <<tasks, current>>
       \/ attempt > Retries /\ TaskEnds("failed")
    /\ UNCHANGED <<reflects, state, goal, requests, planned, round, limits, pc, row>>

(* add_usage raises PolicyViolationError: the task is not tried again. *)
BudgetBlocks ==
    /\ pc = "running" /\ current # 0
    /\ spent' = TRUE
    /\ TaskEnds("failed")
    /\ UNCHANGED <<reflects, state, goal, requests, planned, round, steps, iterations, pc, row>>

(* The orders of insertion of some tasks: there is just one. *)
InOrder(some) ==
    {order \in [1..Cardinality(some) -> some] : \A i, j \in DOMAIN order : i < j => order[i] < order[j]}

(* replan(): a recovery task for every task that has failed, with the same *)
(* dependencies, appended in the order of the failed ones.                 *)
WithRecoveries ==
    LET lost == {t \in Tasks : tasks[t].status = "failed"}
    IN  {tasks \o [i \in DOMAIN order |-> [status |-> "pending", deps |-> tasks[order[i]].deps]] :
            order \in InOrder(lost)}

EndRound ==
    /\ pc = "running" /\ current = 0 /\ round = {}
    /\ tasks' \in IF reflects THEN WithRecoveries ELSE {tasks}
    /\ iterations' = iterations + 1
    /\ pc' = "deciding"
    /\ UNCHANGED <<reflects, state, goal, requests, planned, round, current, attempt, steps,
                   spent, row>>

-----------------------------------------------------------------------------
(* reflect() is best effort; learn(), evaluate() and finish() follow it    *)
(* without an await.                                                       *)
Reflected ==
    /\ pc = "reflecting"
    /\ Finish("reflecting")
    /\ spent' \in {spent, TRUE}
    /\ pc' = "closing"
    /\ UNCHANGED <<reflects, requests, work, steps, iterations, row>>

(* The last events are published and the manager forgets the run. *)
Close ==
    /\ pc = "closing"
    /\ pc' = "persisting"
    /\ UNCHANGED <<reflects, state, goal, requests, work, limits, row>>

(* AgentService.run: the goal row and the rows of _persist_run, committed  *)
(* together at the end of the request.                                     *)
Persist ==
    /\ pc = "persisting"
    /\ row' = goal /\ pc' = "recorded"
    /\ UNCHANGED <<reflects, state, goal, requests, work, limits>>

(* The process dies or the transaction fails. *)
Lost ==
    /\ pc \notin {"recorded", "lost"}
    /\ pc' = "lost"
    /\ UNCHANGED <<reflects, state, goal, requests, work, limits, row>>

(* AgentManager.running: the run can be reached by its id.  Between two    *)
(* awaits no request is served.                                            *)
Active == {"initializing", "planning", "running", "reflecting", "closing"}

Pause ==
    /\ pc \in Active /\ paused' = TRUE
    /\ UNCHANGED <<reflects, state, goal, cancelled, work, limits, pc, row>>

Resume ==
    /\ pc \in Active /\ paused' = FALSE
    /\ UNCHANGED <<reflects, state, goal, cancelled, work, limits, pc, row>>

Cancel ==
    /\ pc \in Active /\ cancelled' = TRUE
    /\ UNCHANGED <<reflects, state, goal, paused, work, limits, pc, row>>

Step ==
    \/ Initialize \/ InitializeFails \/ Initialized \/ BeginPlan \/ Planned
    \/ Stop \/ StopPaused \/ LeavePaused \/ BeginRound
    \/ StartTask \/ StepLimit \/ TaskSucceeds \/ AttemptFails \/ BudgetBlocks \/ EndRound
    \/ Reflected \/ Close \/ Persist

Next == Step \/ Pause \/ Resume \/ Cancel \/ Lost

Spec == Init /\ [][Next]_vars

-----------------------------------------------------------------------------
(* The run stays within its limits: retries, steps and iterations. *)
TypeOK ==
    /\ reflects \in BOOLEAN /\ paused \in BOOLEAN /\ cancelled \in BOOLEAN
    /\ spent \in BOOLEAN
    /\ state \in States /\ goal \in GoalStatuses
    /\ tasks \in Seq([status : {"pending", "running", "succeeded", "failed"}, deps : SUBSET Nat])
    /\ planned \in 0..Len(tasks)
    /\ round \subseteq Tasks
    /\ current \in 0..Len(tasks)
    /\ attempt \in 0..(Retries + 1)
    /\ steps \in 0..(MaxSteps + 1)
    /\ iterations \in 0..MaxIterations
    /\ pc \in {"created", "idle", "deciding", "pausing", "persisting", "recorded", "lost"}
             \cup Active
    /\ row \in {"none"} \cup GoalStatuses
=============================================================================
