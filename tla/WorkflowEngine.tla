---------------------------- MODULE WorkflowEngine ----------------------------
(***************************************************************************)
(* One execution of a workflow graph: WorkflowGraph.levels and             *)
(* WorkflowEngine (core/workflow/engine.py) under WorkflowService.execute  *)
(* (services/workflow.py).                                                 *)
(*                                                                         *)
(* The graph is layered into levels, the conditions on the edges into a    *)
(* level decide which of its nodes run, those run concurrently, and the    *)
(* results are collected in the order of the keys when all have ended.     *)
(* The graph and the truth of its conditions are any.                      *)
(***************************************************************************)
EXTENDS Integers

CONSTANTS
    Nodes,           \* node keys, ordered as sorted() orders them
    Pairs,           \* pairs of nodes that may be joined by an edge
    Loops,           \* nodes that are loops: their handler is called for every item
    MaxPasses        \* MAX_LOOP_ITERATIONS

ASSUME WorkflowAssumption ==
    Nodes \subseteq Int /\ Pairs \subseteq Nodes \X Nodes /\ MaxPasses \in Nat

VARIABLES
    edges,           \* the graph
    holds,           \* edges whose condition is absent or true when it is evaluated
    level,           \* levels(): the level of a node, 0 while it has none
    depth,           \* levels(): the number of levels
    at,              \* _run_levels: the level in hand
    status,          \* what has become of a node
    calls,           \* how often the handler of a node has been called
    outcomes,        \* the outcome recorded for a node
    pc,
    row              \* status of the committed workflow_execution row

graph == <<edges, holds>>
layers == <<level, depth>>
vars == <<graph, layers, at, status, calls, outcomes, pc, row>>

(* "scheduled": gather has made a task of the node that has not started.   *)
(* "succeeded": the node's output is in run_context.                       *)
Statuses == {"waiting", "skipped", "scheduled", "running", "returned", "raised", "succeeded"}
Outcomes == {"none", "skipped", "succeeded", "failed"}
Ended == {"succeeded", "failed"}

NoOutcomes == [n \in Nodes |-> "none"]

Init ==
    /\ edges \in SUBSET Pairs
    /\ holds \in SUBSET edges
    /\ level = [n \in Nodes |-> 0]
    /\ depth = 0
    /\ at = 1
    /\ status = [n \in Nodes |-> "waiting"]
    /\ calls = [n \in Nodes |-> 0]
    /\ outcomes = NoOutcomes
    /\ pc = "placing"
    /\ row = "none"

-----------------------------------------------------------------------------
(* A deviation: a node is ready when one of its edges is satisfied. *)
ReadyByAny ==
    {n \in Nodes : /\ level[n] = 0
                   /\ \/ \A m \in Nodes : <<m, n>> \notin edges
                      \/ \E m \in Nodes : <<m, n>> \in edges /\ level[m] # 0}

(* levels(): the nodes none of whose incoming edges starts at a node that  *)
(* is not placed yet.                                                      *)
Ready == {n \in Nodes : level[n] = 0 /\ \A m \in Nodes : <<m, n>> \in edges => level[m] # 0}
Unplaced == {n \in Nodes : level[n] = 0}

Place ==
    /\ pc = "placing"
    /\ Ready # {}
    /\ depth' = depth + 1
    /\ level' = [n \in Nodes |-> IF n \in Ready THEN depth + 1 ELSE level[n]]
    /\ UNCHANGED <<graph, at, status, calls, outcomes, pc, row>>

(* A deviation: a cycle is not noticed. *)
PlacedWithoutCheck ==
    /\ pc = "placing"
    /\ Unplaced = {}
    /\ pc' = "deciding"
    /\ UNCHANGED <<graph, layers, at, status, calls, outcomes, row>>

(* Nothing is ready: all are placed, or there is a cycle. *)
Placed ==
    /\ pc = "placing"
    /\ Ready = {}
    /\ pc' = IF Unplaced = {} THEN "deciding" ELSE "failed"
    /\ UNCHANGED <<graph, layers, at, status, calls, outcomes, row>>

-----------------------------------------------------------------------------
Here == {n \in Nodes : level[n] = at}

(* A deviation: a skipped source does not matter. *)
ReachableAnyway(n) ==
    \/ \A m \in Nodes : <<m, n>> \notin edges
    \/ \E m \in Nodes : <<m, n>> \in holds

(* _is_reachable: an entry point, or one condition holds on an edge whose  *)
(* source was not skipped.                                                 *)
Reachable(n) ==
    \/ \A m \in Nodes : <<m, n>> \notin edges
    \/ \E m \in Nodes : <<m, n>> \in holds /\ status[m] # "skipped"

(* A deviation: a node that is skipped leaves no record. *)
DecideSilently ==
    /\ pc = "deciding" /\ at <= depth
    /\ LET runnable == {n \in Here : Reachable(n)}
       IN  /\ status' = [n \in Nodes |-> IF n \in runnable THEN "scheduled"
                                         ELSE IF n \in Here THEN "skipped" ELSE status[n]]
           /\ pc' = IF runnable = {} THEN "deciding" ELSE "running"
           /\ at' = IF runnable = {} THEN at + 1 ELSE at
    /\ UNCHANGED <<graph, layers, calls, outcomes, row>>

(* One pass of the loop in _run_levels, up to the gather. *)
Decide ==
    /\ pc = "deciding" /\ at <= depth
    /\ LET runnable == {n \in Here : Reachable(n)}
       IN  /\ status' = [n \in Nodes |-> IF n \in runnable THEN "scheduled"
                                         ELSE IF n \in Here THEN "skipped" ELSE status[n]]
           /\ outcomes' = [n \in Nodes |-> IF n \in Here \ runnable THEN "skipped"
                                           ELSE outcomes[n]]
           /\ pc' = IF runnable = {} THEN "deciding" ELSE "running"
           /\ at' = IF runnable = {} THEN at + 1 ELSE at
    /\ UNCHANGED <<graph, layers, calls, row>>

(* A condition that does not hold may raise ExpressionError instead, which *)
(* carries no outcomes: execute() finds none to record.                    *)
ConditionRaises ==
    /\ pc = "deciding" /\ at <= depth
    /\ \E n \in Here, m \in Nodes : <<m, n>> \in edges \ holds /\ status[m] # "skipped"
    /\ pc' = "failed"
    /\ outcomes' = NoOutcomes
    /\ UNCHANGED <<graph, layers, at, status, calls, row>>

(* gather starts the tasks of the level in the order of the keys, on one   *)
(* thread: each comes to its first await before the next one starts, and   *)
(* until all have started the one that started last is at work.            *)
StartsNext(n) ==
    /\ status[n] = "scheduled"
    /\ \A m \in Nodes : status[m] = "scheduled" => n <= m

AtWork(n) ==
    /\ status[n] = "running"
    /\ \A m \in Nodes : status[m] = "scheduled" =>
           \A k \in Here : k > n => status[k] \in {"scheduled", "skipped"}

(* _run_node: the task of a node starts and calls its handler, as          *)
(* _run_loop does for the first item.                                      *)
Start(n) ==
    /\ pc # "lost" /\ StartsNext(n)
    /\ n \in Loops => MaxPasses > 0
    /\ status' = [status EXCEPT ![n] = "running"]
    /\ calls' = [calls EXCEPT ![n] = 1]
    /\ UNCHANGED <<graph, layers, at, outcomes, pc, row>>

(* It ends before any call: there is no handler for the type of the node,  *)
(* or a loop has no expression, no list or too long a list; a loop over an *)
(* empty list returns.                                                     *)
EndsUncalled(n, result) ==
    /\ pc # "lost" /\ StartsNext(n)
    /\ result = "returned" => n \in Loops
    /\ status' = [status EXCEPT ![n] = result]
    /\ UNCHANGED <<graph, layers, at, calls, outcomes, pc, row>>

(* _run_loop: the handler has returned, and is called for the next item.   *)
CallAgain(n) ==
    /\ pc # "lost" /\ AtWork(n)
    /\ n \in Loops /\ calls[n] < MaxPasses
    /\ calls' = [calls EXCEPT ![n] = @ + 1]
    /\ UNCHANGED <<graph, layers, at, status, outcomes, pc, row>>

(* The handler raises, or it returns and no further call is to be made.    *)
HandlerEnds(n, result) ==
    /\ pc # "lost" /\ AtWork(n)
    /\ status' = [status EXCEPT ![n] = result]
    /\ UNCHANGED <<graph, layers, at, calls, outcomes, pc, row>>

(* What gather waits for, errors or not. *)
AllEnded == \A n \in Nodes : status[n] \notin {"scheduled", "running"}

CollectResults ==
    /\ pc = "running" /\ AllEnded
    /\ \A n \in Here : status[n] # "raised"
    /\ status' = [n \in Nodes |-> IF status[n] = "returned" THEN "succeeded" ELSE status[n]]
    /\ outcomes' = [n \in Nodes |-> IF status[n] = "returned" THEN "succeeded"
                                    ELSE outcomes[n]]
    /\ at' = at + 1
    /\ pc' = "deciding"
    /\ UNCHANGED <<graph, layers, calls, row>>

(* A deviation: gather without return_exceptions, which hands on the first *)
(* error while the other tasks go on.                                      *)
CollectFirstError ==
    /\ pc = "running"
    /\ \E first \in Here :
          /\ status[first] = "raised"
          /\ outcomes' = [outcomes EXCEPT ![first] = "failed"]
    /\ pc' = "failed"
    /\ UNCHANGED <<graph, layers, at, status, calls, row>>

(* The results are gone through in the order of the keys up to the first   *)
(* that is an error, which is raised with the outcomes up to it.           *)
CollectError ==
    /\ pc = "running" /\ AllEnded
    /\ \E first \in Here :
          /\ status[first] = "raised"
          /\ \A n \in Here : status[n] = "raised" => first <= n
          /\ status' = [n \in Nodes |-> IF status[n] = "returned" /\ n < first
                                        THEN "succeeded" ELSE status[n]]
          /\ outcomes' = [n \in Nodes |->
                             IF n = first THEN "failed"
                             ELSE IF status[n] = "returned" /\ n < first THEN "succeeded"
                             ELSE outcomes[n]]
    /\ pc' = "failed"
    /\ UNCHANGED <<graph, layers, at, calls, row>>

LevelsDone ==
    /\ pc = "deciding" /\ at > depth
    /\ pc' = "succeeded"
    /\ UNCHANGED <<graph, layers, at, status, calls, outcomes, row>>

-----------------------------------------------------------------------------
(* execute(): the execution row and one row per outcome, in one            *)
(* transaction with the insert of the row itself.                          *)
Record ==
    /\ pc \in Ended
    /\ row' = pc
    /\ pc' = "recorded"
    /\ UNCHANGED <<graph, layers, at, status, calls, outcomes>>

(* The process dies or the commit fails: there is no row at all. *)
Lost ==
    /\ pc \notin {"recorded", "lost"}
    /\ pc' = "lost"
    /\ UNCHANGED <<graph, layers, at, status, calls, outcomes, row>>

Step ==
    \/ Place \/ Placed \/ Decide \/ ConditionRaises
    \/ \E n \in Nodes : Start(n) \/ CallAgain(n)
    \/ \E n \in Nodes, result \in {"returned", "raised"} :
          EndsUncalled(n, result) \/ HandlerEnds(n, result)
    \/ CollectResults \/ CollectError \/ LevelsDone \/ Record

Next == Step \/ Lost

Spec == Init /\ [][Next]_vars

(* The event loop goes on with the execution, and handlers end. *)
FairSpec == Spec /\ WF_vars(Step)

-----------------------------------------------------------------------------
(* The graph, the layers and the outcomes have the shapes above. *)
TypeOK ==
    /\ edges \in SUBSET Pairs
    /\ holds \in SUBSET edges
    /\ level \in [Nodes -> Nat]
    /\ depth \in Nat
    /\ at \in Nat
    /\ status \in [Nodes -> Statuses]
    /\ calls \in [Nodes -> Nat]
    /\ outcomes \in [Nodes -> Outcomes]
    /\ pc \in {"placing", "deciding", "running", "recorded", "lost"} \cup Ended
    /\ row \in {"none"} \cup Ended

(* levels(): "Everything in one level is independent of everything else in *)
(* it".  When the handler of a node is called, every node with an edge to  *)
(* it has been settled before, so the conditions and the handler see all   *)
(* the results they may refer to.                                          *)
RunsAfterPredecessors ==
    \A m, n \in Nodes :
        <<m, n>> \in edges /\ status[n] # "waiting" => status[m] \in {"succeeded", "skipped"}

(* The nodes that a chain of edges that hold leads to from an entry point: *)
(* those in every set that has the entry points and is closed under holds. *)
Reached ==
    {n \in Nodes :
        \A S \in SUBSET Nodes :
            /\ \A e \in Nodes : (\A m \in Nodes : <<m, e>> \notin edges) => e \in S
            /\ \A p \in holds : p[1] \in S => p[2] \in S
            => n \in S}

(* "A node runs when at least one incoming edge is satisfied and that      *)
(* edge's source actually ran."  Going level by level, the engine calls    *)
(* the handlers of exactly the nodes that are reached over edges that      *)
(* hold, and skips the others.                                             *)
RunsWhatIsReached ==
    \A n \in Nodes : /\ status[n] \notin {"waiting", "skipped"} => n \in Reached
                     /\ status[n] = "skipped" => n \notin Reached

(* "Each run writes a WorkflowNodeExecution per node."  Of a run that      *)
(* succeeds that is true, and what a failed run recorded is a beginning of *)
(* it: a node's row is never there without those of the nodes before it,   *)
(* and it says what happened to the node.                                  *)
RecordIsABeginning ==
    /\ \A m, n \in Nodes :
          <<m, n>> \in edges /\ outcomes[n] # "none" => outcomes[m] \in {"succeeded", "skipped"}
    /\ \A n \in Nodes :
          /\ outcomes[n] \in {"succeeded", "skipped"} => status[n] = outcomes[n]
          /\ outcomes[n] = "failed" => status[n] = "raised" /\ pc \notin {"deciding", "succeeded"}
          /\ row = "succeeded" => outcomes[n] \in {"succeeded", "skipped"}

(* "Independent nodes run concurrently; one failure stops the run."  It    *)
(* does at the end of the level: after a handler has raised, the handlers  *)
(* of its siblings are still called, those of loops again and again, but   *)
(* no handler of another level, and none at all once the run has failed.   *)
FailureStopsTheRun ==
    [][\A m, n \in Nodes :
          status[m] = "raised" /\ calls'[n] # calls[n] => level[n] = level[m] /\ pc = "running"]_vars

(* Whatever the graph, cyclic ones included, an execution ends.            *)
Terminates == <>(pc \in {"recorded", "lost"})
=============================================================================
