--------------------------- MODULE ExecutionsProofs ---------------------------
(***************************************************************************)
(* What executions of workflows, runs of agents and background jobs        *)
(* guarantee, one after the other: for every graph over every set of       *)
(* nodes, for every plan and however often it is replanned, and for any    *)
(* jobs and callers.                                                       *)
(***************************************************************************)
EXTENDS Executions, Sequences, FiniteSetTheorems, SequenceTheorems, TLAPS

-----------------------------------------------------------------------------
(* Workflows.  The inductive invariant says what levels() has built        *)
(* (Layered), how far the walk over the levels has come (Walked), and that *)
(* the outcomes keep up with the walk (Kept).                              *)

Settled == {"succeeded", "skipped"}

(* Every edge into a placed node comes from a node placed on an earlier    *)
(* level; all are placed once the walk begins.                             *)
Layered ==
    /\ \A n \in Nodes : level[n] <= depth
    /\ \A m, n \in Nodes :
          <<m, n>> \in edges /\ level[n] # 0 => level[m] # 0 /\ level[m] < level[n]
    /\ pc \in {"deciding", "running", "succeeded"} => \A n \in Nodes : level[n] # 0

(* The levels before the one in hand are settled and those after it are    *)
(* untouched; so is the one in hand before it is decided.  Tasks of nodes  *)
(* are there only while the engine waits for them.                         *)
Walked ==
    /\ at >= 1
    /\ pc = "placing" => at = 1 /\ \A n \in Nodes : status[n] = "waiting"
    /\ \A n \in Nodes : status[n] # "waiting" => level[n] # 0 /\ level[n] <= at
    /\ \A n \in Nodes : level[n] # 0 /\ level[n] < at => status[n] \in Settled
    /\ pc = "deciding" => \A n \in Nodes : level[n] = at => status[n] = "waiting"
    /\ pc = "running" => \A n \in Nodes : level[n] = at => status[n] # "waiting"
    /\ (\E n \in Nodes : status[n] = "raised") => pc \in {"running", "failed", "recorded", "lost"}
    /\ pc \notin {"running", "lost"} => \A n \in Nodes : status[n] \notin {"scheduled", "running"}

(* Until the engine stops, what is settled is recorded. *)
Kept ==
    /\ pc \in {"placing", "deciding", "running", "succeeded"} =>
          \A n \in Nodes : /\ status[n] \in Settled => outcomes[n] = status[n]
                           /\ outcomes[n] # "failed"
    /\ \A m, n \in Nodes :
          <<m, n>> \in edges /\ outcomes[n] # "none" => outcomes[m] \in Settled
    /\ \A n \in Nodes : /\ outcomes[n] \in Settled => status[n] = outcomes[n]
                        /\ outcomes[n] = "failed" => status[n] = "raised"
    /\ pc = "succeeded" => \A n \in Nodes : outcomes[n] \in Settled
    /\ row # "none" => pc = "recorded"
    /\ row = "succeeded" => \A n \in Nodes : outcomes[n] \in Settled

Inv == TypeOK /\ Layered /\ Walked /\ Kept

-----------------------------------------------------------------------------
(* The states before an execution has begun satisfy the invariant. *)
LEMMA InitInv == Init => Inv
BY WorkflowAssumption DEF Init, Inv, TypeOK, Layered, Walked, Kept, NoOutcomes, Statuses,
   Outcomes, Ended, Settled

(* A step of the task of a node moves that node only, and nothing else.    *)
TaskStep ==
    \/ \E n \in Nodes : Start(n) \/ CallAgain(n)
    \/ \E n \in Nodes, result \in {"returned", "raised"} :
          EndsUncalled(n, result) \/ HandlerEnds(n, result)

LEMMA TaskMoves ==
    ASSUME TypeOK, TaskStep
    PROVE  /\ pc # "lost" /\ UNCHANGED <<edges, holds, level, depth, at, outcomes, pc, row>>
           /\ calls' \in [Nodes -> Nat]
           /\ \E n \in Nodes, new \in {"running", "returned", "raised"} :
                 /\ status[n] \in {"scheduled", "running"}
                 /\ status' = [status EXCEPT ![n] = new]
                 /\ \A k \in Nodes : calls'[k] # calls[k] => k = n
<1>1. ASSUME NEW n \in Nodes, Start(n) \/ CallAgain(n)
      PROVE  /\ calls' \in [Nodes -> Nat]
             /\ status[n] \in {"scheduled", "running"}
             /\ status' = [status EXCEPT ![n] = "running"]
             /\ \A k \in Nodes : calls'[k] # calls[k] => k = n
  BY <1>1 DEF Start, CallAgain, StartsNext, AtWork, TypeOK
<1>2. ASSUME NEW n \in Nodes, NEW result \in {"returned", "raised"},
             EndsUncalled(n, result) \/ HandlerEnds(n, result)
      PROVE  /\ calls' = calls
             /\ status[n] \in {"scheduled", "running"}
             /\ status' = [status EXCEPT ![n] = result]
  BY <1>2 DEF EndsUncalled, HandlerEnds, StartsNext, AtWork
<1>3. pc # "lost" /\ UNCHANGED <<edges, holds, level, depth, at, outcomes, pc, row>>
  BY DEF TaskStep, Start, CallAgain, EndsUncalled, HandlerEnds, graph, layers
<1>4. CASE \E n \in Nodes : Start(n) \/ CallAgain(n)
  BY <1>1, <1>3, <1>4
<1>5. CASE \E n \in Nodes, result \in {"returned", "raised"} :
              EndsUncalled(n, result) \/ HandlerEnds(n, result)
  BY <1>2, <1>3, <1>5 DEF TypeOK
<1> QED BY <1>4, <1>5 DEF TaskStep

(* Every step of the engine keeps the shapes of its state. *)
LEMMA TypeStep == ASSUME TypeOK, [Next]_vars PROVE TypeOK'
<1> USE DEF TypeOK, Statuses, Outcomes, Ended
<1>1. CASE Place
  <2>1. level' \in [Nodes -> Nat]
    BY <1>1 DEF Place
  <2> QED BY <1>1, <2>1 DEF Place, graph
<1>2. CASE Placed
  BY <1>2 DEF Placed, graph, layers
<1>3. CASE Decide
  <2>1. status' \in [Nodes -> Statuses] /\ outcomes' \in [Nodes -> Outcomes]
    BY <1>3 DEF Decide
  <2>2. pc' \in {"deciding", "running"} /\ at' \in Nat
    BY <1>3 DEF Decide
  <2> QED BY <1>3, <2>1, <2>2 DEF Decide, graph, layers
<1>4. CASE ConditionRaises
  BY <1>4 DEF ConditionRaises, NoOutcomes, graph, layers
<1>5. CASE TaskStep
  BY <1>5, TaskMoves
<1>6. CASE CollectResults
  BY <1>6 DEF CollectResults, graph, layers
<1>7. CASE CollectError
  <2>1. PICK first \in Here :
           /\ status' = [n \in Nodes |-> IF status[n] = "returned" /\ n < first
                                         THEN "succeeded" ELSE status[n]]
           /\ outcomes' = [n \in Nodes |->
                              IF n = first THEN "failed"
                              ELSE IF status[n] = "returned" /\ n < first THEN "succeeded"
                              ELSE outcomes[n]]
    BY <1>7 DEF CollectError
  <2> QED BY <1>7, <2>1 DEF CollectError, graph, layers
<1>8. CASE LevelsDone
  BY <1>8 DEF LevelsDone, graph, layers
<1>9. CASE Record
  BY <1>9 DEF Record, graph, layers
<1>10. CASE Lost
  BY <1>10 DEF Lost, graph, layers
<1>11. CASE UNCHANGED vars
  BY <1>11 DEF vars, graph, layers
<1> QED BY <1>1, <1>2, <1>3, <1>4, <1>5, <1>6, <1>7, <1>8, <1>9, <1>10, <1>11
   DEF Next, Step, TaskStep

(* A step that leaves the layers alone keeps them, if it begins the walk   *)
(* only when all is placed.                                                *)
LEMMA SameLayers ==
    ASSUME TypeOK, Layered, UNCHANGED <<edges, level, depth>>,
           pc' \in {"deciding", "running", "succeeded"} => \A n \in Nodes : level[n] # 0
    PROVE  Layered'
BY DEF Layered, TypeOK

(* levels() puts the ready nodes on a level of their own, above all others. *)
LEMMA LayeredStep == ASSUME Inv, [Next]_vars PROVE Layered'
<1> USE DEF Inv, TypeOK
<1>1. CASE Place
  <2>1. \A n \in Nodes : level'[n] = IF n \in Ready THEN depth + 1 ELSE level[n]
    BY <1>1 DEF Place
  <2>2. \A n \in Nodes : level'[n] <= depth'
    BY <1>1, <2>1 DEF Place, Layered
  <2>3. ASSUME NEW m \in Nodes, NEW n \in Nodes, <<m, n>> \in edges, level'[n] # 0
        PROVE  level'[m] # 0 /\ level'[m] < level'[n]
    <3>1. CASE n \in Ready
      BY <2>1, <2>3, <3>1 DEF Ready, Layered
    <3>2. CASE n \notin Ready
      BY <2>1, <2>3, <3>2 DEF Ready, Layered
    <3> QED BY <3>1, <3>2
  <2> QED BY <1>1, <2>2, <2>3 DEF Place, Layered, graph
<1>2. CASE Placed
  BY <1>2, SameLayers DEF Placed, Unplaced, graph, layers
<1>3. CASE Next /\ ~Place /\ ~Placed
  <2>1. CASE TaskStep
    BY <2>1, TaskMoves, SameLayers DEF Layered
  <2>2. CASE ~TaskStep
    <3>1. UNCHANGED <<edges, level, depth>>
      BY <1>3, <2>2 DEF Next, Step, TaskStep, Decide, ConditionRaises, CollectResults,
         CollectError, LevelsDone, Record, Lost, graph, layers
    <3>2. pc' \in {"deciding", "running", "succeeded"}
             => pc \in {"deciding", "running", "succeeded"}
      BY <1>3, <2>2 DEF Next, Step, TaskStep, Decide, ConditionRaises, CollectResults,
         CollectError, LevelsDone, Record, Lost
    <3> QED BY <3>1, <3>2, SameLayers DEF Layered
  <2> QED BY <2>1, <2>2
<1>4. CASE UNCHANGED vars
  BY <1>4, SameLayers DEF vars, graph, layers, Layered
<1> QED BY <1>1, <1>2, <1>3, <1>4 DEF Next

-----------------------------------------------------------------------------
(* A node with an edge to one that has been decided is settled. *)
LEMMA PredecessorSettled ==
    ASSUME TypeOK, Layered, Walked,
           NEW m \in Nodes, NEW n \in Nodes, <<m, n>> \in edges, status[n] # "waiting"
    PROVE  status[m] \in Settled /\ level[m] < at
BY DEF TypeOK, Layered, Walked

(* A step that touches neither the layers nor the nodes keeps what is      *)
(* known of the walk, as long as it enters no phase of it.                 *)
LEMMA SameWalk ==
    ASSUME TypeOK, Walked, UNCHANGED <<level, at, status>>,
           pc' # pc => \/ pc # "running" /\ pc' \in {"failed", "recorded", "lost"}
                       \/ pc' = "lost",
           pc = "lost" => pc' = "lost"
    PROVE  Walked'
BY DEF Walked, TypeOK

(* The walk settles one level after the other, in order. *)
LEMMA WalkedStep == ASSUME Inv, [Next]_vars PROVE Walked'
<1> USE DEF Inv, TypeOK
<1>1. CASE Place
  BY <1>1 DEF Place, Walked, Settled
<1>2. CASE Placed
  BY <1>2 DEF Placed, Walked, layers, Ended
<1>3. CASE Decide
  <2> DEFINE runnable == {n \in Here : Reachable(n)}
  <2>1. \A n \in Nodes : status'[n] = IF n \in runnable THEN "scheduled"
                                      ELSE IF n \in Here THEN "skipped" ELSE status[n]
    BY <1>3 DEF Decide
  <2>2. /\ pc = "deciding" /\ level' = level
        /\ pc' = IF runnable = {} THEN "deciding" ELSE "running"
        /\ at' = IF runnable = {} THEN at + 1 ELSE at
    BY <1>3 DEF Decide, layers
  <2>3. \A n \in Nodes : n \in Here <=> level[n] = at
    BY DEF Here
  <2>4. runnable \subseteq Here
    OBVIOUS
  <2> HIDE DEF runnable
  <2>5. CASE runnable = {}
    BY <2>1, <2>2, <2>3, <2>5 DEF Walked, Settled
  <2>6. CASE runnable # {}
    BY <2>1, <2>2, <2>3, <2>4, <2>6 DEF Walked, Settled
  <2> QED BY <2>5, <2>6
<1>4. CASE ConditionRaises
  BY <1>4, SameWalk DEF ConditionRaises, layers
<1>5. CASE TaskStep
  BY <1>5, TaskMoves DEF Walked, Settled
<1>6. CASE CollectResults
  <2>1. \A n \in Nodes : status'[n] = IF status[n] = "returned" THEN "succeeded" ELSE status[n]
    BY <1>6 DEF CollectResults
  <2>2. pc = "running" /\ level' = level /\ pc' = "deciding" /\ at' = at + 1
    BY <1>6 DEF CollectResults, layers
  <2>3. \A n \in Nodes : level[n] = at => status'[n] \in Settled
    BY <1>6, <2>1, <2>2 DEF CollectResults, AllEnded, Here, Walked, Settled, Statuses
  <2>4. \A n \in Nodes : status'[n] # "raised"
    BY <2>1, <2>3 DEF Walked, Settled
  <2> QED BY <2>1, <2>2, <2>3, <2>4 DEF Walked, Settled
<1>7. CASE CollectError
  <2>1. \A n \in Nodes : status'[n] = status[n] \/ (status[n] = "returned" /\ status'[n] = "succeeded")
    BY <1>7 DEF CollectError
  <2>2. pc = "running" /\ level' = level /\ pc' = "failed" /\ at' = at
    BY <1>7 DEF CollectError, layers
  <2>3. \A n \in Nodes : status'[n] \notin {"scheduled", "running"}
    BY <1>7, <2>1 DEF CollectError, AllEnded
  <2> QED BY <2>1, <2>2, <2>3 DEF Walked, Settled
<1>8. CASE LevelsDone
  BY <1>8 DEF LevelsDone, Walked, layers
<1>9. CASE Record
  BY <1>9, SameWalk DEF Record, layers, Ended
<1>10. CASE Lost
  BY <1>10, SameWalk DEF Lost, layers
<1>11. CASE UNCHANGED vars
  BY <1>11, SameWalk DEF vars, layers
<1> QED BY <1>1, <1>2, <1>3, <1>4, <1>5, <1>6, <1>7, <1>8, <1>9, <1>10, <1>11
   DEF Next, Step, TaskStep

-----------------------------------------------------------------------------
(* The outcomes keep up with the walk. *)
LEMMA KeptStep == ASSUME Inv, [Next]_vars PROVE Kept'
<1> USE DEF Inv, TypeOK
<1>1. CASE Place
  BY <1>1 DEF Place, Kept, graph
<1>2. CASE Placed
  BY <1>2 DEF Placed, Kept, graph
<1>3. CASE Decide
  <2> DEFINE runnable == {n \in Here : Reachable(n)}
  <2>1. \A n \in Nodes : status'[n] = IF n \in runnable THEN "scheduled"
                                      ELSE IF n \in Here THEN "skipped" ELSE status[n]
    BY <1>3 DEF Decide
  <2>2. \A n \in Nodes : outcomes'[n] = IF n \in Here \ runnable THEN "skipped" ELSE outcomes[n]
    BY <1>3 DEF Decide
  <2>3. pc = "deciding" /\ edges' = edges /\ row' = row /\ pc' \in {"deciding", "running"}
    BY <1>3 DEF Decide, graph
  <2>4. \A n \in Nodes : n \in Here <=> level[n] = at
    BY DEF Here
  <2>5. runnable \subseteq Here
    OBVIOUS
  <2> HIDE DEF runnable
  <2>6. \A n \in Here : status[n] = "waiting" /\ outcomes[n] = "none"
    BY <2>3, <2>4 DEF Walked, Kept, Settled, Outcomes, Here
  <2>7. ASSUME NEW m \in Nodes, NEW n \in Nodes, <<m, n>> \in edges, outcomes'[n] # "none"
        PROVE  outcomes'[m] \in Settled
    <3>1. CASE n \in Here
      <4>1. level[m] < at /\ level[m] # 0
        BY <2>4, <2>7, <3>1 DEF Layered, Walked
      <4>2. outcomes[m] \in Settled
        BY <2>3, <4>1 DEF Walked, Kept
      <4> QED BY <2>2, <2>4, <4>1, <4>2
    <3>2. CASE n \notin Here
      <4>1. outcomes[m] \in Settled
        BY <2>2, <2>7, <3>2 DEF Kept
      <4> QED BY <2>2, <2>6, <4>1 DEF Settled
    <3> QED BY <3>1, <3>2
  <2>8. \A n \in Nodes : /\ status'[n] \in Settled => outcomes'[n] = status'[n]
                         /\ outcomes'[n] # "failed"
                         /\ outcomes'[n] \in Settled => status'[n] = outcomes'[n]
    BY <2>1, <2>2, <2>3, <2>5, <2>6 DEF Kept, Settled
  <2> QED BY <2>3, <2>7, <2>8 DEF Kept
<1>4. CASE ConditionRaises
  BY <1>4 DEF ConditionRaises, NoOutcomes, Kept, Settled, graph
<1>5. CASE TaskStep
  <2>1. UNCHANGED <<edges, outcomes, pc, row>>
    BY <1>5, TaskMoves
  <2>2. \A n \in Nodes : \/ status'[n] = status[n]
                          \/ /\ status[n] \in {"scheduled", "running"}
                             /\ status'[n] \in {"running", "returned", "raised"}
    BY <1>5, TaskMoves
  <2> QED BY <2>1, <2>2 DEF Kept, Settled
<1>6. CASE CollectResults
  <2>1. \A n \in Nodes :
           /\ status'[n] = IF status[n] = "returned" THEN "succeeded" ELSE status[n]
           /\ outcomes'[n] = IF status[n] = "returned" THEN "succeeded" ELSE outcomes[n]
    BY <1>6 DEF CollectResults
  <2>2. pc = "running" /\ pc' = "deciding" /\ edges' = edges /\ row' = row
    BY <1>6 DEF CollectResults, graph
  <2>3. ASSUME NEW m \in Nodes, NEW n \in Nodes, <<m, n>> \in edges, outcomes'[n] # "none"
        PROVE  outcomes'[m] \in Settled
    <3>1. CASE status[n] = "returned"
      BY <2>1, <2>2, <2>3, <3>1, PredecessorSettled DEF Kept, Settled
    <3>2. CASE status[n] # "returned"
      BY <2>1, <2>3, <3>2 DEF Kept, Settled
    <3> QED BY <3>1, <3>2
  <2> QED BY <2>1, <2>2, <2>3 DEF Kept, Settled
<1>7. CASE CollectError
  <2>1. PICK first \in Here :
           /\ status[first] = "raised"
           /\ status' = [n \in Nodes |-> IF status[n] = "returned" /\ n < first
                                         THEN "succeeded" ELSE status[n]]
           /\ outcomes' = [n \in Nodes |->
                              IF n = first THEN "failed"
                              ELSE IF status[n] = "returned" /\ n < first THEN "succeeded"
                              ELSE outcomes[n]]
    BY <1>7 DEF CollectError
  <2>2. pc = "running" /\ pc' = "failed" /\ edges' = edges /\ row' = row
    BY <1>7 DEF CollectError, graph
  <2>3. ASSUME NEW m \in Nodes, NEW n \in Nodes, <<m, n>> \in edges, outcomes'[n] # "none"
        PROVE  outcomes'[m] \in Settled
    <3>1. CASE status[n] \in {"returned", "raised"}
      <4>1. status[m] \in Settled /\ outcomes[m] = status[m]
        BY <2>2, <2>3, <3>1, PredecessorSettled DEF Kept, Settled
      <4> QED BY <2>1, <4>1 DEF Settled
    <3>2. CASE status[n] \notin {"returned", "raised"}
      <4>1. outcomes[m] \in Settled /\ status[m] = outcomes[m]
        BY <2>1, <2>3, <3>2 DEF Kept
      <4> QED BY <2>1, <4>1 DEF Settled
    <3> QED BY <3>1, <3>2
  <2>4. \A n \in Nodes : /\ outcomes'[n] \in Settled => status'[n] = outcomes'[n]
                         /\ outcomes'[n] = "failed" => status'[n] = "raised"
    BY <2>1, <2>2 DEF Kept, Settled
  <2> QED BY <2>2, <2>3, <2>4 DEF Kept
<1>8. CASE LevelsDone
  <2>1. \A n \in Nodes : status[n] \in Settled
    BY <1>8 DEF LevelsDone, Layered, Walked
  <2> QED BY <1>8, <2>1 DEF LevelsDone, Kept, graph
<1>9. CASE Record
  BY <1>9 DEF Record, Kept, Ended, graph
<1>10. CASE Lost
  BY <1>10 DEF Lost, Kept, graph
<1>11. CASE UNCHANGED vars
  BY <1>11 DEF vars, Kept, graph
<1> QED BY <1>1, <1>2, <1>3, <1>4, <1>5, <1>6, <1>7, <1>8, <1>9, <1>10, <1>11
   DEF Next, Step, TaskStep

-----------------------------------------------------------------------------
(* Every state of every execution satisfies the invariant. *)
THEOREM InvHolds == Spec => []Inv
<1>1. Inv /\ [Next]_vars => Inv'
  BY TypeStep, LayeredStep, WalkedStep, KeptStep DEF Inv
<1> QED BY <1>1, InitInv, PTL DEF Spec

(* The layers, the statuses and the outcomes keep their shapes. *)
THEOREM TypeCorrect == Spec => []TypeOK
<1>1. Inv => TypeOK
  BY DEF Inv
<1> QED BY <1>1, InvHolds, PTL

(* For every graph: when a handler is called, every node with an edge to   *)
(* its node has been settled.                                              *)
THEOREM DependenciesRespected == Spec => []RunsAfterPredecessors
<1>1. Inv => RunsAfterPredecessors
  BY PredecessorSettled DEF Inv, RunsAfterPredecessors, Settled
<1> QED BY <1>1, InvHolds, PTL

(* For every graph: the recorded outcomes are closed under predecessors,   *)
(* say what happened, and are complete when the run is said to have        *)
(* succeeded.                                                              *)
THEOREM RecordCorrect == Spec => []RecordIsABeginning
<1>1. Inv => RecordIsABeginning
  BY DEF Inv, Kept, RecordIsABeginning, Settled
<1> QED BY <1>1, InvHolds, PTL

(* Whenever the handler of a node is called after that of another has      *)
(* raised, the two are of one level and the engine is still waiting for    *)
(* that level: the nodes of later levels are not started, and those of     *)
(* earlier ones have all succeeded or been skipped.                        *)
THEOREM StopsOnFailure == Spec => FailureStopsTheRun
<1> DEFINE Stop == \A m, n \in Nodes :
                      status[m] = "raised" /\ calls'[n] # calls[n]
                         => level[n] = level[m] /\ pc = "running"
<1>1. ASSUME Inv, [Next]_vars PROVE Stop
  <2>1. ASSUME NEW m \in Nodes, NEW n \in Nodes, status[m] = "raised", calls'[n] # calls[n]
        PROVE  level[n] = level[m] /\ pc = "running"
    <3>1. TaskStep
      BY <1>1, <2>1 DEF Next, Step, TaskStep, Place, Placed, Decide, ConditionRaises,
         CollectResults, CollectError, LevelsDone, Record, Lost, vars
    <3>2. status[n] \in {"scheduled", "running"} /\ pc # "lost"
      BY <1>1, <2>1, <3>1, TaskMoves DEF Inv
    <3>3. pc = "running"
      BY <1>1, <3>2 DEF Inv, Walked
    <3>4. /\ level[n] # 0 /\ level[n] <= at /\ ~(level[n] < at)
          /\ level[m] # 0 /\ level[m] <= at /\ ~(level[m] < at)
      BY <1>1, <2>1, <3>2 DEF Inv, Walked, Settled
    <3>5. level[n] \in Nat /\ level[m] \in Nat /\ at \in Nat
      BY <1>1 DEF Inv, TypeOK
    <3> QED BY <3>3, <3>4, <3>5
  <2> QED BY <2>1
<1>2. Inv /\ [Next]_vars => [Stop]_vars
  BY <1>1
<1> QED BY <1>2, InvHolds, PTL DEF Spec, FailureStopsTheRun

-----------------------------------------------------------------------------
(***************************************************************************)
(* That the engine runs what is reached needs no induction along chains of *)
(* edges: the nodes that are not skipped are themselves a set that has the *)
(* entry points and is closed under the edges that hold.                   *)
(***************************************************************************)
Ran == {"scheduled", "running", "returned", "raised", "succeeded"}
Entry(n) == \A m \in Nodes : <<m, n>> \notin edges

Followed ==
    /\ \A n \in Nodes : Entry(n) => status[n] # "skipped"
    /\ \A m, n \in Nodes :
          <<m, n>> \in holds /\ status[m] # "skipped" => status[n] # "skipped"
    /\ \A n \in Nodes : status[n] \in Ran => n \in Reached

(* An entry point is reached, and so is the end of an edge that holds from *)
(* a node that is.                                                         *)
LEMMA ReachedGrows ==
    ASSUME TypeOK
    PROVE  /\ \A n \in Nodes : Entry(n) => n \in Reached
           /\ \A m, n \in Nodes : <<m, n>> \in holds /\ m \in Reached => n \in Reached
<1>1. ASSUME NEW n \in Nodes, Entry(n) PROVE n \in Reached
  BY <1>1 DEF Reached, Entry
<1>2. ASSUME NEW m \in Nodes, NEW n \in Nodes, <<m, n>> \in holds, m \in Reached
      PROVE  n \in Reached
  <2> SUFFICES ASSUME NEW S \in SUBSET Nodes,
                      \A e \in Nodes : (\A x \in Nodes : <<x, e>> \notin edges) => e \in S,
                      \A p \in holds : p[1] \in S => p[2] \in S
               PROVE  n \in S
    BY DEF Reached
  <2>1. m \in S
    BY <1>2 DEF Reached
  <2>2. <<m, n>>[1] = m /\ <<m, n>>[2] = n
    OBVIOUS
  <2> QED BY <1>2, <2>1, <2>2
<1> QED BY <1>1, <1>2

(* A node that is skipped is outside of a set that has all that is reached. *)
LEMMA SkippedNotReached ==
    ASSUME TypeOK, Followed, NEW n \in Nodes, status[n] = "skipped"
    PROVE  n \notin Reached
<1> DEFINE S == {m \in Nodes : status[m] # "skipped"}
<1>1. S \in SUBSET Nodes /\ n \notin S
  OBVIOUS
<1>2. \A e \in Nodes : (\A m \in Nodes : <<m, e>> \notin edges) => e \in S
  BY DEF Followed, Entry
<1>3. ASSUME NEW p \in holds, p[1] \in S PROVE p[2] \in S
  <2>1. p \in Nodes \X Nodes
    BY WorkflowAssumption DEF TypeOK
  <2>2. p = <<p[1], p[2]>> /\ p[1] \in Nodes /\ p[2] \in Nodes
    BY <2>1
  <2>3. status[p[2]] # "skipped"
    BY <1>3, <2>2 DEF Followed
  <2> QED BY <2>2, <2>3
<1> HIDE DEF S
<1> QED BY <1>1, <1>2, <1>3 DEF Reached

(* A step that decides no node. *)
LEMMA SameFollowed ==
    ASSUME TypeOK, Followed, UNCHANGED graph,
           \A n \in Nodes : \/ status'[n] = status[n]
                            \/ status[n] \in Ran /\ status'[n] \in Ran
    PROVE  Followed'
<1>1. edges' = edges /\ holds' = holds
  BY DEF graph
<1>2. Reached' = Reached
  BY <1>1 DEF Reached
<1>3. \A n \in Nodes : (status'[n] = "skipped") <=> (status[n] = "skipped")
  BY DEF Ran
<1>4. \A n \in Nodes : Entry(n)' <=> Entry(n)
  BY <1>1 DEF Entry
<1>5. \A n \in Nodes : status'[n] \in Ran => n \in Reached
  BY DEF Followed
<1> QED BY <1>1, <1>2, <1>3, <1>4, <1>5 DEF Followed

(* The nodes of a level are decided by predecessors that are settled. *)
LEMMA DecideFollows == ASSUME Inv, Followed, Decide PROVE Followed'
<1> USE DEF Inv, TypeOK
<1> DEFINE runnable == {n \in Here : Reachable(n)}
<1>1. \A n \in Nodes : status'[n] = IF n \in runnable THEN "scheduled"
                                    ELSE IF n \in Here THEN "skipped" ELSE status[n]
  BY DEF Decide
<1>2. pc = "deciding" /\ edges' = edges /\ holds' = holds
  BY DEF Decide, graph
<1>3. Reached' = Reached
  BY <1>2 DEF Reached
<1>4. \A n \in Nodes : n \in Here => level[n] = at /\ status[n] = "waiting"
  BY <1>2 DEF Here, Walked
<1>5. \A n \in Nodes : n \in runnable <=> n \in Here /\ Reachable(n)
  OBVIOUS
<1> HIDE DEF runnable
<1>6. ASSUME NEW m \in Nodes, NEW n \in Nodes, <<m, n>> \in holds, status'[n] # "waiting"
      PROVE  status[m] \in Settled /\ status'[m] = status[m]
  <2>1. <<m, n>> \in edges
    BY <1>6
  <2>2. CASE n \in Here
    <3>1. level[m] # 0 /\ level[m] < at
      BY <1>4, <2>1, <2>2 DEF Layered, Walked
    <3>2. m \notin Here
      BY <3>1 DEF Here
    <3> QED BY <1>1, <1>5, <3>1, <3>2 DEF Walked
  <2>3. CASE n \notin Here
    <3>1. status[n] # "waiting"
      BY <1>1, <1>5, <1>6, <2>3
    <3>2. status[m] \in Settled
      BY <2>1, <3>1, PredecessorSettled
    <3> QED BY <1>1, <1>4, <1>5, <3>2 DEF Settled
  <2> QED BY <2>2, <2>3
<1>7. ASSUME NEW n \in Nodes, Entry(n) PROVE status'[n] # "skipped"
  BY <1>1, <1>5, <1>7 DEF Followed, Entry, Reachable
<1>8. ASSUME NEW m \in Nodes, NEW n \in Nodes, <<m, n>> \in holds, status'[m] # "skipped"
      PROVE  status'[n] # "skipped"
  <2> SUFFICES ASSUME status'[n] = "skipped" PROVE FALSE
    OBVIOUS
  <2>1. status[m] # "skipped"
    BY <1>6, <1>8
  <2>2. CASE n \in Here
    BY <1>1, <1>5, <1>8, <2>1, <2>2 DEF Reachable
  <2>3. CASE n \notin Here
    BY <1>1, <1>5, <1>8, <2>1, <2>3 DEF Followed
  <2> QED BY <2>2, <2>3
<1>9. ASSUME NEW n \in Nodes, status'[n] \in Ran PROVE n \in Reached
  <2>1. CASE n \in runnable
    <3>1. CASE Entry(n)
      BY <3>1, ReachedGrows
    <3>2. CASE ~Entry(n)
      <4>1. PICK m \in Nodes : <<m, n>> \in holds /\ status[m] # "skipped"
        BY <1>5, <2>1, <3>2 DEF Reachable, Entry
      <4>2. status[m] = "succeeded"
        BY <1>6, <1>9, <4>1 DEF Ran, Settled
      <4>3. m \in Reached
        BY <4>2 DEF Followed, Ran
      <4> QED BY <4>1, <4>3, ReachedGrows
    <3> QED BY <3>1, <3>2
  <2>2. CASE n \notin runnable
    BY <1>1, <1>9, <2>2 DEF Followed, Ran
  <2> QED BY <2>1, <2>2
<1>10. \A n \in Nodes : Entry(n)' <=> Entry(n)
  BY <1>2 DEF Entry
<1> QED BY <1>2, <1>3, <1>7, <1>8, <1>9, <1>10 DEF Followed

(* Every step keeps Followed. *)
LEMMA FollowedStep == ASSUME Inv, Followed, [Next]_vars PROVE Followed'
<1>1. TypeOK
  BY DEF Inv
<1>2. CASE Decide
  BY <1>2, DecideFollows
<1>3. CASE Place \/ Placed \/ ConditionRaises \/ LevelsDone \/ Record \/ Lost \/ UNCHANGED vars
  <2>1. UNCHANGED graph /\ status' = status
    BY <1>3 DEF Place, Placed, ConditionRaises, LevelsDone, Record, Lost, vars
  <2> QED BY <1>1, <2>1, SameFollowed
<1>4. CASE TaskStep
  <2>1. /\ UNCHANGED graph
        /\ \A x \in Nodes : \/ status'[x] = status[x]
                            \/ status[x] \in Ran /\ status'[x] \in Ran
    BY <1>1, <1>4, TaskMoves DEF Ran, TypeOK, graph
  <2> QED BY <1>1, <2>1, SameFollowed
<1>5. CASE CollectResults
  <2>1. /\ UNCHANGED graph
        /\ \A x \in Nodes : \/ status'[x] = status[x]
                            \/ status[x] \in Ran /\ status'[x] \in Ran
    BY <1>5 DEF CollectResults, Ran
  <2> QED BY <1>1, <2>1, SameFollowed
<1>6. CASE CollectError
  <2>1. /\ UNCHANGED graph
        /\ \A x \in Nodes : \/ status'[x] = status[x]
                            \/ status[x] \in Ran /\ status'[x] \in Ran
    BY <1>6 DEF CollectError, Ran
  <2> QED BY <1>1, <2>1, SameFollowed
<1> QED BY <1>2, <1>3, <1>4, <1>5, <1>6 DEF Next, Step, TaskStep

(* For every graph and every truth of its conditions: the engine calls the *)
(* handlers of exactly the nodes that a chain of edges that hold leads to  *)
(* from an entry point, as far as it has come, and skips the others.       *)
THEOREM ReachedCorrect == Spec => []RunsWhatIsReached
<1>1. Init => Followed
  BY DEF Init, Followed, Ran
<1>2. Inv /\ Followed /\ [Next]_vars => Followed'
  BY FollowedStep
<1>3. Inv /\ Followed => RunsWhatIsReached
  BY SkippedNotReached DEF Inv, TypeOK, Statuses, Followed, RunsWhatIsReached, Ran
<1> QED BY <1>1, <1>2, <1>3, InvHolds, PTL DEF Spec

-----------------------------------------------------------------------------
(* Background jobs.  The inductive invariant says that what a call has     *)
(* read is the row unless that was written since (Snapshots), and relates  *)
(* failures, requeues and the workers at work to the starts (JobBudget).   *)

(* What a call has read is the row, unless that has been written since. *)
Snapshot(c) ==
    call[c].pc \in JQ!Operations =>
        /\ JQ!Admits(call[c].pc, call[c].row)
        /\ call[c].row.version <= jobs[call[c].job].version
        /\ JQ!Fresh(c) => call[c].row = jobs[call[c].job]

Snapshots == \A c \in Callers : Snapshot(c)

(* The workers that have started job j and not reported on it. *)
Holding(j) == {c \in Callers : call[c].job = j
                               /\ call[c].pc \in {"working", "mark_succeeded", "mark_failed"}}

JobBudget ==
    \A j \in Jobs :
        /\ failures[j] + Cardinality(Holding(j)) <= starts[j]
        /\ requeues[j] <= failures[j]
        /\ jobs[j].status = "failed" => requeues[j] < failures[j]
        /\ requeues[j] < MaxAttempts

JobInv == JQ!TypeOK /\ Snapshots /\ AttemptsCountStarts /\ JobBudget

-----------------------------------------------------------------------------
(* The row an operation writes is a row. *)
LEMMA WrittenTyped ==
    ASSUME NEW op \in JQ!Operations, NEW entry \in JQ!JobRow
    PROVE  /\ JQ!Written(op, entry) \in JQ!JobRow
           /\ JQ!Written(op, entry).version = entry.version + 1
           /\ JQ!Written(op, entry).attempts = IF op = "mark_running" THEN entry.attempts + 1
                                          ELSE entry.attempts
           /\ op = "mark_succeeded" => JQ!Written(op, entry).status = "succeeded"
           /\ op = "mark_failed" => JQ!Written(op, entry).status = "failed"
           /\ op = "mark_running" => JQ!Written(op, entry).status = "running"
           /\ op = "cancel" => JQ!Written(op, entry).status = "cancelled"
           /\ op = "retry" => JQ!Written(op, entry).status = "queued"
<1>1. CASE op = "mark_running"
  BY <1>1 DEF JQ!Written, JQ!JobRow, JQ!Statuses
<1>2. CASE op = "mark_succeeded"
  BY <1>2 DEF JQ!Written, JQ!JobRow, JQ!Statuses
<1>3. CASE op = "mark_failed"
  BY <1>3 DEF JQ!Written, JQ!JobRow, JQ!Statuses
<1>4. CASE op = "cancel"
  BY <1>4 DEF JQ!Written, JQ!JobRow, JQ!Statuses
<1>5. CASE op = "retry"
  BY <1>5 DEF JQ!Written, JQ!JobRow, JQ!Statuses
<1> QED BY <1>1, <1>2, <1>3, <1>4, <1>5 DEF JQ!Operations

(* The calls a step makes have the shape of calls. *)
LEMMA ReadTyped ==
    ASSUME JQ!TypeOK, NEW c \in Callers, NEW op \in JQ!Operations, NEW j \in Jobs, JQ!Read(c, op, j)
    PROVE  JQ!TypeOK'
BY DEF JQ!Read, JQ!TypeOK, JQ!Call, JQ!history

(* Every step keeps the rows and the calls well typed. *)
LEMMA JobTypeStep == ASSUME JQ!TypeOK, [JQ!Next]_JQ!vars PROVE JQ!TypeOK'
<1>1. ASSUME NEW c \in Callers, NEW j \in Jobs, JQ!Start(c, j) PROVE JQ!TypeOK'
  BY <1>1, ReadTyped DEF JQ!Start, JQ!Operations
<1>2. ASSUME NEW c \in Callers, NEW op \in {"mark_succeeded", "mark_failed"}, JQ!Report(c, op)
      PROVE  JQ!TypeOK'
  <2>1. call[c].job \in Jobs
    BY DEF JQ!TypeOK, JQ!Call
  <2> QED BY <1>2, <2>1, ReadTyped DEF JQ!Report, JQ!Operations
<1>3. ASSUME NEW c \in Callers, NEW j \in Jobs, NEW op \in {"cancel", "retry"}, JQ!Client(c, op, j)
      PROVE  JQ!TypeOK'
  BY <1>3, ReadTyped DEF JQ!Client, JQ!Operations
<1>4. ASSUME NEW c \in Callers, JQ!Commit(c) PROVE JQ!TypeOK'
  <2> DEFINE op == call[c].pc
             j == call[c].job
  <2>1. op \in JQ!Operations /\ j \in Jobs /\ call[c].row \in JQ!JobRow
    BY <1>4 DEF JQ!Commit, JQ!TypeOK, JQ!Call
  <2>2. JQ!Written(op, call[c].row) \in JQ!JobRow
    BY <2>1, WrittenTyped
  <2>3. jobs' \in [Jobs -> JQ!JobRow]
    BY <1>4, <2>1, <2>2 DEF JQ!Commit, JQ!TypeOK
  <2>4. call' \in [Callers -> JQ!Call]
    BY <1>4, <2>1 DEF JQ!Commit, JQ!TypeOK, JQ!Call
  <2>5. starts' \in [Jobs -> Nat] /\ failures' \in [Jobs -> Nat] /\ requeues' \in [Jobs -> Nat]
    BY <1>4, <2>1 DEF JQ!Commit, JQ!TypeOK
  <2> QED BY <2>3, <2>4, <2>5 DEF JQ!TypeOK
<1>5. ASSUME NEW c \in Callers, JQ!Lost(c) PROVE JQ!TypeOK'
  BY <1>5 DEF JQ!Lost, JQ!TypeOK, JQ!Call, JQ!history
<1>6. CASE UNCHANGED JQ!vars
  BY <1>6 DEF JQ!vars, JQ!TypeOK
<1> QED BY <1>1, <1>2, <1>3, <1>4, <1>5, <1>6 DEF JQ!Next

-----------------------------------------------------------------------------
(* A call that reads the row has a fresh and admitted copy of it; the other *)
(* calls keep theirs.                                                       *)
LEMMA ReadSnapshots ==
    ASSUME JQ!TypeOK, Snapshots, NEW c \in Callers, NEW op \in JQ!Operations, NEW j \in Jobs,
           JQ!Read(c, op, j)
    PROVE  Snapshots'
<1> SUFFICES ASSUME NEW d \in Callers PROVE Snapshot(d)'
  BY DEF Snapshots
<1>1. CASE d = c
  BY <1>1 DEF JQ!Read, JQ!TypeOK, JQ!Call, JQ!JobRow, Snapshot, JQ!Fresh, JQ!history
<1>2. CASE d # c
  BY <1>2 DEF JQ!Read, JQ!TypeOK, Snapshots, Snapshot, JQ!Fresh, JQ!history
<1> QED BY <1>1, <1>2

(* A commit raises the version, so every other copy of the row is stale. *)
LEMMA CommitSnapshots ==
    ASSUME JQ!TypeOK, Snapshots, NEW c \in Callers, JQ!Commit(c)
    PROVE  Snapshots'
<1> SUFFICES ASSUME NEW d \in Callers PROVE Snapshot(d)'
  BY DEF Snapshots
<1> DEFINE op == call[c].pc
           j == call[c].job
<1>1. op \in JQ!Operations /\ j \in Jobs /\ call[c].row \in JQ!JobRow
  BY DEF JQ!Commit, JQ!TypeOK, JQ!Call
<1>2. jobs' = [jobs EXCEPT ![j] = JQ!Written(op, call[c].row)]
  BY DEF JQ!Commit
<1>3. jobs'[j].version = jobs[j].version + 1 /\ jobs[j].version \in Nat
  BY <1>1, <1>2, WrittenTyped DEF JQ!Commit, JQ!Fresh, JQ!TypeOK, JQ!JobRow
<1>4. CASE d = c
  BY <1>4 DEF JQ!Commit, JQ!TypeOK, Snapshot, JQ!Operations
<1>5. CASE d # c
  <2>1. call'[d] = call[d]
    BY <1>5 DEF JQ!Commit, JQ!TypeOK
  <2>2. call[d].job \in Jobs /\ call[d].row.version \in Nat
    BY DEF JQ!TypeOK, JQ!Call, JQ!JobRow
  <2>3. Snapshot(d)
    BY DEF Snapshots
  <2>4. CASE call[d].job = j
    BY <1>3, <2>1, <2>2, <2>3, <2>4 DEF Snapshot, JQ!Fresh
  <2>5. CASE call[d].job # j
    <3>1. jobs'[call[d].job] = jobs[call[d].job]
      BY <1>1, <1>2, <2>2, <2>5 DEF JQ!TypeOK
    <3> QED BY <2>1, <2>3, <3>1 DEF Snapshot, JQ!Fresh
  <2> QED BY <2>4, <2>5
<1> QED BY <1>4, <1>5

-----------------------------------------------------------------------------
(* The workers that hold a job are finitely many; a worker that drops out  *)
(* leaves one fewer, and one that joins makes one more.                    *)
LEMMA HoldingCount ==
    ASSUME NEW S \in SUBSET Callers
    PROVE  /\ Cardinality(S) \in Nat
           /\ \A T \in SUBSET S : Cardinality(T) <= Cardinality(S)
           /\ \A c \in S : Cardinality(S \ {c}) = Cardinality(S) - 1
           /\ \A c \in Callers \ S : Cardinality(S \cup {c}) = Cardinality(S) + 1
<1>1. IsFiniteSet(S)
  BY FS_Subset, JobQueueAssumption
<1> QED BY <1>1, FS_CardinalityType, FS_Subset, FS_RemoveElement, FS_AddElement

(* The part of the invariant that counts. *)
Counted == AttemptsCountStarts /\ JobBudget

(* A step that leaves the rows and the counts alone and adds no worker     *)
(* keeps the counts in order.                                              *)
LEMMA SameCounts ==
    ASSUME JQ!TypeOK, Counted, UNCHANGED <<jobs, JQ!history>>,
           \A j \in Jobs : Holding(j)' \subseteq Holding(j)
    PROVE  Counted'
<1> SUFFICES ASSUME NEW j \in Jobs
             PROVE  failures[j] + Cardinality(Holding(j)') <= starts[j]
  BY DEF Counted, AttemptsCountStarts, JobBudget, JQ!history
<1>1. Holding(j) \in SUBSET Callers
  BY DEF Holding
<1>2. Cardinality(Holding(j)') <= Cardinality(Holding(j)) /\ Cardinality(Holding(j)) \in Nat
      /\ Cardinality(Holding(j)') \in Nat
  BY <1>1, HoldingCount
<1>3. failures[j] \in Nat /\ starts[j] \in Nat
  BY DEF JQ!TypeOK
<1> QED BY <1>2, <1>3 DEF Counted, JobBudget

(* A call that reads changes no row and no count; neither an idle caller   *)
(* that makes one nor a worker that reports joins those that hold a job.   *)
LEMMA ReadCounts ==
    ASSUME JQ!TypeOK, Counted, NEW c \in Callers, NEW op \in JQ!Operations, NEW j \in Jobs,
           JQ!Read(c, op, j),
           op \in {"mark_succeeded", "mark_failed"} => call[c].pc = "working" /\ call[c].job = j
    PROVE  Counted'
<1>1. ASSUME NEW k \in Jobs PROVE Holding(k)' \subseteq Holding(k)
  BY DEF JQ!Read, Holding, JQ!TypeOK, JQ!Operations
<1> QED BY <1>1, SameCounts DEF JQ!Read

(* A commit counts at most one start, one failure or one requeue of the    *)
(* job it writes; a failure comes from a worker that then holds it no      *)
(* longer, and a requeue from a row that was failed and had attempts left. *)
LEMMA CommitCounts ==
    ASSUME JQ!TypeOK, Snapshots, Counted, NEW c \in Callers, JQ!Commit(c)
    PROVE  Counted'
<1>op. PICK op \in JQ!Operations : op = call[c].pc
  BY DEF JQ!Commit
<1>j. PICK j \in Jobs : j = call[c].job
  BY DEF JQ!TypeOK, JQ!Call
<1>1. op = call[c].pc /\ j = call[c].job /\ call[c].row \in JQ!JobRow
  BY <1>op, <1>j DEF JQ!TypeOK, JQ!Call
<1>2. call[c].row = jobs[j] /\ JQ!Admits(op, jobs[j])
  BY <1>1 DEF JQ!Commit, Snapshots, Snapshot
<1>3. jobs' = [jobs EXCEPT ![j] = JQ!Written(op, jobs[j])]
  BY <1>1, <1>2 DEF JQ!Commit
<1>4. /\ jobs'[j].attempts = IF op = "mark_running" THEN jobs[j].attempts + 1 ELSE jobs[j].attempts
      /\ jobs'[j].status = "failed" <=> op = "mark_failed"
  <2>1. jobs'[j] = JQ!Written(op, jobs[j])
    BY <1>1, <1>3 DEF JQ!TypeOK
  <2> QED BY <1>1, <1>2, <2>1, WrittenTyped DEF JQ!Operations
<1>5. ASSUME NEW k \in Jobs, k # j
      PROVE  jobs'[k] = jobs[k] /\ starts'[k] = starts[k] /\ failures'[k] = failures[k]
             /\ requeues'[k] = requeues[k] /\ Holding(k)' = Holding(k)
  BY <1>1, <1>3, <1>5 DEF JQ!Commit, JQ!TypeOK, Holding
<1>6. Holding(j) \in SUBSET Callers /\ Cardinality(Holding(j)) \in Nat
  BY HoldingCount DEF Holding
<1>7. /\ starts[j] \in Nat /\ failures[j] \in Nat /\ requeues[j] \in Nat /\ jobs[j].attempts \in Nat
      /\ jobs[j].attempts = starts[j]
      /\ failures[j] + Cardinality(Holding(j)) <= starts[j]
      /\ requeues[j] <= failures[j]
      /\ jobs[j].status = "failed" => requeues[j] < failures[j]
      /\ requeues[j] < MaxAttempts
  BY <1>1 DEF JQ!TypeOK, JQ!JobRow, Counted, AttemptsCountStarts, JobBudget
<1>8. /\ starts'[j] = IF op = "mark_running" THEN starts[j] + 1 ELSE starts[j]
      /\ failures'[j] = IF op = "mark_failed" THEN failures[j] + 1 ELSE failures[j]
      /\ requeues'[j] = IF op = "retry" THEN requeues[j] + 1 ELSE requeues[j]
  BY <1>1 DEF JQ!Commit, JQ!TypeOK
<1>9. Cardinality(Holding(j)') =
        CASE op = "mark_running" -> Cardinality(Holding(j)) + 1
          [] op \in {"mark_succeeded", "mark_failed"} -> Cardinality(Holding(j)) - 1
          [] op \in {"cancel", "retry"} -> Cardinality(Holding(j))
  <2>1. CASE op = "mark_running"
    <3>1. /\ call'[c].pc = "working" /\ call'[c].job = j
          /\ \A d \in Callers \ {c} : call'[d] = call[d]
      BY <1>1, <2>1 DEF JQ!Commit, JQ!TypeOK, JQ!Call
    <3>2. c \notin Holding(j) /\ Holding(j)' = Holding(j) \cup {c}
      BY <1>1, <2>1, <3>1 DEF Holding
    <3>3. Cardinality(Holding(j) \cup {c}) = Cardinality(Holding(j)) + 1
      BY <1>6, <3>2, HoldingCount
    <3> QED BY <2>1, <3>2, <3>3
  <2>2. CASE op \in {"mark_succeeded", "mark_failed"}
    <3>1. Holding(j)' = Holding(j) \ {c} /\ c \in Holding(j)
      BY <1>1, <2>2 DEF JQ!Commit, JQ!TypeOK, Holding
    <3>2. Cardinality(Holding(j) \ {c}) = Cardinality(Holding(j)) - 1
      BY <1>6, <3>1, HoldingCount
    <3> QED BY <2>2, <3>1, <3>2
  <2>3. CASE op \in {"cancel", "retry"}
    <3>1. Holding(j)' = Holding(j)
      BY <1>1, <2>3 DEF JQ!Commit, JQ!TypeOK, Holding
    <3> QED BY <2>3, <3>1
  <2> QED BY <1>1, <2>1, <2>2, <2>3 DEF JQ!Operations
<1>10. op = "retry" => jobs[j].status = "failed" /\ jobs[j].attempts < MaxAttempts
  BY <1>2 DEF JQ!Admits, JQ!CanRetry
<1>11. AttemptsCountStarts'
  BY <1>4, <1>5, <1>7, <1>8 DEF Counted, AttemptsCountStarts
<1>12. /\ failures'[j] + Cardinality(Holding(j)') <= starts'[j]
       /\ requeues'[j] <= failures'[j]
       /\ jobs'[j].status = "failed" => requeues'[j] < failures'[j]
       /\ requeues'[j] < MaxAttempts
  <2>1. MaxAttempts \in Nat
    BY JobQueueAssumption
  <2> QED BY <1>1, <1>4, <1>6, <1>7, <1>8, <1>9, <1>10, <2>1 DEF JQ!Operations
<1>13. ASSUME NEW k \in Jobs
       PROVE  /\ failures'[k] + Cardinality(Holding(k)') <= starts'[k]
              /\ requeues'[k] <= failures'[k]
              /\ jobs'[k].status = "failed" => requeues'[k] < failures'[k]
              /\ requeues'[k] < MaxAttempts
  <2>1. CASE k = j
    BY <1>12, <2>1
  <2>2. CASE k # j
    BY <1>5, <2>2 DEF Counted, JobBudget
  <2> QED BY <2>1, <2>2
<1> QED BY <1>11, <1>13 DEF Counted, JobBudget

-----------------------------------------------------------------------------
(* The invariant holds of freshly enqueued jobs. *)
LEMMA JobInitInv == JQ!Init => JobInv
<1> SUFFICES ASSUME JQ!Init PROVE JobInv
  OBVIOUS
<1>1. JQ!TypeOK
  <2>1. JQ!Queued \in JQ!JobRow
    BY DEF JQ!Queued, JQ!JobRow, JQ!Statuses
  <2>2. {[pc |-> "idle", job |-> j, row |-> JQ!Queued] : j \in Jobs} \subseteq JQ!Call
    BY <2>1 DEF JQ!Call
  <2> QED BY <2>1, <2>2 DEF JQ!Init, JQ!TypeOK
<1>2. Snapshots
  BY DEF JQ!Init, Snapshots, Snapshot, JQ!Operations
<1>3. AttemptsCountStarts
  BY DEF JQ!Init, AttemptsCountStarts, JQ!Queued
<1>4. JobBudget
  <2>1. ASSUME NEW j \in Jobs PROVE Cardinality(Holding(j)) = 0
    <3>1. Holding(j) = {}
      BY DEF JQ!Init, Holding
    <3> QED BY <3>1, FS_EmptySet
  <2> QED BY <2>1, JobQueueAssumption DEF JQ!Init, JobBudget, JQ!Queued
<1> QED BY <1>1, <1>2, <1>3, <1>4 DEF JobInv

(* Every step keeps the invariant: the reads, the commits and the losses. *)
LEMMA JobNextInv == ASSUME JobInv, [JQ!Next]_JQ!vars PROVE JobInv'
<1> USE DEF JobInv, Counted
<1>1. JQ!TypeOK'
  BY JobTypeStep
<1>2. ASSUME NEW c \in Callers, NEW j \in Jobs, JQ!Start(c, j) PROVE Snapshots' /\ Counted'
  BY <1>2, ReadSnapshots, ReadCounts DEF JQ!Start, JQ!Operations
<1>3. ASSUME NEW c \in Callers, NEW op \in {"mark_succeeded", "mark_failed"}, JQ!Report(c, op)
      PROVE  Snapshots' /\ Counted'
  <2>1. call[c].job \in Jobs
    BY DEF JQ!TypeOK, JQ!Call
  <2> QED BY <1>3, <2>1, ReadSnapshots, ReadCounts DEF JQ!Report, JQ!Operations
<1>4. ASSUME NEW c \in Callers, NEW j \in Jobs, NEW op \in {"cancel", "retry"}, JQ!Client(c, op, j)
      PROVE  Snapshots' /\ Counted'
  BY <1>4, ReadSnapshots, ReadCounts DEF JQ!Client, JQ!Operations
<1>5. ASSUME NEW c \in Callers, JQ!Commit(c) PROVE Snapshots' /\ Counted'
  BY <1>5, CommitSnapshots, CommitCounts
<1>6. ASSUME NEW c \in Callers, JQ!Lost(c) PROVE Snapshots' /\ Counted'
  <2>1. Snapshots'
    BY <1>6 DEF JQ!Lost, JQ!TypeOK, Snapshots, Snapshot, JQ!Fresh, JQ!Operations, JQ!history
  <2>2. ASSUME NEW k \in Jobs PROVE Holding(k)' \subseteq Holding(k)
    BY <1>6 DEF JQ!Lost, Holding, JQ!TypeOK
  <2> QED BY <1>6, <2>1, <2>2, SameCounts DEF JQ!Lost
<1>7. CASE UNCHANGED JQ!vars
  <2>1. Snapshots'
    BY <1>7 DEF JQ!vars, Snapshots, Snapshot, JQ!Fresh
  <2>2. AttemptsCountStarts'
    BY <1>7 DEF JQ!vars, AttemptsCountStarts
  <2>3. JobBudget'
    BY <1>7 DEF JQ!vars, JobBudget, Holding
  <2> QED BY <1>1, <2>1, <2>2, <2>3
<1> QED BY <1>1, <1>2, <1>3, <1>4, <1>5, <1>6, <1>7 DEF JQ!Next

(* The inductive invariant holds throughout: what a call read is current   *)
(* or will be refused, and every count is in order.                        *)
THEOREM JobInvHolds == JQ!Spec => []JobInv
<1> QED BY JobInitInv, JobNextInv, PTL DEF JQ!Spec

(* The queue_job rows and the calls keep their shapes: no step writes a    *)
(* status outside JobStatus.                                               *)
THEOREM JobTypeCorrect == JQ!Spec => []JQ!TypeOK
<1>1. JobInv => JQ!TypeOK
  BY DEF JobInv
<1> QED BY <1>1, JobInvHolds, PTL

(* attempts counts every committed mark_running, for any number of workers *)
(* and clients that race on the row.                                       *)
THEOREM AttemptsCorrect == JQ!Spec => []AttemptsCountStarts
<1>1. JobInv => AttemptsCountStarts
  BY DEF JobInv
<1> QED BY <1>1, JobInvHolds, PTL

(* retry requeues a job fewer than max_attempts times over its life and    *)
(* never more often than it failed.                                        *)
THEOREM RequeuesBounded == JQ!Spec => []RequeuesWithinBudget
<1>1. JobInv => RequeuesWithinBudget
  BY DEF JobInv, JobBudget, RequeuesWithinBudget
<1> QED BY <1>1, JobInvHolds, PTL

(* A finished job is moved only by the commit of a worker's late report:   *)
(* mark_running, cancel and retry checked the very row they overwrite.     *)
THEOREM OnlyReportsReopen == JQ!Spec => OnlyLateReportsReopen
<1>1. ASSUME JobInv, [JQ!Next]_JQ!vars, NEW j \in Jobs,
             jobs[j].status \in JQ!TerminalStatuses, jobs'[j].status # jobs[j].status
      PROVE  \E c \in Callers : call[c].job = j
                                /\ call[c].pc \in {"mark_succeeded", "mark_failed"}
  <2>1. PICK c \in Callers : JQ!Commit(c)
    BY <1>1 DEF JQ!Next, JQ!vars, JQ!Start, JQ!Report, JQ!Client, JQ!Read, JQ!Lost, JQ!history
  <2>2. call[c].pc \in JQ!Operations /\ call[c].job = j
    BY <1>1, <2>1 DEF JQ!Commit, JobInv, JQ!TypeOK, JQ!Call
  <2>3. /\ JQ!Admits(call[c].pc, jobs[j]) /\ jobs[j] \in JQ!JobRow
        /\ jobs'[j] = JQ!Written(call[c].pc, jobs[j])
    BY <1>1, <2>1, <2>2 DEF JQ!Commit, JobInv, JQ!TypeOK, Snapshots, Snapshot
  <2>4. CASE call[c].pc = "mark_running"
    BY <1>1, <2>3, <2>4 DEF JQ!Admits
  <2>5. CASE call[c].pc = "retry"
    BY <1>1, <2>3, <2>5 DEF JQ!Admits, JQ!CanRetry, JQ!TerminalStatuses
  <2>6. CASE call[c].pc = "cancel"
    <3>1. jobs[j].status = "cancelled"
      BY <1>1, <2>3, <2>6 DEF JQ!Admits, JQ!TerminalStatuses
    <3>2. jobs'[j].status = "cancelled"
      BY <2>2, <2>3, <2>6, WrittenTyped
    <3> QED BY <1>1, <3>1, <3>2
  <2> QED BY <2>2, <2>4, <2>5, <2>6 DEF JQ!Operations
<1>2. JobInv /\ [JQ!Next]_JQ!vars =>
        [\A j \in Jobs :
            jobs[j].status \in JQ!TerminalStatuses /\ jobs'[j].status # jobs[j].status =>
                \E c \in Callers : call[c].job = j
                                   /\ call[c].pc \in {"mark_succeeded", "mark_failed"}]_queue
  BY <1>1
<1> QED BY <1>2, JobInvHolds, PTL DEF JQ!Spec, OnlyLateReportsReopen

-----------------------------------------------------------------------------
(* Runs of agents.  The inductive invariant says what the place in the     *)
(* code tells of agent and goal (Phase), what the task graph looks like    *)
(* (Graph) and that the limits hold (Within).                              *)

Before == {"created", "initializing", "idle", "planning"}
Closed == {"closing", "persisting", "recorded"}

(* What the place in the code says of the agent and of its goal. *)
Phase ==
    /\ agentPc = "created" => state = "created" /\ goal = "pending"
    /\ agentPc \in {"initializing", "idle", "planning", "reflecting"} => state = agentPc /\ goal = "active"
    /\ agentPc \in {"deciding", "running"} => state = "executing" /\ goal = "active"
    /\ agentPc = "pausing" => state = "paused" /\ goal = "active"
    /\ agentPc \in Closed =>
          /\ state = goal \/ (state = "paused" /\ goal = "completed" /\ reflects = FALSE)
          /\ goal \in {"completed", "failed", "cancelled"}
    /\ goalRow # "none" => agentPc = "recorded" /\ goalRow = goal

(* The graph is closed, what is to be run is ready, and the one task that  *)
(* runs is marked.                                                         *)
Graph ==
    /\ \A t \in AR!Tasks : tasks[t].deps \subseteq AR!Tasks
    /\ round \subseteq AR!Ready
    /\ current # 0 => tasks[current].status = "running"
    /\ agentPc \in Before => round = {} /\ current = 0

(* The limits hold whenever a step may still be taken. *)
Within ==
    /\ agentPc = "running" => iterations < MaxIterations /\ steps <= MaxSteps
    /\ agentPc \in Before \cup {"deciding", "pausing"} => steps <= MaxSteps
    /\ current # 0 => attempt >= 1

RunInv == AR!TypeOK /\ Phase /\ Graph /\ Within /\ DependenciesSucceeded

TaskRow == [status : {"pending", "running", "succeeded", "failed"}, deps : SUBSET Nat]

-----------------------------------------------------------------------------
(* A run that has not begun. *)
LEMMA RunInitInv == AR!Init => RunInv
<1> SUFFICES ASSUME AR!Init PROVE RunInv
  OBVIOUS
<1>1. Len(tasks) = 0 /\ AR!Tasks = {} /\ tasks \in Seq(TaskRow)
  BY DEF AR!Init, AR!Tasks
<1>2. AR!TypeOK
  <2>1. attempt \in 0..(Retries + 1) /\ steps \in 0..(MaxSteps + 1) /\ iterations \in 0..MaxIterations
    BY AgentAssumption DEF AR!Init
  <2>2. planned \in 0..Len(tasks) /\ current \in 0..Len(tasks) /\ round \subseteq AR!Tasks
    BY <1>1 DEF AR!Init
  <2> QED BY <1>1, <2>1, <2>2 DEF AR!Init, AR!TypeOK, TaskRow, AR!States, AR!GoalStatuses, AR!Active
<1>3. Graph /\ DependenciesSucceeded
  BY <1>1 DEF AR!Init, Graph, DependenciesSucceeded
<1>4. Phase /\ Within
  BY AgentAssumption DEF AR!Init, Phase, Within, Closed
<1> QED BY <1>2, <1>3, <1>4 DEF RunInv

(* Leaving the loop gives the agent and its goal states that go together. *)
LEMMA LeaveAgrees ==
    ASSUME AR!TypeOK, Phase, NEW from \in {"executing", "paused"}, AR!Leave(from), goalRow = "none",
           goal = "active", UNCHANGED <<reflects, goalRow>>
    PROVE  /\ state' \in AR!States /\ goal' \in AR!GoalStatuses /\ agentPc' \in {"closing", "reflecting"}
           /\ Phase'
BY DEF AR!Leave, AR!Finish, AR!Fails, AR!CanTransition, Phase, AR!TypeOK, AR!States,
       AR!GoalStatuses, Closed

(* So does every step. *)
LEMMA PhaseStep == AR!TypeOK /\ Phase /\ [AR!Next]_AR!vars => Phase'
<1> SUFFICES ASSUME AR!TypeOK, Phase, [AR!Next]_AR!vars PROVE Phase'
  OBVIOUS
<1> USE DEF Phase, Closed
<1>1. CASE AR!Initialize BY <1>1 DEF AR!Initialize
<1>2. CASE AR!InitializeFails BY <1>2 DEF AR!InitializeFails, AR!Fails
<1>3. CASE AR!Initialized BY <1>3 DEF AR!Initialized
<1>4. CASE AR!BeginPlan BY <1>4 DEF AR!BeginPlan
<1>5. CASE AR!Planned BY <1>5 DEF AR!Planned
<1>6. CASE AR!Stop BY <1>6, LeaveAgrees DEF AR!Stop
<1>7. CASE AR!StopPaused BY <1>7 DEF AR!StopPaused
<1>8. CASE AR!LeavePaused BY <1>8, LeaveAgrees DEF AR!LeavePaused
<1>9. CASE AR!BeginRound BY <1>9 DEF AR!BeginRound
<1>10. CASE AR!StartTask BY <1>10 DEF AR!StartTask
<1>11. CASE AR!StepLimit BY <1>11 DEF AR!StepLimit, AR!Fails
<1>12. CASE AR!TaskSucceeds BY <1>12 DEF AR!TaskSucceeds
<1>13. CASE AR!AttemptFails BY <1>13 DEF AR!AttemptFails
<1>14. CASE AR!BudgetBlocks BY <1>14 DEF AR!BudgetBlocks
<1>15. CASE AR!EndRound BY <1>15 DEF AR!EndRound
<1>16. CASE AR!Reflected BY <1>16 DEF AR!Reflected, AR!Finish, AR!CanTransition
<1>17. CASE AR!Close BY <1>17 DEF AR!Close
<1>18. CASE AR!Persist BY <1>18 DEF AR!Persist
<1>19. CASE AR!Lost BY <1>19 DEF AR!Lost
<1>20. CASE AR!Pause BY <1>20 DEF AR!Pause
<1>21. CASE AR!Resume BY <1>21 DEF AR!Resume
<1>22. CASE AR!Cancel BY <1>22 DEF AR!Cancel
<1>23. CASE UNCHANGED AR!vars BY <1>23 DEF AR!vars
<1> QED
  BY <1>1, <1>2, <1>3, <1>4, <1>5, <1>6, <1>7, <1>8, <1>9, <1>10, <1>11, <1>12, <1>13, <1>14,
     <1>15, <1>16, <1>17, <1>18, <1>19, <1>20, <1>21, <1>22, <1>23
  DEF AR!Next, AR!Step

-----------------------------------------------------------------------------
(* A graph that has got n more tasks, with dependencies that others have. *)
Extends(s, longer, n) ==
    /\ longer \in Seq(TaskRow)
    /\ Len(longer) = Len(s) + n
    /\ \A t \in 1..Len(s) : longer[t] = s[t]
    /\ \A t \in 1..Len(longer) : t > Len(s) =>
          longer[t].status = "pending" /\ \E u \in 1..Len(s) : longer[t].deps = s[u].deps

(* The recovery tasks come after the others and have the dependencies of   *)
(* some of them.                                                           *)
LEMMA Recoveries ==
    ASSUME NEW s \in Seq(TaskRow), NEW n \in Nat, NEW order \in [1..n -> 1..Len(s)],
           NEW longer, longer = s \o [i \in DOMAIN order |-> [status |-> "pending", deps |-> s[order[i]].deps]]
    PROVE  Extends(s, longer, n)
<1> DEFINE more == [i \in 1..n |-> [status |-> "pending", deps |-> s[order[i]].deps]]
<1>1. \A i \in 1..n : [status |-> "pending", deps |-> s[order[i]].deps] \in TaskRow
  <2> SUFFICES ASSUME NEW i \in 1..n PROVE s[order[i]].deps \in SUBSET Nat
    BY DEF TaskRow
  <2>1. order[i] \in 1..Len(s)
    OBVIOUS
  <2>2. s[order[i]] \in TaskRow
    BY <2>1
  <2> QED BY <2>2 DEF TaskRow
<1>2. more \in Seq(TaskRow) /\ Len(more) = n
  BY <1>1
<1>3. \A i \in 1..n : more[i].status = "pending" /\ more[i].deps = s[order[i]].deps
  OBVIOUS
<1>4. longer = s \o more
  OBVIOUS
<1> HIDE DEF more
<1>5. longer \in Seq(TaskRow) /\ Len(longer) = Len(s) + n
  <2>1. s \o more \in Seq(TaskRow)
    BY <1>2, ConcatProperties
  <2>2. Len(s \o more) = Len(s) + Len(more)
    BY <1>2, ConcatProperties
  <2> QED BY <1>2, <1>4, <2>1, <2>2
<1>6. ASSUME NEW t \in 1..Len(s) PROVE longer[t] = s[t]
  <2>1. t \in 1..(Len(s) + Len(more)) /\ t <= Len(s)
    BY <1>2
  <2> QED BY <2>1, <1>2, <1>4
<1>7. ASSUME NEW t \in 1..Len(longer), t > Len(s)
      PROVE  longer[t].status = "pending" /\ \E u \in 1..Len(s) : longer[t].deps = s[u].deps
  <2>1. t - Len(s) \in 1..n /\ longer[t] = more[t - Len(s)]
    BY <1>2, <1>4, <1>5, <1>7
  <2>2. order[t - Len(s)] \in 1..Len(s)
    BY <2>1
  <2> QED BY <2>1, <2>2, <1>3
<1> QED BY <1>5, <1>6, <1>7 DEF Extends

(* At the end of a round the graph has grown by recoveries, or not at all. *)
LEMMA Grown ==
    ASSUME AR!TypeOK, AR!EndRound
    PROVE  /\ tasks' \in Seq(TaskRow)
           /\ Len(tasks') >= Len(tasks)
           /\ \A t \in 1..Len(tasks) : tasks'[t] = tasks[t]
           /\ \A t \in 1..Len(tasks') : t > Len(tasks) =>
                 tasks'[t].status = "pending" /\ \E u \in 1..Len(tasks) : tasks'[t].deps = tasks[u].deps
<1>1. tasks \in Seq(TaskRow) /\ Len(tasks) \in Nat
  BY DEF AR!TypeOK, TaskRow
<1>2. CASE reflects = FALSE
  BY <1>1, <1>2 DEF AR!EndRound
<1>3. CASE reflects = TRUE
  <2> DEFINE lost == {t \in 1..Len(tasks) : tasks[t].status = "failed"}
  <2>1. IsFiniteSet(lost)
    <3>1. IsFiniteSet(1..Len(tasks))
      BY <1>1, FS_Interval
    <3> QED BY <3>1, FS_Subset, Zenon
  <2>2. Cardinality(lost) \in Nat
    BY <2>1, FS_CardinalityType
  <2>3. PICK order \in [1..Cardinality(lost) -> lost] :
           tasks' = tasks \o [i \in DOMAIN order |-> [status |-> "pending", deps |-> tasks[order[i]].deps]]
    BY <1>3 DEF AR!EndRound, AR!WithRecoveries, AR!InOrder, AR!Tasks, AR!Cardinality, Cardinality
  <2>4. lost \subseteq 1..Len(tasks)
    OBVIOUS
  <2> HIDE DEF lost
  <2>5. order \in [1..Cardinality(lost) -> 1..Len(tasks)]
    BY <2>3, <2>4
  <2>6. ASSUME NEW n, n = Cardinality(lost)
        PROVE  Extends(tasks, tasks', n)
    <3>1. n \in Nat /\ order \in [1..n -> 1..Len(tasks)]
      BY <2>2, <2>5, <2>6
    <3> QED BY <1>1, <2>3, <3>1, Recoveries
  <2>7. Extends(tasks, tasks', Cardinality(lost))
    BY <2>6
  <2> QED BY <1>1, <2>2, <2>7 DEF Extends
<1> QED BY <1>2, <1>3 DEF AR!TypeOK

(* A plan is a closed graph of tasks to be done. *)
LEMMA PlanIsGraph ==
    ASSUME NEW k \in Nat
    PROVE  /\ AR!Plan(k) \in Seq(TaskRow) /\ Len(AR!Plan(k)) = k + 2
           /\ \A t \in 1..(k + 2) : /\ AR!Plan(k)[t].status = "pending"
                                    /\ AR!Plan(k)[t].deps \subseteq 1..(k + 2)
<1> DEFINE deps(t) == IF t = 1 THEN {} ELSE IF t <= k + 1 THEN {1} ELSE 2..(k + 1)
<1>1. \A t \in 1..(k + 2) : deps(t) \subseteq 1..(k + 2) /\ deps(t) \in SUBSET Nat
  OBVIOUS
<1>2. AR!Plan(k) = [t \in 1..(k + 2) |-> [status |-> "pending", deps |-> deps(t)]]
  BY DEF AR!Plan
<1> HIDE DEF deps
<1>3. \A t \in 1..(k + 2) : [status |-> "pending", deps |-> deps(t)] \in TaskRow
  BY <1>1 DEF TaskRow
<1>4. AR!Plan(k) \in Seq(TaskRow) /\ Len(AR!Plan(k)) = k + 2
  BY <1>2, <1>3
<1> QED BY <1>1, <1>2, <1>4

(* A task whose status changes leaves the others and all dependencies. *)
Marks(s, after, t, mark) ==
    /\ after \in Seq(TaskRow) /\ Len(after) = Len(s)
    /\ \A u \in 1..Len(s) : after[u].deps = s[u].deps
    /\ \A u \in 1..Len(s) : after[u].status = IF u = t THEN mark ELSE s[u].status

(* It does so when it is started and when it ends. *)
LEMMA Marked ==
    ASSUME NEW s \in Seq(TaskRow), NEW t \in 1..Len(s),
           NEW mark \in {"pending", "running", "succeeded", "failed"}
    PROVE  Marks(s, [s EXCEPT ![t].status = mark], t, mark)
<1> DEFINE after == [s EXCEPT ![t].status = mark]
<1>1. \A u \in 1..Len(s) : s[u] \in TaskRow
  OBVIOUS
<1>2. after = [u \in 1..Len(s) |-> IF u = t THEN [s[t] EXCEPT !.status = mark] ELSE s[u]]
  OBVIOUS
<1>3. [s[t] EXCEPT !.status = mark] \in TaskRow
  BY <1>1 DEF TaskRow
<1> HIDE DEF after
<1>4. after \in Seq(TaskRow) /\ Len(after) = Len(s)
  BY <1>1, <1>2, <1>3
<1>5. \A u \in 1..Len(s) : after[u] = IF u = t THEN [s[t] EXCEPT !.status = mark] ELSE s[u]
  BY <1>2
<1>6. /\ [s[t] EXCEPT !.status = mark].status = mark
      /\ [s[t] EXCEPT !.status = mark].deps = s[t].deps
  BY <1>1 DEF TaskRow
<1> QED BY <1>4, <1>5, <1>6 DEF Marks, after

(* The tasks, the places and the counters keep their shapes. *)
LEMMA RunTypeStep == RunInv /\ [AR!Next]_AR!vars => AR!TypeOK' /\ Within'
<1> SUFFICES ASSUME RunInv, [AR!Next]_AR!vars PROVE AR!TypeOK' /\ Within'
  OBVIOUS
<1>e. ASSUME NEW mark \in {"succeeded", "failed"}, AR!TaskEnds(mark), current # 0
      PROVE  tasks' \in Seq(TaskRow) /\ Len(tasks') = Len(tasks)
  <2>1. tasks \in Seq(TaskRow) /\ current \in 1..Len(tasks)
    BY <1>e DEF RunInv, AR!TypeOK, TaskRow
  <2>2. Marks(tasks, [tasks EXCEPT ![current].status = mark], current, mark)
    BY <2>1, Marked
  <2> QED BY <1>e, <2>2 DEF AR!TaskEnds, Marks
<1> USE AgentAssumption DEF RunInv, AR!TypeOK, Within, Before, AR!Active, AR!requests, AR!work,
            AR!limits, AR!Tasks
<1>1. CASE AR!Initialize BY <1>1 DEF AR!Initialize, AR!States, AR!GoalStatuses
<1>2. CASE AR!InitializeFails BY <1>2 DEF AR!InitializeFails, AR!Fails, AR!States, AR!GoalStatuses
<1>3. CASE AR!Initialized BY <1>3 DEF AR!Initialized, AR!States
<1>4. CASE AR!BeginPlan BY <1>4 DEF AR!BeginPlan, AR!States
<1>5. CASE AR!Planned
  <2>1. PICK k \in Nat : tasks' = AR!Plan(k) /\ planned' = k + 2
    BY <1>5 DEF AR!Planned
  <2>2. tasks' \in Seq(TaskRow) /\ Len(tasks') = k + 2
    BY <2>1, PlanIsGraph
  <2>3. round' = {} /\ current' = 0
    BY <1>5 DEF AR!Planned, Graph
  <2> QED BY <1>5, <2>1, <2>2, <2>3 DEF AR!Planned, TaskRow, AR!States
<1>6. CASE AR!Stop
  <2>1. state' \in AR!States /\ goal' \in AR!GoalStatuses /\ agentPc' \in {"closing", "reflecting"}
    BY <1>6, LeaveAgrees DEF AR!Stop, Phase
  <2> QED BY <1>6, <2>1 DEF AR!Stop
<1>7. CASE AR!StopPaused BY <1>7 DEF AR!StopPaused, AR!States
<1>8. CASE AR!LeavePaused
  <2>1. state' \in AR!States /\ goal' \in AR!GoalStatuses /\ agentPc' \in {"closing", "reflecting"}
    BY <1>8, LeaveAgrees DEF AR!LeavePaused, Phase
  <2> QED BY <1>8, <2>1 DEF AR!LeavePaused
<1>9. CASE AR!BeginRound BY <1>9 DEF AR!BeginRound, AR!Ready, AR!More
<1>10. CASE AR!StartTask
  <2>1. PICK t \in round : /\ current' = t /\ round' = round \ {t}
                           /\ tasks' = [tasks EXCEPT ![t].status = "running"]
    BY <1>10 DEF AR!StartTask
  <2>2. tasks' \in Seq(TaskRow) /\ Len(tasks') = Len(tasks)
    BY <2>1, Marked DEF Marks, TaskRow
  <2>3. planned' \in 0..Len(tasks') /\ round' \subseteq AR!Tasks' /\ current' \in 0..Len(tasks')
    BY <1>10, <2>1, <2>2 DEF AR!StartTask
  <2>4. attempt' \in 0..(Retries + 1) /\ attempt' = 1 /\ steps' \in 0..MaxSteps
    BY <1>10 DEF AR!StartTask
  <2>5. AR!TypeOK'
    <3>1. UNCHANGED <<reflects, paused, cancelled, state, goal, iterations, spent, agentPc, goalRow>>
      BY <1>10 DEF AR!StartTask
    <3>2. steps' \in 0..(MaxSteps + 1)
      BY <2>4
    <3>3. tasks' \in Seq([status : {"pending", "running", "succeeded", "failed"}, deps : SUBSET Nat])
      BY <2>2 DEF TaskRow
    <3> HIDE DEF AR!Tasks, AR!Active, Within
    <3> QED BY <2>3, <2>4, <3>1, <3>2, <3>3
  <2>6. Within'
    BY <1>10, <2>4 DEF AR!StartTask
  <2> QED BY <2>5, <2>6
<1>11. CASE AR!StepLimit BY <1>11 DEF AR!StepLimit, AR!Fails, AR!States, AR!GoalStatuses
<1>12. CASE AR!TaskSucceeds
  <2>1. tasks' \in Seq(TaskRow) /\ Len(tasks') = Len(tasks)
    BY <1>12, <1>e DEF AR!TaskSucceeds
  <2>2. current' = 0 /\ attempt' = 0
    BY <1>12 DEF AR!TaskSucceeds, AR!TaskEnds
  <2> QED BY <1>12, <2>1, <2>2 DEF AR!TaskSucceeds, TaskRow
<1>13. CASE AR!AttemptFails
  <2>1. CASE attempt <= Retries /\ attempt' = attempt + 1 /\ UNCHANGED <<tasks, current>>
    BY <1>13, <2>1 DEF AR!AttemptFails
  <2>2. CASE AR!TaskEnds("failed")
    <3>1. tasks' \in Seq(TaskRow) /\ Len(tasks') = Len(tasks)
      BY <1>13, <2>2, <1>e DEF AR!AttemptFails
    <3>2. current' = 0 /\ attempt' = 0
      BY <2>2 DEF AR!TaskEnds
    <3> QED BY <1>13, <3>1, <3>2 DEF AR!AttemptFails, TaskRow
  <2> QED BY <1>13, <2>1, <2>2 DEF AR!AttemptFails
<1>14. CASE AR!BudgetBlocks
  <2>1. tasks' \in Seq(TaskRow) /\ Len(tasks') = Len(tasks)
    BY <1>14, <1>e DEF AR!BudgetBlocks
  <2>2. current' = 0 /\ attempt' = 0
    BY <1>14 DEF AR!BudgetBlocks, AR!TaskEnds
  <2> QED BY <1>14, <2>1, <2>2 DEF AR!BudgetBlocks, TaskRow
<1>15. CASE AR!EndRound
  <2>1. tasks' \in Seq(TaskRow) /\ Len(tasks') >= Len(tasks) /\ Len(tasks') \in Nat
    BY <1>15, Grown
  <2> QED BY <1>15, <2>1 DEF AR!EndRound, TaskRow
<1>16. CASE AR!Reflected
  BY <1>16 DEF AR!Reflected, AR!Finish, AR!CanTransition, AR!States, AR!GoalStatuses
<1>17. CASE AR!Close BY <1>17 DEF AR!Close
<1>18. CASE AR!Persist BY <1>18 DEF AR!Persist
<1>19. CASE AR!Lost BY <1>19 DEF AR!Lost
<1>20. CASE AR!Pause BY <1>20 DEF AR!Pause
<1>21. CASE AR!Resume BY <1>21 DEF AR!Resume
<1>22. CASE AR!Cancel BY <1>22 DEF AR!Cancel
<1>23. CASE UNCHANGED AR!vars BY <1>23 DEF AR!vars
<1> QED
  BY <1>1, <1>2, <1>3, <1>4, <1>5, <1>6, <1>7, <1>8, <1>9, <1>10, <1>11, <1>12, <1>13, <1>14,
     <1>15, <1>16, <1>17, <1>18, <1>19, <1>20, <1>21, <1>22, <1>23
  DEF AR!Next, AR!Step

(* The graph stays closed, and what has been started stays justified. *)
LEMMA GraphStep ==
    RunInv /\ [AR!Next]_AR!vars => Graph' /\ DependenciesSucceeded'
<1> SUFFICES ASSUME RunInv, [AR!Next]_AR!vars PROVE Graph' /\ DependenciesSucceeded'
  OBVIOUS
<1>t. tasks \in Seq(TaskRow) /\ Len(tasks) \in Nat
  BY DEF RunInv, AR!TypeOK, TaskRow
<1>m. ASSUME NEW t \in 1..Len(tasks), NEW mark \in {"running", "succeeded", "failed"},
             Marks(tasks, tasks', t, mark), round' \subseteq round \ {t},
             \/ tasks[t].status = "pending" /\ t \in round /\ mark = "running" /\ current' = t
             \/ tasks[t].status = "running" /\ mark # "running" /\ current' = 0,
             agentPc' = "running"
      PROVE  Graph' /\ DependenciesSucceeded'
  <2>1. AR!Tasks' = AR!Tasks
    BY <1>m DEF AR!Tasks, Marks
  <2>2. ASSUME NEW u \in 1..Len(tasks), tasks[u].status = "succeeded"
        PROVE  tasks'[u].status = "succeeded"
    BY <1>m, <2>2 DEF Marks
  <2>3. Graph'
    <3>1. \A u \in AR!Tasks : tasks'[u].deps \subseteq AR!Tasks
      BY <1>m DEF RunInv, Graph, Marks, AR!Tasks
    <3>2. \A u \in round' : u \in AR!Ready'
      <4> SUFFICES ASSUME NEW u \in round' PROVE u \in AR!Ready'
        OBVIOUS
      <4>1. u \in AR!Ready /\ u # t /\ u \in 1..Len(tasks)
        BY <1>m DEF RunInv, Graph, AR!Ready, AR!Tasks
      <4>2. \A d \in tasks[u].deps : d \in 1..Len(tasks) /\ tasks[d].status = "succeeded"
        BY <4>1 DEF RunInv, Graph, AR!Ready, AR!Tasks
      <4>3. tasks'[u].status = "pending" /\ tasks'[u].deps = tasks[u].deps
        BY <1>m, <4>1 DEF AR!Ready, Marks
      <4> QED BY <4>1, <4>2, <4>3, <2>1, <2>2 DEF AR!Ready, AR!Tasks
    <3>3. current' # 0 => tasks'[current'].status = "running"
      BY <1>m DEF Marks
    <3> QED BY <1>m, <2>1, <3>1, <3>2, <3>3 DEF Graph, Before
  <2>4. ASSUME NEW u \in AR!Tasks', tasks'[u].status # "pending", NEW d \in tasks'[u].deps
        PROVE  d \in AR!Tasks' /\ tasks'[d].status = "succeeded"
    <3>1. u \in 1..Len(tasks) /\ d \in tasks[u].deps
      BY <1>m, <2>1, <2>4 DEF AR!Tasks, Marks
    <3>2. d \in 1..Len(tasks) /\ tasks[d].status = "succeeded"
      <4>1. CASE u = t /\ t \in round
        BY <4>1, <3>1 DEF RunInv, Graph, AR!Ready, AR!Tasks
      <4>2. CASE tasks[u].status # "pending"
        BY <4>2, <3>1 DEF RunInv, DependenciesSucceeded, AR!Tasks
      <4> QED BY <1>m, <2>4, <3>1, <4>1, <4>2 DEF Marks
    <3> QED BY <3>2, <2>1, <2>2 DEF AR!Tasks
  <2> QED BY <2>3, <2>4 DEF DependenciesSucceeded
<1>5. CASE AR!Planned
  <2>1. PICK k \in Nat : tasks' = AR!Plan(k)
    BY <1>5, AgentAssumption DEF AR!Planned
  <2>2. /\ AR!Tasks' = 1..(k + 2)
        /\ \A t \in 1..(k + 2) : tasks'[t].status = "pending" /\ tasks'[t].deps \subseteq 1..(k + 2)
    BY <2>1, PlanIsGraph DEF AR!Tasks
  <2>3. round' = {} /\ current' = 0 /\ agentPc' = "deciding"
    BY <1>5 DEF AR!Planned, RunInv, Graph, Before
  <2> QED BY <2>2, <2>3 DEF Graph, DependenciesSucceeded, Before
<1>9. CASE AR!BeginRound
  <2>1. round' = AR!Ready /\ UNCHANGED <<tasks, current>> /\ agentPc' = "running"
    BY <1>9 DEF AR!BeginRound
  <2>2. AR!Tasks' = AR!Tasks /\ AR!Ready' = AR!Ready
    BY <2>1 DEF AR!Tasks, AR!Ready
  <2> QED BY <2>1, <2>2 DEF RunInv, Graph, DependenciesSucceeded, Before
<1>10. CASE AR!StartTask
  <2>1. PICK t \in round : /\ current' = t /\ round' = round \ {t}
                           /\ tasks' = [tasks EXCEPT ![t].status = "running"]
    BY <1>10 DEF AR!StartTask
  <2>2. t \in 1..Len(tasks) /\ tasks[t].status = "pending"
    BY DEF RunInv, Graph, AR!Ready, AR!Tasks
  <2>3. Marks(tasks, tasks', t, "running")
    BY <1>t, <2>1, <2>2, Marked
  <2> QED BY <1>m, <1>10, <2>1, <2>2, <2>3 DEF AR!StartTask
<1>12. ASSUME NEW mark \in {"succeeded", "failed"}, AR!TaskEnds(mark), current # 0,
              round' = round, agentPc' = "running"
       PROVE  Graph' /\ DependenciesSucceeded'
  <2>1. current \in 1..Len(tasks) /\ tasks[current].status = "running" /\ current \notin round
    BY <1>12, <1>t DEF RunInv, AR!TypeOK, Graph, AR!Ready
  <2>2. Marks(tasks, tasks', current, mark)
    BY <1>12, <1>t, <2>1, Marked DEF AR!TaskEnds
  <2> QED BY <1>m, <1>12, <2>1, <2>2 DEF AR!TaskEnds
<1>15. CASE AR!EndRound
  <2>1. /\ Len(tasks') \in Nat /\ Len(tasks') >= Len(tasks)
        /\ \A t \in 1..Len(tasks) : tasks'[t] = tasks[t]
        /\ \A t \in 1..Len(tasks') : t > Len(tasks) =>
              tasks'[t].status = "pending" /\ \E u \in 1..Len(tasks) : tasks'[t].deps = tasks[u].deps
    BY <1>15, Grown DEF RunInv
  <2>2. round' = {} /\ current' = 0 /\ agentPc' = "deciding"
    BY <1>15 DEF AR!EndRound
  <2>3. 1..Len(tasks) \subseteq AR!Tasks'
    BY <1>t, <2>1 DEF AR!Tasks
  <2>4. ASSUME NEW t \in AR!Tasks' PROVE tasks'[t].deps \subseteq AR!Tasks'
    <3>1. CASE t <= Len(tasks)
      BY <3>1, <1>t, <2>1, <2>3 DEF RunInv, Graph, AR!Tasks
    <3>2. CASE t > Len(tasks)
      <4>1. PICK u \in 1..Len(tasks) : tasks'[t].deps = tasks[u].deps
        BY <3>2, <2>1 DEF AR!Tasks
      <4> QED BY <4>1, <2>3 DEF RunInv, Graph, AR!Tasks
    <3> QED BY <3>1, <3>2, <1>t, <2>1 DEF AR!Tasks
  <2>5. ASSUME NEW t \in AR!Tasks', tasks'[t].status # "pending", NEW d \in tasks'[t].deps
        PROVE  d \in AR!Tasks' /\ tasks'[d].status = "succeeded"
    <3>1. t \in 1..Len(tasks)
      BY <1>t, <2>1, <2>5 DEF AR!Tasks
    <3>2. tasks'[t] = tasks[t]
      BY <3>1, <2>1
    <3>3. d \in 1..Len(tasks) /\ tasks[d].status = "succeeded"
      BY <3>1, <3>2, <2>5 DEF RunInv, DependenciesSucceeded, AR!Tasks
    <3> QED BY <3>3, <2>1, <2>3
  <2> QED BY <2>2, <2>4, <2>5 DEF Graph, DependenciesSucceeded, Before
<1>16. ASSUME UNCHANGED <<tasks, round, current>>, agentPc' \in Before => agentPc \in Before
       PROVE  Graph' /\ DependenciesSucceeded'
  <2>1. AR!Tasks' = AR!Tasks /\ AR!Ready' = AR!Ready
    BY <1>16 DEF AR!Tasks, AR!Ready
  <2> QED BY <1>16, <2>1 DEF RunInv, Graph, DependenciesSucceeded
<1> USE DEF Before, AR!work
<1>17. CASE \/ AR!Initialize \/ AR!InitializeFails \/ AR!Initialized \/ AR!BeginPlan
            \/ AR!StopPaused \/ AR!StepLimit \/ AR!Reflected \/ AR!Close \/ AR!Persist \/ AR!Lost \/ AR!Pause \/ AR!Resume \/ AR!Cancel
  BY <1>16, <1>17 DEF AR!Initialize, AR!InitializeFails, AR!Initialized, AR!BeginPlan,
                      AR!StopPaused, AR!StepLimit, AR!Reflected, AR!Close, AR!Persist, AR!Lost,
                      AR!Pause, AR!Resume, AR!Cancel, AR!Fails
<1>18. CASE AR!Stop \/ AR!LeavePaused
  BY <1>16, <1>18 DEF AR!Stop, AR!LeavePaused, AR!Leave, AR!Fails
<1>19. CASE AR!TaskSucceeds
  BY <1>12, <1>19 DEF AR!TaskSucceeds
<1>20. CASE AR!AttemptFails
  BY <1>12, <1>16, <1>20 DEF AR!AttemptFails
<1>21. CASE AR!BudgetBlocks
  BY <1>12, <1>21 DEF AR!BudgetBlocks
<1>22. CASE UNCHANGED AR!vars
  BY <1>16, <1>22 DEF AR!vars
<1> QED
  BY <1>5, <1>9, <1>10, <1>15, <1>17, <1>18, <1>19, <1>20, <1>21, <1>22 DEF AR!Next, AR!Step

(* The invariant holds in every state of every run. *)
LEMMA RunInvariant == AR!Spec => []RunInv
<1>1. RunInv /\ [AR!Next]_AR!vars => RunInv'
  BY PhaseStep, RunTypeStep, GraphStep DEF RunInv
<1> QED BY <1>1, RunInitInv, PTL DEF AR!Spec

(* The run stays within its limits whatever is planned and replanned:      *)
(* steps, iterations and retries (agents/policies, agents/executor).       *)
THEOREM LimitsCorrect == AR!Spec => []AR!TypeOK
<1>1. RunInv => AR!TypeOK BY DEF RunInv
<1> QED BY <1>1, RunInvariant, PTL

(* No task is started before its dependencies succeeded (TaskGraph.ready), *)
(* for every plan, however often replan() adds tasks.                      *)
THEOREM DependenciesCorrect == AR!Spec => []DependenciesSucceeded
<1>1. RunInv => DependenciesSucceeded BY DEF RunInv
<1> QED BY <1>1, RunInvariant, PTL

(* Agent, goal and row agree at the end of BaseAgent.run, but for an agent *)
(* without reflection that was paused.                                     *)
THEOREM OutcomeCorrect == AR!Spec => []OutcomeAgrees
<1>1. RunInv => OutcomeAgrees BY DEF RunInv, AR!TypeOK, Phase, Closed, OutcomeAgrees
<1> QED BY <1>1, RunInvariant, PTL

-----------------------------------------------------------------------------
(* Moving one part while the others stand still is a behaviour of that     *)
(* part, so what is proved of the parts holds of the specifications of the *)
(* runs as well.                                                           *)
THEOREM MovesOnePart ==
    /\ AgentRunSpec => AR!Spec
    /\ JobSpec => JQ!Spec
<1>1. Begin => AR!Init /\ JQ!Init
  BY DEF Begin
<1>2. [AR!Next /\ UNCHANGED <<vars, queue>>]_all => [AR!Next]_AR!vars
  BY DEF all, agent, AR!vars, AR!requests, AR!work, AR!limits
<1>3. [JQ!Next /\ UNCHANGED <<vars, agent>>]_all => [JQ!Next]_JQ!vars
  BY DEF all, queue, JQ!vars
<1> QED BY <1>1, <1>2, <1>3, PTL DEF AgentRunSpec, JobSpec, AR!Spec, JQ!Spec
=============================================================================
