-------------------------- MODULE BackgroundProofs --------------------------
(***************************************************************************)
(* What the task queue, the event bus, the triggers, the plugins and the   *)
(* workflows of agents guarantee for any number of tasks, events,          *)
(* handlers, triggers, pollers, plugins, steps and retries.  The parts     *)
(* share no state, so each keeps its own inductive invariant through the   *)
(* steps of all of them.                                                   *)
(***************************************************************************)
EXTENDS MCBackground, FiniteSetTheorems, WellFoundedInduction, TLAPS

(* A step of the whole is a step of a part or leaves the part alone. *)
LEMMA PartsStep ==
    ASSUME [Next]_vars
    PROVE  /\ TQ!Next \/ UNCHANGED taskVars
           /\ EB!Next \/ UNCHANGED busVars
           /\ PL!Next \/ UNCHANGED pluginVars
           /\ AW!Next \/ UNCHANGED workflowVars
           /\ TR!Next \/ UNCHANGED triggerVars
<1>1. CASE UNCHANGED vars
  BY <1>1 DEF vars, taskVars, busVars, pluginVars, workflowVars, triggerVars
<1>2. CASE Next
  BY <1>2 DEF Next, OnTasks, OnBus, OnPlugins, OnWorkflow, OnWebhooks, OnTriggers, OnLimits,
              taskVars, busVars, pluginVars, workflowVars, triggerVars
<1> QED BY <1>1, <1>2

-----------------------------------------------------------------------------
(* The task queue. *)

(* A cancelled task that has not begun is marked so, and the attempts are  *)
(* counted from its first.                                                 *)
TaskSound(t) ==
    /\ record[t] \in TQ!Record /\ run[t] \in TQ!Runs
    /\ asked[t] \in [ever : BOOLEAN, pending : BOOLEAN]
    /\ asked[t].pending => asked[t].ever /\ run[t] # "absent"
    /\ asked[t].pending /\ run[t] \in {"new", "sleeping"} => record[t].status = "cancelled"
    /\ run[t] \in {"absent", "new", "sleeping"} => record[t].attempts = 0

TaskInv ==
    /\ DOMAIN record = Tasks /\ DOMAIN run = Tasks /\ DOMAIN asked = Tasks
    /\ \A t \in Tasks : TaskSound(t)
    /\ RecordTellsTheRun

(* The part of TaskInv that is about one task. *)
TaskTold(t) ==
    /\ run[t] = "done" => record[t].status \in TQ!Terminal
    /\ record[t].status \in {"succeeded", "failed", "timed_out"} => run[t] = "done"
    /\ record[t].status = "failed" => record[t].attempts = MaxRetries + 1
    /\ record[t].status = "cancelled" => asked[t].ever \/ run[t] = "done"
    /\ record[t].attempts <= MaxRetries + 1

(* A step of one task. *)
LEMMA TaskSteps ==
    ASSUME NEW t \in Tasks, TaskSound(t), TaskTold(t), t \in DOMAIN record, t \in DOMAIN run,
           t \in DOMAIN asked,
           TQ!Submit(t) \/ TQ!Cancel(t) \/ TQ!Progress(t)
    PROVE  TaskSound(t)' /\ TaskTold(t)'
<1>1. ASSUME TQ!Attempt(t)
      PROVE  /\ record'[t] \in TQ!Record /\ record'[t].status = "running"
             /\ record'[t].attempts = record[t].attempts + 1 /\ run'[t] = "handling"
  <2>1. record'[t] = [record[t] EXCEPT !.status = "running", !.attempts = @ + 1]
        /\ run'[t] = "handling"
    BY <1>1 DEF TQ!Attempt, TQ!Attempted
  <2>2. record[t] \in TQ!Record
    BY DEF TaskSound
  <2>3. record[t] = [status |-> record[t].status, attempts |-> record[t].attempts]
    BY <2>2 DEF TQ!Record
  <2>4. record'[t] = [status |-> "running", attempts |-> record[t].attempts + 1]
    BY <2>1, <2>3
  <2>5. record[t].attempts + 1 \in Nat
    BY <2>2 DEF TQ!Record
  <2>6. [status |-> "running", attempts |-> record[t].attempts + 1] \in TQ!Record
    BY <2>5 DEF TQ!Record
  <2> QED BY <2>1, <2>4, <2>6
<1>2. ASSUME NEW mark \in {"pending", "scheduled"} \cup TQ!Terminal,
             record' = [record EXCEPT ![t].status = mark]
      PROVE  /\ record'[t] \in TQ!Record /\ record'[t].status = mark
             /\ record'[t].attempts = record[t].attempts
  <2>1. record'[t] = [record[t] EXCEPT !.status = mark]
    BY <1>2
  <2>2. record[t] \in TQ!Record
    BY DEF TaskSound
  <2> QED BY <2>1, <2>2 DEF TQ!Record
<1>3. record[t].attempts \in Nat
  BY DEF TaskSound, TQ!Record
<1> USE BackgroundAssumption DEF TaskSound, TaskTold, TQ!Runs, TQ!Terminal
<1>4. CASE TQ!Submit(t)
  <2>1. PICK mark \in {"pending", "scheduled"} : record' = [record EXCEPT ![t].status = mark]
    BY <1>4 DEF TQ!Submit
  <2>2. /\ record'[t] \in TQ!Record /\ record'[t].status = mark
        /\ record'[t].attempts = record[t].attempts
    BY <1>2, <2>1
  <2>3. run[t] = "absent" /\ run'[t] = "new" /\ asked' = asked
    BY <1>4 DEF TQ!Submit
  <2>4. TaskSound(t)'
    BY <1>3, <2>1, <2>2, <2>3
  <2>5. record'[t].attempts <= MaxRetries + 1
    BY <1>3, <2>2
  <2>6. mark \notin TQ!Terminal
    BY <2>1
  <2> QED BY <2>2, <2>3, <2>4, <2>5, <2>6
<1>5. CASE TQ!Cancel(t)
  BY <1>5 DEF TQ!Cancel, TQ!Record
<1>6. CASE TQ!Start(t)
  <2>1. run[t] = "new" /\ ~asked[t].pending /\ asked' = asked
    BY <1>6 DEF TQ!Start
  <2>2. CASE TQ!Attempt(t)
    BY <1>1, <1>3, <2>1, <2>2
  <2>3. CASE run'[t] = "sleeping" /\ record' = record
    BY <2>1, <2>3
  <2> QED BY <1>6, <2>2, <2>3 DEF TQ!Start
<1>7. CASE TQ!Wake(t)
  <2>1. run[t] = "sleeping" /\ ~asked[t].pending /\ asked' = asked /\ TQ!Attempt(t)
    BY <1>7 DEF TQ!Wake
  <2> QED BY <1>1, <1>3, <2>1
<1>8. CASE TQ!CancelledEarly(t)
  BY <1>8 DEF TQ!CancelledEarly
<1>9. ASSUME NEW mark \in TQ!Terminal, TQ!Ends(t, mark), run[t] = "handling",
             asked'[t] \in [ever : BOOLEAN, pending : BOOLEAN],
             asked'[t].pending => asked'[t].ever,
             mark = "failed" => record[t].attempts = MaxRetries + 1
      PROVE  TaskSound(t)' /\ TaskTold(t)'
  <2>1. /\ record'[t] \in TQ!Record /\ record'[t].status = mark
        /\ record'[t].attempts = record[t].attempts /\ run'[t] = "done"
    BY <1>2, <1>9 DEF TQ!Ends
  <2> QED BY <1>9, <2>1
<1>10. CASE TQ!HandlerReturns(t) \/ TQ!HandlerTimesOut(t) \/ TQ!HandlerCancelled(t)
  BY <1>9, <1>10 DEF TQ!HandlerReturns, TQ!HandlerTimesOut, TQ!HandlerCancelled
<1>11. CASE TQ!HandlerRaises(t)
  <2>1. PICK thrown \in {FALSE, asked[t].pending} : asked' = [asked EXCEPT ![t].pending = thrown]
    BY <1>11 DEF TQ!HandlerRaises
  <2>2. /\ asked'[t] \in [ever : BOOLEAN, pending : BOOLEAN]
        /\ asked'[t].ever = asked[t].ever
        /\ asked'[t].pending => asked'[t].ever
    BY <2>1
  <2>3. run[t] = "handling"
    BY <1>11 DEF TQ!HandlerRaises
  <2>4. CASE TQ!Exhausted(t)
    <3>1. TQ!Ends(t, "failed") /\ record[t].attempts = MaxRetries + 1
      BY <1>3, <1>11, <2>4 DEF TQ!HandlerRaises, TQ!Exhausted
    <3> QED BY <1>9, <2>2, <2>3, <3>1
  <2>5. CASE ~TQ!Exhausted(t)
    <3>1. TQ!Attempt(t) /\ record[t].attempts <= MaxRetries
      BY <1>3, <1>11, <2>5 DEF TQ!HandlerRaises, TQ!Exhausted
    <3>2. record[t].attempts + 1 <= MaxRetries + 1
      BY <1>3, <3>1
    <3> QED BY <1>1, <2>2, <2>3, <3>1, <3>2
  <2> QED BY <2>4, <2>5
<1> QED BY <1>4, <1>5, <1>6, <1>7, <1>8, <1>10, <1>11 DEF TQ!Progress

(* A step of one task leaves the others as they are. *)
LEMMA TaskFrame ==
    ASSUME NEW t \in Tasks, TQ!Submit(t) \/ TQ!Cancel(t) \/ TQ!Progress(t), TaskInv
    PROVE  /\ DOMAIN record' = Tasks /\ DOMAIN run' = Tasks /\ DOMAIN asked' = Tasks
           /\ \A u \in Tasks \ {t} :
                  record'[u] = record[u] /\ run'[u] = run[u] /\ asked'[u] = asked[u]
<1>1. DOMAIN record = Tasks /\ DOMAIN run = Tasks /\ DOMAIN asked = Tasks
  BY DEF TaskInv
<1> QED
  BY <1>1 DEF TQ!Submit, TQ!Cancel, TQ!Progress, TQ!Start, TQ!Wake, TQ!CancelledEarly,
              TQ!HandlerReturns, TQ!HandlerTimesOut, TQ!HandlerCancelled, TQ!HandlerRaises,
              TQ!Ends, TQ!Attempt

(* Whatever a handler does and whenever cancel() comes, in any interleaving*)
(* of any number of tasks, the record a submitter polls tells what became  *)
(* of the run.                                                             *)
THEOREM RecordCorrect == Spec => []RecordTellsTheRun
<1>1. Init => TaskInv
  <2> SUFFICES ASSUME Init PROVE TaskInv
    OBVIOUS
  <2>1. TQ!Init
    BY DEF Init
  <2>2. /\ DOMAIN record = Tasks /\ DOMAIN run = Tasks /\ DOMAIN asked = Tasks
    BY <2>1 DEF TQ!Init
  <2>3. ASSUME NEW t \in Tasks PROVE TaskSound(t) /\ TaskTold(t)
    BY <2>1, BackgroundAssumption
       DEF TQ!Init, TaskSound, TaskTold, TQ!Record, TQ!Runs, TQ!Terminal
  <2> QED BY <2>2, <2>3 DEF TaskInv, TaskTold, RecordTellsTheRun, TQ!RecordTellsTheRun
<1>2. TaskInv /\ [Next]_vars => TaskInv'
  <2> SUFFICES ASSUME TaskInv, [Next]_vars PROVE TaskInv'
    OBVIOUS
  <2>1. CASE TQ!Next
    <3>1. PICK t \in Tasks : TQ!Submit(t) \/ TQ!Cancel(t) \/ TQ!Progress(t)
      BY <2>1 DEF TQ!Next
    <3>2. \A u \in Tasks : TaskSound(u) /\ TaskTold(u)
      BY DEF TaskInv, TaskTold, RecordTellsTheRun, TQ!RecordTellsTheRun
    <3>3. TaskSound(t)' /\ TaskTold(t)'
      BY <3>1, <3>2, TaskSteps DEF TaskInv
    <3>4. /\ DOMAIN record' = Tasks /\ DOMAIN run' = Tasks /\ DOMAIN asked' = Tasks
          /\ \A u \in Tasks \ {t} :
                 record'[u] = record[u] /\ run'[u] = run[u] /\ asked'[u] = asked[u]
      BY <3>1, TaskFrame
    <3>5. ASSUME NEW u \in Tasks \ {t} PROVE TaskSound(u)' /\ TaskTold(u)'
      BY <3>2, <3>4 DEF TaskSound, TaskTold
    <3>6. \A u \in Tasks : TaskSound(u)' /\ TaskTold(u)'
      BY <3>3, <3>5
    <3> QED BY <3>4, <3>6 DEF TaskInv, TaskTold, RecordTellsTheRun, TQ!RecordTellsTheRun
  <2>2. CASE UNCHANGED taskVars
    BY <2>2 DEF taskVars, TaskInv, TaskSound, RecordTellsTheRun, TQ!RecordTellsTheRun
  <2> QED BY <2>1, <2>2, PartsStep
<1>3. TaskInv => RecordTellsTheRun
  BY DEF TaskInv
<1> QED BY <1>1, <1>2, <1>3, PTL DEF Spec

-----------------------------------------------------------------------------
(* The event bus. *)

Pairs == Events \X Handlers

(* An open delivery has retries left; one that was given up has none, and  *)
(* one dead letter; nothing is open once its publish has ended.            *)
DeliverySound(p) ==
    /\ delivery[p] \in EB!Delivery /\ dead[p] \in Nat
    /\ delivery[p].state \in {"none", "running"} =>
           delivery[p].attempt <= MaxDeliveryRetries /\ dead[p] = 0
    /\ delivery[p].state = "handled" => dead[p] = 0
    /\ delivery[p].state = "dead" =>
           dead[p] = 1 /\ delivery[p].attempt = MaxDeliveryRetries + 1
    /\ delivery[p].state = "running" => publishing[p[1]] = "running"
    /\ delivery[p].state = "lost" => publishing[p[1]] = "cancelled"
    /\ publishing[p[1]] = "no" => delivery[p].state = "none"

BusInv ==
    /\ publishing \in [Events -> {"no", "running", "returned", "cancelled"}]
    /\ DOMAIN delivery = Pairs /\ DOMAIN dead = Pairs
    /\ \A p \in Pairs : DeliverySound(p)

(* A delivery that fails once more. *)
LEMMA DeliveryFails ==
    ASSUME NEW p \in Pairs, BusInv, EB!Fails(p)
    PROVE  /\ DOMAIN delivery' = Pairs /\ DOMAIN dead' = Pairs /\ publishing' = publishing
           /\ \A q \in Pairs \ {p} : delivery'[q] = delivery[q] /\ dead'[q] = dead[q]
           /\ delivery[p].state = "running"
           /\ delivery'[p] = [state |-> IF EB!GivesUp(p) THEN "dead" ELSE "running",
                              attempt |-> delivery[p].attempt + 1]
           /\ dead'[p] = IF EB!GivesUp(p) THEN dead[p] + 1 ELSE dead[p]
<1>1. DOMAIN delivery = Pairs /\ DOMAIN dead = Pairs /\ delivery[p] \in EB!Delivery
  BY DEF BusInv, DeliverySound
<1>2. delivery[p] = [state |-> delivery[p].state, attempt |-> delivery[p].attempt]
  BY <1>1 DEF EB!Delivery
<1>3. delivery[p].state = "running" /\ publishing' = publishing
  BY DEF EB!Fails
<1>4. DOMAIN dead' = Pairs /\ \A q \in Pairs \ {p} : dead'[q] = dead[q]
  BY <1>1 DEF EB!Fails
<1>5. dead'[p] = IF EB!GivesUp(p) THEN dead[p] + 1 ELSE dead[p]
  BY <1>1 DEF EB!Fails
<1>6. DOMAIN delivery' = Pairs /\ \A q \in Pairs \ {p} : delivery'[q] = delivery[q]
  BY <1>1 DEF EB!Fails
<1>7. delivery'[p] = [state |-> IF EB!GivesUp(p) THEN "dead" ELSE "running",
                      attempt |-> delivery[p].attempt + 1]
  BY <1>1, <1>2, <1>3 DEF EB!Fails
<1> QED BY <1>3, <1>4, <1>5, <1>6, <1>7

(* However publishers, handlers and retries interleave, and whoever is     *)
(* cancelled, a publish that returned has concluded every delivery.        *)
THEOREM DeliveriesConclude == Spec => []EveryDeliveryConcluded
<1> USE DEF Pairs
<1>1. Init => BusInv
  <2> SUFFICES ASSUME Init PROVE BusInv
    OBVIOUS
  <2>1. EB!Init
    BY DEF Init
  <2>2. /\ publishing \in [Events -> {"no", "running", "returned", "cancelled"}]
        /\ DOMAIN delivery = Pairs /\ DOMAIN dead = Pairs
    BY <2>1 DEF EB!Init
  <2>3. ASSUME NEW p \in Pairs PROVE DeliverySound(p)
    BY <2>1, BackgroundAssumption DEF EB!Init, DeliverySound, EB!Delivery
  <2> QED BY <2>2, <2>3 DEF BusInv
<1>2. BusInv /\ [Next]_vars => BusInv'
  <2> SUFFICES ASSUME BusInv, [Next]_vars PROVE BusInv'
    OBVIOUS
  <2>0. /\ publishing \in [Events -> {"no", "running", "returned", "cancelled"}]
        /\ DOMAIN delivery = Pairs /\ DOMAIN dead = Pairs
        /\ \A p \in Pairs : DeliverySound(p)
    BY DEF BusInv
  <2>1. ASSUME NEW h \in Handlers, EB!Subscribe(h) PROVE BusInv'
    BY <2>0, <2>1 DEF EB!Subscribe, BusInv, DeliverySound
  <2>2. ASSUME NEW e \in Events, EB!Publish(e) PROVE BusInv'
    <3>1. /\ publishing[e] = "no" /\ dead' = dead
          /\ publishing' \in [Events -> {"no", "running", "returned", "cancelled"}]
          /\ DOMAIN delivery' = Pairs
      BY <2>0, <2>2 DEF EB!Publish
    <3>2. ASSUME NEW p \in Pairs, p[1] # e PROVE DeliverySound(p)'
      <4>1. delivery'[p] = delivery[p] /\ publishing'[p[1]] = publishing[p[1]]
        BY <2>0, <2>2, <3>2 DEF EB!Publish
      <4> QED BY <2>0, <3>1, <4>1 DEF DeliverySound
    <3>3. ASSUME NEW p \in Pairs, p[1] = e PROVE DeliverySound(p)'
      <4>1. DeliverySound(p) /\ delivery[p].state = "none"
        BY <2>0, <3>1, <3>3 DEF DeliverySound
      <4>2. CASE p[2] \in subscribed
        <5>1. delivery'[p] = [delivery[p] EXCEPT !.state = "running"]
              /\ publishing'[p[1]] = "running"
          BY <2>0, <2>2, <3>3, <4>2 DEF EB!Publish
        <5>2. delivery'[p] \in EB!Delivery /\ delivery'[p].state = "running"
              /\ delivery'[p].attempt = delivery[p].attempt
          BY <4>1, <5>1 DEF DeliverySound, EB!Delivery
        <5> QED BY <3>1, <4>1, <5>1, <5>2 DEF DeliverySound
      <4>3. CASE p[2] \notin subscribed
        <5>1. delivery'[p] = delivery[p]
          BY <2>0, <2>2, <4>3 DEF EB!Publish
        <5> QED BY <3>1, <4>1, <5>1 DEF DeliverySound
      <4> QED BY <4>2, <4>3
    <3> QED BY <2>0, <3>1, <3>2, <3>3 DEF BusInv
  <2>3. ASSUME NEW e \in Events, EB!Returns(e) PROVE BusInv'
    <3>1. /\ publishing' \in [Events -> {"no", "running", "returned", "cancelled"}]
          /\ delivery' = delivery /\ dead' = dead /\ publishing[e] = "running"
      BY <2>0, <2>3 DEF EB!Returns
    <3>2. ASSUME NEW p \in Pairs PROVE DeliverySound(p)'
      <4>1. CASE p[1] # e
        <5>1. publishing'[p[1]] = publishing[p[1]]
          BY <2>0, <2>3, <4>1 DEF EB!Returns
        <5> QED BY <2>0, <3>1, <5>1 DEF DeliverySound
      <4>2. CASE p[1] = e
        <5>1. publishing'[p[1]] = "returned" /\ delivery[p].state # "running"
          BY <2>0, <2>3, <4>2 DEF EB!Returns, EB!Of
        <5> QED BY <2>0, <3>1, <4>2, <5>1 DEF DeliverySound
      <4> QED BY <4>1, <4>2
    <3> QED BY <2>0, <3>1, <3>2 DEF BusInv
  <2>4. ASSUME NEW e \in Events, EB!PublisherCancelled(e) PROVE BusInv'
    <3>1. /\ publishing' \in [Events -> {"no", "running", "returned", "cancelled"}]
          /\ DOMAIN delivery' = Pairs /\ dead' = dead /\ publishing[e] = "running"
      BY <2>0, <2>4 DEF EB!PublisherCancelled
    <3>2. ASSUME NEW p \in Pairs PROVE DeliverySound(p)'
      <4>0. DeliverySound(p)
        BY <2>0
      <4>1. CASE p[1] # e
        <5>1. publishing'[p[1]] = publishing[p[1]] /\ delivery'[p] = delivery[p]
          BY <2>0, <2>4, <4>1 DEF EB!PublisherCancelled, EB!Of
        <5> QED BY <3>1, <4>0, <5>1 DEF DeliverySound
      <4>2. CASE p[1] = e /\ delivery[p].state # "running"
        <5>1. publishing'[p[1]] = "cancelled" /\ delivery'[p] = delivery[p]
          BY <2>0, <2>4, <4>2 DEF EB!PublisherCancelled, EB!Of
        <5> QED BY <3>1, <4>0, <4>2, <5>1 DEF DeliverySound
      <4>3. CASE p[1] = e /\ delivery[p].state = "running"
        <5>1. publishing'[p[1]] = "cancelled"
              /\ delivery'[p] = [delivery[p] EXCEPT !.state = "lost"]
          BY <2>0, <2>4, <4>3 DEF EB!PublisherCancelled, EB!Of
        <5>2. delivery'[p] \in EB!Delivery /\ delivery'[p].state = "lost"
          BY <4>0, <5>1 DEF DeliverySound, EB!Delivery
        <5> QED BY <3>1, <4>0, <5>1, <5>2 DEF DeliverySound
      <4> QED BY <4>1, <4>2, <4>3
    <3> QED BY <2>0, <3>1, <3>2 DEF BusInv
  <2>5. ASSUME NEW p \in Pairs, EB!Handles(p) PROVE BusInv'
    <3>1. /\ DOMAIN delivery' = Pairs /\ dead' = dead /\ publishing' = publishing
          /\ delivery[p].state = "running"
          /\ delivery'[p] = [delivery[p] EXCEPT !.state = "handled"]
          /\ \A q \in Pairs \ {p} : delivery'[q] = delivery[q]
      BY <2>0, <2>5 DEF EB!Handles
    <3>2. delivery'[p] \in EB!Delivery /\ delivery'[p].state = "handled"
      BY <2>0, <3>1 DEF DeliverySound, EB!Delivery
    <3>3. DeliverySound(p)'
      BY <2>0, <3>1, <3>2 DEF DeliverySound
    <3>4. ASSUME NEW q \in Pairs \ {p} PROVE DeliverySound(q)'
      BY <2>0, <3>1 DEF DeliverySound
    <3> QED BY <2>0, <3>1, <3>3, <3>4 DEF BusInv
  <2>6. ASSUME NEW p \in Pairs, EB!Fails(p) PROVE BusInv'
    <3>1. /\ DOMAIN delivery' = Pairs /\ DOMAIN dead' = Pairs /\ publishing' = publishing
          /\ \A q \in Pairs \ {p} : delivery'[q] = delivery[q] /\ dead'[q] = dead[q]
          /\ delivery[p].state = "running"
          /\ delivery'[p] = [state |-> IF EB!GivesUp(p) THEN "dead" ELSE "running",
                             attempt |-> delivery[p].attempt + 1]
          /\ dead'[p] = IF EB!GivesUp(p) THEN dead[p] + 1 ELSE dead[p]
      BY <2>6, DeliveryFails
    <3>2. /\ delivery[p].attempt \in Nat /\ delivery[p].attempt <= MaxDeliveryRetries
          /\ dead[p] = 0 /\ publishing[p[1]] = "running"
      BY <2>0, <3>1 DEF DeliverySound, EB!Delivery
    <3>3. DeliverySound(p)'
      <4>1. CASE EB!GivesUp(p)
        <5>1. delivery[p].attempt + 1 = MaxDeliveryRetries + 1
          BY <3>2, <4>1, BackgroundAssumption DEF EB!GivesUp
        <5>2. delivery'[p] = [state |-> "dead", attempt |-> delivery[p].attempt + 1]
              /\ dead'[p] = 1
          BY <3>1, <3>2, <4>1
        <5> QED BY <3>1, <3>2, <5>1, <5>2, BackgroundAssumption DEF DeliverySound, EB!Delivery
      <4>2. CASE ~EB!GivesUp(p)
        <5>1. delivery[p].attempt + 1 <= MaxDeliveryRetries
          BY <3>2, <4>2, BackgroundAssumption DEF EB!GivesUp
        <5>2. delivery'[p] = [state |-> "running", attempt |-> delivery[p].attempt + 1]
              /\ dead'[p] = 0
          BY <3>1, <3>2, <4>2
        <5> QED BY <3>1, <3>2, <5>1, <5>2 DEF DeliverySound, EB!Delivery
      <4> QED BY <4>1, <4>2
    <3>4. ASSUME NEW q \in Pairs \ {p} PROVE DeliverySound(q)'
      BY <2>0, <3>1 DEF DeliverySound
    <3> QED BY <2>0, <3>1, <3>3, <3>4 DEF BusInv
  <2>7. CASE UNCHANGED busVars
    BY <2>0, <2>7 DEF busVars, BusInv, DeliverySound
  <2>8. EB!Next \/ UNCHANGED busVars
    BY PartsStep
  <2> QED BY <2>1, <2>2, <2>3, <2>4, <2>5, <2>6, <2>7, <2>8 DEF EB!Next, EB!Deliver
<1>3. BusInv => EveryDeliveryConcluded
  <2> SUFFICES ASSUME BusInv, NEW p \in Pairs, publishing[p[1]] = "returned"
               PROVE  \/ delivery[p].state \in {"none", "handled"} /\ dead[p] = 0
                      \/ /\ delivery[p].state = "dead" /\ dead[p] = 1
                         /\ delivery[p].attempt = MaxDeliveryRetries + 1
    BY DEF EveryDeliveryConcluded, EB!EveryDeliveryConcluded
  <2> QED BY DEF BusInv, DeliverySound, EB!Delivery
<1> QED BY <1>1, <1>2, <1>3, PTL DEF Spec

-----------------------------------------------------------------------------
(* The triggers. *)

(* No run is recorded for the minute m, or a later one, of a trigger's row. *)
UnfiredSince(row, m) == row.last = TR!Never \/ TR!Minute(row.last) < m

(* A trigger's row and its runs, at the time now. *)
TriggerSound(row, made, now) ==
    /\ row \in TR!Row /\ row.last <= now
    /\ made \in [TR!Minutes -> Nat]
    /\ row.kind = "schedule" =>
           \A m \in TR!Minutes : made[m] <= 1 /\ (made[m] > 0 => ~UnfiredSince(row, m))

(* A transaction b: what it chose has not fired since its minute began, or *)
(* its version check will fail; what it stamped is locked, so the version  *)
(* it read is the current one.                                             *)
Chosen(b) == b.todo \cup b.running \cup DOMAIN b.stamps
BusySound(b, rows, now) ==
    /\ DOMAIN b = {"pc", "minute", "todo", "running", "stamps", "read"} /\ b.pc = "busy"
    /\ b.minute \in Nat /\ b.minute <= TR!Minute(now)
    /\ Chosen(b) \subseteq Triggers
    /\ \A t \in Triggers : b.read[t] \in Nat /\ b.read[t] <= rows[t].version
    /\ \A t \in Chosen(b) :
           rows[t].kind = "schedule" /\ b.read[t] = rows[t].version =>
               UnfiredSince(rows[t], b.minute)
    /\ \A t \in DOMAIN b.stamps :
           /\ b.read[t] = rows[t].version
           /\ b.stamps[t] \in Nat /\ b.stamps[t] <= now
           /\ b.minute <= TR!Minute(b.stamps[t])

TriggerInv ==
    /\ clock \in Nat /\ clock <= MaxClock
    /\ DOMAIN trigger = Triggers /\ DOMAIN fired = Triggers /\ DOMAIN poller = Pollers
    /\ \A t \in Triggers : TriggerSound(trigger[t], fired[t], clock)
    /\ \A q \in Pollers : poller[q] = TR!Idle \/ BusySound(poller[q], trigger, clock)
    /\ \A q, r \in Pollers : q # r => TR!Stamped(q) \cap TR!Stamped(r) = {}

(* Minutes do not run backwards. *)
LEMMA MinuteMonotone ==
    ASSUME NEW a \in Nat, NEW b \in Nat
    PROVE  /\ TR!Minute(a) \in Nat
           /\ a <= b => TR!Minute(a) <= TR!Minute(b)
<1> USE BackgroundAssumption DEF TR!Minute
<1>1. a \div TicksPerMinute \in Nat /\ b \div TicksPerMinute \in Nat
  OBVIOUS
<1>2. ASSUME a <= b PROVE a \div TicksPerMinute <= b \div TicksPerMinute
  BY <1>2
<1> QED BY <1>1, <1>2

(* A transaction stays sound while time passes and others write the rows   *)
(* it has not stamped.                                                     *)
LEMMA BusyKept ==
    ASSUME NEW b, clock \in Nat, clock' \in Nat, clock <= clock',
           BusySound(b, trigger, clock),
           \A t \in Triggers : trigger[t].version \in Nat,
           \A t \in Triggers :
               \/ trigger'[t] = trigger[t]
               \/ t \notin DOMAIN b.stamps /\ trigger'[t].version = trigger[t].version + 1
    PROVE  BusySound(b, trigger', clock')
<1>1. b.minute \in Nat /\ b.minute <= TR!Minute(clock')
  BY MinuteMonotone DEF BusySound
<1>2. ASSUME NEW t \in Triggers
      PROVE  b.read[t] \in Nat /\ b.read[t] <= trigger'[t].version
  BY DEF BusySound
<1>3. ASSUME NEW t \in Chosen(b), trigger'[t].kind = "schedule", b.read[t] = trigger'[t].version
      PROVE  UnfiredSince(trigger'[t], b.minute)
  <2>1. t \in Triggers /\ b.read[t] \in Nat /\ b.read[t] <= trigger[t].version
    BY DEF BusySound
  <2>2. trigger'[t] = trigger[t]
    BY <1>3, <2>1
  <2> QED BY <1>3, <2>2 DEF BusySound
<1>4. ASSUME NEW t \in DOMAIN b.stamps
      PROVE  /\ b.read[t] = trigger'[t].version
             /\ b.stamps[t] \in Nat /\ b.stamps[t] <= clock'
             /\ b.minute <= TR!Minute(b.stamps[t])
  <2>1. t \in Triggers
    BY DEF BusySound, Chosen
  <2> QED BY <2>1 DEF BusySound
<1> QED BY <1>1, <1>2, <1>3, <1>4 DEF BusySound

(* A step that changes the transaction of one poller, to b. *)
LEMMA PollerStep ==
    ASSUME TriggerInv, NEW p \in Pollers, NEW b, DOMAIN poller' = Pollers, poller'[p] = b,
           \A q \in Pollers \ {p} : poller'[q] = poller[q],
           UNCHANGED <<clock, trigger, fired>>,
           b = TR!Idle \/ BusySound(b, trigger, clock),
           \A q \in Pollers \ {p} :
               (IF b.pc = "busy" THEN DOMAIN b.stamps ELSE {}) \cap TR!Stamped(q) = {}
    PROVE  TriggerInv'
<1>1. DOMAIN poller = Pollers /\ DOMAIN poller' = Pollers /\ poller'[p] = b
      /\ \A q \in Pollers \ {p} : poller'[q] = poller[q]
  BY DEF TriggerInv
<1>2. ASSUME NEW q \in Pollers
      PROVE  poller'[q] = TR!Idle \/ BusySound(poller'[q], trigger', clock')
  <2>1. poller[q] = TR!Idle \/ BusySound(poller[q], trigger, clock)
    BY DEF TriggerInv
  <2>2. trigger' = trigger /\ clock' = clock
    OBVIOUS
  <2> QED BY <1>1, <2>1, <2>2
<1>3. TR!Stamped(p)' = (IF b.pc = "busy" THEN DOMAIN b.stamps ELSE {})
      /\ \A q \in Pollers \ {p} : TR!Stamped(q)' = TR!Stamped(q)
  BY <1>1 DEF TR!Stamped
<1>4. \A q, r \in Pollers : q # r => TR!Stamped(q) \cap TR!Stamped(r) = {}
  BY DEF TriggerInv
<1>5. ASSUME NEW q \in Pollers, NEW r \in Pollers, q # r
      PROVE  TR!Stamped(q)' \cap TR!Stamped(r)' = {}
  <2>1. CASE q = p
    BY <1>3, <1>5, <2>1
  <2>2. CASE r = p
    BY <1>3, <1>5, <2>2
  <2>3. CASE q # p /\ r # p
    BY <1>3, <1>4, <1>5, <2>3
  <2> QED BY <2>1, <2>2, <2>3
<1> QED BY <1>1, <1>2, <1>5 DEF TriggerInv

(* A poll, or an event, chooses triggers. *)
LEMMA BeginStep ==
    ASSUME TriggerInv, NEW p \in Pollers, NEW todo \in SUBSET Triggers, TR!Begin(p, todo),
           \A t \in todo :
               trigger[t].kind = "schedule" => UnfiredSince(trigger[t], TR!Minute(clock))
    PROVE  TriggerInv'
<1> DEFINE b == [pc |-> "busy", minute |-> TR!Minute(clock), todo |-> todo, running |-> {},
                 stamps |-> <<>>, read |-> [t \in Triggers |-> trigger[t].version]]
<1>1. /\ DOMAIN poller' = Pollers /\ poller'[p] = b
      /\ \A q \in Pollers \ {p} : poller'[q] = poller[q]
      /\ UNCHANGED <<clock, trigger, fired>>
  BY DEF TR!Begin, TriggerInv
<1>2. DOMAIN b.stamps = {}
  OBVIOUS
<1>3. /\ b.todo = todo /\ b.running = {} /\ b.minute = TR!Minute(clock) /\ b.pc = "busy"
      /\ \A t \in Triggers : b.read[t] = trigger[t].version
      /\ DOMAIN b = {"pc", "minute", "todo", "running", "stamps", "read"}
  OBVIOUS
<1>4. \A t \in Triggers : trigger[t].version \in Nat
  BY DEF TriggerInv, TriggerSound, TR!Row
<1>5. TR!Minute(clock) \in Nat
  BY MinuteMonotone DEF TriggerInv
<1> HIDE DEF b
<1>6. Chosen(b) = todo
  BY <1>2, <1>3 DEF Chosen
<1>7. BusySound(b, trigger, clock)
  BY <1>2, <1>3, <1>4, <1>5, <1>6 DEF BusySound
<1> QED BY <1>1, <1>2, <1>7, PollerStep

(* A run ends, and its trigger is stamped. *)
LEMMA StampStep ==
    ASSUME TriggerInv, NEW p \in Pollers, TR!Stamp(p)
    PROVE  TriggerInv'
<1> DEFINE a == poller[p]
<1>1. a.pc = "busy"
  BY DEF TR!Stamp
<1>2. BusySound(a, trigger, clock)
  BY <1>1 DEF TriggerInv, TR!Idle
<1>3. PICK t \in a.running :
        /\ trigger[t].version = a.read[t]
        /\ \A q \in Pollers \ {p} : t \notin TR!Stamped(q)
        /\ poller' = [poller EXCEPT ![p].running = {},
                ![p].stamps = [s \in DOMAIN @ \cup {t} |-> IF s = t THEN clock ELSE @[s]]]
  BY DEF TR!Stamp
<1> DEFINE b == poller'[p]
           stamps == [s \in DOMAIN a.stamps \cup {t} |-> IF s = t THEN clock ELSE a.stamps[s]]
<1>4. /\ DOMAIN poller' = Pollers
      /\ \A q \in Pollers \ {p} : poller'[q] = poller[q]
      /\ UNCHANGED <<clock, trigger, fired>>
      /\ b = [a EXCEPT !.running = {}, !.stamps = stamps]
  BY <1>3 DEF TR!Stamp, TriggerInv
<1>5. /\ DOMAIN b = {"pc", "minute", "todo", "running", "stamps", "read"}
      /\ b.todo = a.todo /\ b.running = {} /\ b.minute = a.minute /\ b.pc = "busy"
      /\ b.read = a.read /\ b.stamps = stamps
  <2> HIDE DEF a, b, stamps
  <2> QED BY <1>2, <1>4 DEF BusySound
<1>6. DOMAIN stamps = DOMAIN a.stamps \cup {t} /\ stamps[t] = clock
      /\ \A s \in DOMAIN a.stamps \ {t} : stamps[s] = a.stamps[s]
  OBVIOUS
<1> HIDE DEF b, stamps, a
<1>7. t \in Chosen(a) /\ Chosen(b) \subseteq Chosen(a)
  BY <1>3, <1>5, <1>6 DEF Chosen
<1>8. clock \in Nat
  BY DEF TriggerInv
<1>9. ASSUME NEW s \in DOMAIN b.stamps
      PROVE  /\ b.read[s] = trigger[s].version
             /\ b.stamps[s] \in Nat /\ b.stamps[s] <= clock
             /\ b.minute <= TR!Minute(b.stamps[s])
  <2>1. CASE s = t
    BY <1>2, <1>3, <1>5, <1>6, <1>8, <2>1 DEF BusySound
  <2>2. CASE s # t
    BY <1>2, <1>5, <1>6, <2>2 DEF BusySound
  <2> QED BY <2>1, <2>2
<1>10. BusySound(b, trigger, clock)
  BY <1>2, <1>5, <1>7, <1>9 DEF BusySound
<1>11. ASSUME NEW q \in Pollers \ {p} PROVE DOMAIN b.stamps \cap TR!Stamped(q) = {}
  <2>1. DOMAIN a.stamps = TR!Stamped(p)
    BY <1>1 DEF TR!Stamped, a
  <2>2. TR!Stamped(p) \cap TR!Stamped(q) = {}
    BY DEF TriggerInv
  <2> QED BY <1>3, <1>5, <1>6, <2>1, <2>2
<1>12. poller'[p] = b
  BY DEF b
<1>13. \A q \in Pollers \ {p} :
         (IF b.pc = "busy" THEN DOMAIN b.stamps ELSE {}) \cap TR!Stamped(q) = {}
  BY <1>5, <1>11
<1> QED BY <1>4, <1>10, <1>12, <1>13, PollerStep

(* A transaction commits its stamps and its runs. *)
LEMMA CommitStep ==
    ASSUME TriggerInv, NEW p \in Pollers, TR!Commit(p)
    PROVE  TriggerInv'
<1> DEFINE a == poller[p]
           S == DOMAIN a.stamps
<1>1. a.pc = "busy"
  BY DEF TR!Commit
<1>2. BusySound(a, trigger, clock) /\ TR!Stamped(p) = S
  BY <1>1 DEF TriggerInv, TR!Idle, TR!Stamped
<1>3. /\ clock' = clock /\ clock \in Nat /\ clock <= MaxClock
      /\ DOMAIN trigger' = Triggers /\ DOMAIN fired' = Triggers /\ DOMAIN poller' = Pollers
      /\ poller'[p] = TR!Idle
      /\ \A q \in Pollers \ {p} : poller'[q] = poller[q]
  BY DEF TR!Commit, TriggerInv
<1>4. \A t \in Triggers : TriggerSound(trigger[t], fired[t], clock)
  BY DEF TriggerInv
<1>5. \A t \in Triggers \ S : trigger'[t] = trigger[t] /\ \A m \in TR!Minutes : fired'[t][m] = fired[t][m]
  BY <1>2 DEF TR!Commit
<1>6. \A t \in Triggers \cap S :
        /\ trigger'[t] = [trigger[t] EXCEPT !.last = a.stamps[t], !.version = @ + 1]
        /\ \A m \in TR!Minutes :
             fired'[t][m] = IF m = a.minute THEN fired[t][m] + 1 ELSE fired[t][m]
  BY <1>2 DEF TR!Commit
<1>7. \A t \in Triggers : fired'[t] \in [TR!Minutes -> Nat]
  <2>1. \A t \in Triggers : DOMAIN fired'[t] = TR!Minutes
         /\ fired'[t] = [m \in TR!Minutes |-> fired'[t][m]]
    BY DEF TR!Commit
  <2>2. \A t \in Triggers : \A m \in TR!Minutes : fired[t][m] \in Nat
    BY <1>4 DEF TriggerSound
  <2>3. ASSUME NEW t \in Triggers, NEW m \in TR!Minutes PROVE fired'[t][m] \in Nat
    <3>1. fired[t][m] \in Nat
      BY <2>2
    <3>2. fired'[t][m] = fired[t][m] \/ fired'[t][m] = fired[t][m] + 1
      BY DEF TR!Commit
    <3> QED BY <3>1, <3>2
  <2> QED BY <2>1, <2>3
<1> HIDE DEF a, S
<1>8. ASSUME NEW t \in Triggers \cap S
      PROVE  /\ trigger'[t] \in TR!Row /\ trigger'[t].last = a.stamps[t]
             /\ trigger'[t].kind = trigger[t].kind
             /\ trigger'[t].version = trigger[t].version + 1
             /\ a.stamps[t] \in Nat /\ a.stamps[t] <= clock
             /\ a.minute \in Nat /\ a.minute <= TR!Minute(a.stamps[t])
             /\ trigger[t].kind = "schedule" => UnfiredSince(trigger[t], a.minute)
  <2>1. /\ a.read[t] = trigger[t].version
        /\ a.stamps[t] \in Nat /\ a.stamps[t] <= clock
        /\ a.minute \in Nat /\ a.minute <= TR!Minute(a.stamps[t])
    BY <1>2, <1>8 DEF BusySound, S
  <2>2. trigger[t].kind = "schedule" => UnfiredSince(trigger[t], a.minute)
    BY <1>2, <1>8, <2>1 DEF BusySound, Chosen, S
  <2>3. trigger[t] \in TR!Row
    BY <1>4, <1>8 DEF TriggerSound
  <2>4. a.stamps[t] \in TR!Never .. MaxClock
    BY <1>3, <2>1, BackgroundAssumption DEF TR!Never
  <2>5. trigger[t].version + 1 \in Nat
    BY <2>3 DEF TR!Row
  <2>6. trigger'[t] = [trigger[t] EXCEPT !.last = a.stamps[t], !.version = @ + 1]
    BY <1>6, <1>8
  <2> DEFINE Stamp(row, l, v) == [row EXCEPT !.last = l, !.version = v]
  <2>7. \A row \in TR!Row, l \in TR!Never .. MaxClock, v \in Nat :
          /\ Stamp(row, l, v) \in TR!Row /\ Stamp(row, l, v).last = l
          /\ Stamp(row, l, v).version = v /\ Stamp(row, l, v).kind = row.kind
    BY DEF TR!Row
  <2>8. trigger'[t] = Stamp(trigger[t], a.stamps[t], trigger[t].version + 1)
    BY <2>6
  <2> HIDE DEF Stamp
  <2>9. /\ trigger'[t] \in TR!Row /\ trigger'[t].last = a.stamps[t]
        /\ trigger'[t].kind = trigger[t].kind /\ trigger'[t].version = trigger[t].version + 1
    <3>1. \A row \in TR!Row, l \in TR!Never .. MaxClock, v \in Nat :
            trigger'[t] = Stamp(row, l, v) =>
              /\ trigger'[t] \in TR!Row /\ trigger'[t].last = l
              /\ trigger'[t].kind = row.kind /\ trigger'[t].version = v
      BY <2>7
    <3> QED BY <2>3, <2>4, <2>5, <2>8, <3>1
  <2> QED BY <2>1, <2>2, <2>9
<1>9. ASSUME NEW t \in Triggers PROVE TriggerSound(trigger'[t], fired'[t], clock')
  <2>1. CASE t \notin S
    <3>1. trigger'[t] = trigger[t] /\ \A m \in TR!Minutes : fired'[t][m] = fired[t][m]
      BY <1>5, <2>1
    <3> QED BY <1>3, <1>4, <1>7, <3>1 DEF TriggerSound
  <2>2. CASE t \in S
    <3>1. /\ trigger'[t] \in TR!Row /\ trigger'[t].last = a.stamps[t]
          /\ trigger'[t].kind = trigger[t].kind
          /\ a.stamps[t] \in Nat /\ a.stamps[t] <= clock
          /\ a.minute \in Nat /\ a.minute <= TR!Minute(a.stamps[t])
          /\ trigger[t].kind = "schedule" => UnfiredSince(trigger[t], a.minute)
      BY <1>8, <2>2
    <3>2. TR!Minute(a.stamps[t]) \in Nat /\ a.stamps[t] # TR!Never
      BY <3>1, MinuteMonotone DEF TR!Never
    <3>3. ASSUME trigger[t].kind = "schedule", NEW m \in TR!Minutes
          PROVE  /\ fired'[t][m] <= 1
                 /\ fired'[t][m] > 0 => ~UnfiredSince(trigger'[t], m)
      <4>1. /\ fired[t][m] \in Nat /\ fired[t][m] <= 1
            /\ fired[t][m] > 0 => ~UnfiredSince(trigger[t], m)
        BY <1>4, <3>3 DEF TriggerSound
      <4>2. m \in Nat
        BY <3>3, MinuteMonotone, BackgroundAssumption DEF TR!Minutes
      <4>3. UnfiredSince(trigger[t], a.minute)
        BY <3>1, <3>3
      <4>4. fired'[t][m] = IF m = a.minute THEN fired[t][m] + 1 ELSE fired[t][m]
        BY <1>6, <2>2
      <4>5. CASE m = a.minute
        <5>1. fired[t][m] = 0
          BY <4>1, <4>3, <4>5
        <5>2. ~UnfiredSince(trigger'[t], m)
          BY <3>1, <3>2, <4>2, <4>5 DEF UnfiredSince
        <5> QED BY <4>4, <4>5, <5>1, <5>2
      <4>6. CASE m # a.minute
        <5>1. fired'[t][m] = fired[t][m]
          BY <4>4, <4>6
        <5>2. ASSUME fired[t][m] > 0 PROVE ~UnfiredSince(trigger'[t], m)
          <6>1. trigger[t].last # TR!Never /\ ~(TR!Minute(trigger[t].last) < m)
            BY <4>1, <5>2 DEF UnfiredSince
          <6>2. trigger[t].last \in Nat
            BY <1>4, <6>1 DEF TriggerSound, TR!Row, TR!Never
          <6>3. TR!Minute(trigger[t].last) \in Nat /\ TR!Minute(trigger[t].last) < a.minute
            BY <4>3, <6>1, <6>2, MinuteMonotone DEF UnfiredSince
          <6>4. ~(TR!Minute(a.stamps[t]) < m)
            BY <3>1, <3>2, <4>2, <6>1, <6>3
          <6> QED BY <3>1, <3>2, <6>4 DEF UnfiredSince
        <5> QED BY <4>1, <5>1, <5>2
      <4> QED BY <4>5, <4>6
    <3> QED BY <1>3, <1>7, <3>1, <3>3 DEF TriggerSound
  <2> QED BY <2>1, <2>2
<1>10. ASSUME NEW q \in Pollers
       PROVE  poller'[q] = TR!Idle \/ BusySound(poller'[q], trigger', clock')
  <2>1. CASE q = p \/ poller[q] = TR!Idle
    BY <1>3, <2>1
  <2>2. CASE q # p /\ poller[q] # TR!Idle
    <3>1. BusySound(poller[q], trigger, clock) /\ poller'[q] = poller[q]
      BY <1>3, <2>2 DEF TriggerInv
    <3>2. TR!Stamped(q) = DOMAIN poller[q].stamps
      BY <3>1 DEF TR!Stamped, BusySound
    <3>3. S \cap DOMAIN poller[q].stamps = {}
      BY <1>2, <2>2, <3>2 DEF TriggerInv
    <3>4. \A t \in Triggers : trigger[t].version \in Nat
      BY <1>4 DEF TriggerSound, TR!Row
    <3>5. \A t \in Triggers :
              \/ trigger'[t] = trigger[t]
              \/ t \notin DOMAIN poller[q].stamps /\ trigger'[t].version = trigger[t].version + 1
      <4> TAKE t \in Triggers
      <4>1. CASE t \notin S
        BY <1>5, <4>1
      <4>2. CASE t \in S
        BY <1>8, <3>3, <4>2
      <4> QED BY <4>1, <4>2
    <3>6. clock' \in Nat /\ clock \in Nat /\ clock <= clock'
      BY <1>3
    <3>7. BusySound(poller[q], trigger', clock')
      BY <3>1, <3>4, <3>5, <3>6, BusyKept
    <3> QED BY <3>1, <3>7
  <2> QED BY <2>1, <2>2
<1>11. TR!Stamped(p)' = {} /\ \A q \in Pollers \ {p} : TR!Stamped(q)' = TR!Stamped(q)
  BY <1>3 DEF TR!Stamped, TR!Idle
<1>12. \A q, r \in Pollers : q # r => TR!Stamped(q)' \cap TR!Stamped(r)' = {}
  <2>1. \A q, r \in Pollers : q # r => TR!Stamped(q) \cap TR!Stamped(r) = {}
    BY DEF TriggerInv
  <2> QED BY <1>11, <2>1
<1> QED BY <1>3, <1>9, <1>10, <1>12 DEF TriggerInv

(* Whichever polls and events overlap, however long the runs take and      *)
(* whatever is rolled back: at most one run is recorded for a schedule     *)
(* trigger and a minute.                                                   *)
THEOREM TriggersRecordOnce == Spec => []RecordedOncePerMinute
<1>1. Init => TriggerInv
  <2> SUFFICES ASSUME Init PROVE TriggerInv
    OBVIOUS
  <2>1. TR!Init
    BY DEF Init
  <2>2. /\ clock = 0 /\ DOMAIN trigger = Triggers /\ DOMAIN fired = Triggers
        /\ DOMAIN poller = Pollers /\ \A q \in Pollers : poller[q] = TR!Idle
    BY <2>1 DEF TR!Init
  <2>3. ASSUME NEW t \in Triggers PROVE TriggerSound(trigger[t], fired[t], clock)
    <3>1. trigger[t] \in [kind : {"schedule", "event"}, cron : Crons, active : {TRUE},
                          last : {TR!Never}, version : {1}]
      BY <2>1 DEF TR!Init
    <3>2. trigger[t] \in TR!Row /\ trigger[t].last = TR!Never
      <4>1. TR!Never \in TR!Never .. MaxClock
        BY BackgroundAssumption DEF TR!Never
      <4>2. {TRUE} \subseteq BOOLEAN /\ {TR!Never} \subseteq TR!Never .. MaxClock
            /\ {1} \subseteq Nat
        BY <4>1
      <4>3. \A K, C, A, B, L, M, V, W :
              A \subseteq B /\ L \subseteq M /\ V \subseteq W =>
                [kind : K, cron : C, active : A, last : L, version : V]
                  \subseteq [kind : K, cron : C, active : B, last : M, version : W]
        OBVIOUS
      <4>4. [kind : {"schedule", "event"}, cron : Crons, active : {TRUE},
             last : {TR!Never}, version : {1}] \subseteq TR!Row
        BY <4>2, <4>3, Zenon DEF TR!Row
      <4> QED BY <3>1, <4>4
    <3>3. fired[t] = [m \in TR!Minutes |-> 0]
      BY <2>1 DEF TR!Init
    <3> QED BY <2>2, <3>2, <3>3 DEF TriggerSound, TR!Never
  <2>4. \A q \in Pollers : TR!Stamped(q) = {}
    BY <2>2 DEF TR!Stamped, TR!Idle
  <2> QED BY <2>2, <2>3, <2>4, BackgroundAssumption DEF TriggerInv
<1>2. TriggerInv /\ [Next]_vars => TriggerInv'
  <2> SUFFICES ASSUME TriggerInv, [Next]_vars PROVE TriggerInv'
    OBVIOUS
  <2>0. \A t \in Triggers : TriggerSound(trigger[t], fired[t], clock)
    BY DEF TriggerInv
  <2>1. CASE TR!Tick
    <3>1. /\ clock \in Nat /\ clock' \in Nat /\ clock <= clock' /\ clock' <= MaxClock
          /\ UNCHANGED <<trigger, poller, fired>>
      BY <2>1, BackgroundAssumption DEF TR!Tick, TriggerInv
    <3>2. ASSUME NEW t \in Triggers PROVE TriggerSound(trigger'[t], fired'[t], clock')
      <4>1. trigger[t].last \in Int
        BY <2>0 DEF TriggerSound, TR!Row, TR!Never
      <4> QED BY <2>0, <3>1, <4>1 DEF TriggerSound
    <3>3. \A t \in Triggers : trigger[t].version \in Nat /\ trigger'[t] = trigger[t]
      BY <2>0, <3>1 DEF TriggerSound, TR!Row
    <3>4. ASSUME NEW q \in Pollers
          PROVE  poller'[q] = TR!Idle \/ BusySound(poller'[q], trigger', clock')
      <4>1. poller[q] = TR!Idle \/ BusySound(poller[q], trigger, clock)
        BY DEF TriggerInv
      <4>2. CASE BusySound(poller[q], trigger, clock)
        <5>1. BusySound(poller[q], trigger', clock')
          BY <3>1, <3>3, <4>2, BusyKept
        <5> QED BY <3>1, <5>1
      <4> QED BY <3>1, <4>1, <4>2
    <3>5. \A q \in Pollers : TR!Stamped(q)' = TR!Stamped(q)
      BY <3>1 DEF TR!Stamped
    <3> QED BY <3>1, <3>2, <3>4, <3>5 DEF TriggerInv
  <2>2. ASSUME NEW p \in Pollers, TR!FireDue(p) PROVE TriggerInv'
    <3>1. TR!Begin(p, TR!Due) /\ TR!Due \in SUBSET Triggers
      BY <2>2 DEF TR!FireDue, TR!Due, TR!ListActive
    <3>2. ASSUME NEW t \in TR!Due PROVE UnfiredSince(trigger[t], TR!Minute(clock))
      <4>1. t \in Triggers /\ ~TR!FiredThisMinute(t)
        BY <3>2 DEF TR!Due, TR!ListActive
      <4>2. CASE trigger[t].last = TR!Never
        BY <4>2 DEF UnfiredSince
      <4>3. CASE trigger[t].last # TR!Never
        <5>1. trigger[t].last \in Nat /\ trigger[t].last <= clock /\ clock \in Nat
          BY <2>0, <4>1, <4>3 DEF TriggerSound, TR!Row, TR!Never, TriggerInv
        <5>2. /\ TR!Minute(trigger[t].last) \in Nat /\ TR!Minute(clock) \in Nat
              /\ TR!Minute(trigger[t].last) <= TR!Minute(clock)
          BY <5>1, MinuteMonotone
        <5>3. TR!Minute(trigger[t].last) # TR!Minute(clock)
          BY <4>1, <4>3 DEF TR!FiredThisMinute
        <5> QED BY <5>2, <5>3 DEF UnfiredSince
      <4> QED BY <4>2, <4>3
    <3> QED BY <3>1, <3>2, BeginStep
  <2>3. ASSUME NEW p \in Pollers, TR!DispatchEvent(p) PROVE TriggerInv'
    <3> DEFINE todo == TR!ListActive("event")
    <3>1. TR!Begin(p, todo)
      BY <2>3 DEF TR!DispatchEvent
    <3>2. todo \in SUBSET Triggers /\ \A t \in todo : trigger[t].kind # "schedule"
      BY DEF TR!ListActive
    <3> HIDE DEF todo
    <3> QED BY <3>1, <3>2, BeginStep
  <2>4. ASSUME NEW p \in Pollers, NEW t \in Triggers, TR!Fire(p, t) PROVE TriggerInv'
    <3> DEFINE a == poller[p]
               b == poller'[p]
    <3>1. /\ a.pc = "busy" /\ t \in a.todo
          /\ DOMAIN poller' = Pollers /\ \A q \in Pollers \ {p} : poller'[q] = poller[q]
          /\ UNCHANGED <<clock, trigger, fired>>
          /\ b = [a EXCEPT !.running = {t}, !.todo = @ \ {t}]
      BY <2>4 DEF TR!Fire, TriggerInv
    <3>2. BusySound(a, trigger, clock)
      BY <3>1 DEF TriggerInv, TR!Idle
    <3>3. DOMAIN a.stamps = TR!Stamped(p)
      BY <3>1 DEF TR!Stamped
    <3> HIDE DEF a, b
    <3>4. /\ DOMAIN b = {"pc", "minute", "todo", "running", "stamps", "read"}
          /\ b.todo = a.todo \ {t} /\ b.running = {t} /\ b.minute = a.minute
          /\ b.pc = "busy" /\ b.read = a.read /\ b.stamps = a.stamps
      BY <3>1, <3>2 DEF BusySound
    <3>5. Chosen(b) \subseteq Chosen(a)
      BY <3>1, <3>4 DEF Chosen
    <3>6. BusySound(b, trigger, clock)
      BY <3>2, <3>4, <3>5 DEF BusySound
    <3>7. \A q \in Pollers \ {p} :
            (IF b.pc = "busy" THEN DOMAIN b.stamps ELSE {}) \cap TR!Stamped(q) = {}
      BY <3>3, <3>4 DEF TriggerInv
    <3>8. poller'[p] = b
      BY DEF b
    <3> QED BY <3>1, <3>6, <3>7, <3>8, PollerStep
  <2>5. ASSUME NEW p \in Pollers, TR!RollBack(p) PROVE TriggerInv'
    <3>1. /\ DOMAIN poller' = Pollers /\ poller'[p] = TR!Idle
          /\ \A q \in Pollers \ {p} : poller'[q] = poller[q]
          /\ UNCHANGED <<clock, trigger, fired>>
      BY <2>5 DEF TR!RollBack, TriggerInv
    <3>2. TR!Idle.pc # "busy"
      BY DEF TR!Idle
    <3> QED BY <3>1, <3>2, PollerStep
  <2>6. ASSUME NEW t \in Triggers, NEW active \in BOOLEAN, TR!SetActive(t, active)
        PROVE  TriggerInv'
    <3>1. /\ UNCHANGED <<clock, poller, fired>> /\ DOMAIN trigger' = Triggers
          /\ \A q \in Pollers : t \notin TR!Stamped(q)
          /\ \A u \in Triggers \ {t} : trigger'[u] = trigger[u]
          /\ trigger'[t] = [trigger[t] EXCEPT !.active = active, !.version = @ + 1]
      BY <2>6 DEF TR!SetActive, TriggerInv
    <3>2. trigger[t] \in TR!Row
      BY <2>0 DEF TriggerSound
    <3>3. /\ trigger'[t] \in TR!Row /\ trigger'[t].version = trigger[t].version + 1
          /\ trigger'[t].kind = trigger[t].kind /\ trigger'[t].last = trigger[t].last
      <4> DEFINE Set(row, v) == [row EXCEPT !.active = active, !.version = v]
      <4>1. \A row \in TR!Row, v \in Nat :
              /\ Set(row, v) \in TR!Row /\ Set(row, v).last = row.last
              /\ Set(row, v).version = v /\ Set(row, v).kind = row.kind
        BY DEF TR!Row
      <4>2. trigger[t].version + 1 \in Nat
        BY <3>2 DEF TR!Row
      <4>3. trigger'[t] = Set(trigger[t], trigger[t].version + 1)
        BY <3>1
      <4> HIDE DEF Set
      <4>4. \A row \in TR!Row, v \in Nat :
              trigger'[t] = Set(row, v) =>
                /\ trigger'[t] \in TR!Row /\ trigger'[t].last = row.last
                /\ trigger'[t].version = v /\ trigger'[t].kind = row.kind
        BY <4>1
      <4> QED BY <3>2, <4>2, <4>3, <4>4
    <3>4. ASSUME NEW u \in Triggers PROVE TriggerSound(trigger'[u], fired'[u], clock')
      <4>1. CASE u # t
        BY <2>0, <3>1, <4>1
      <4>2. CASE u = t
        BY <2>0, <3>1, <3>3, <4>2 DEF TriggerSound, UnfiredSince
      <4> QED BY <4>1, <4>2
    <3>5. \A u \in Triggers : trigger[u].version \in Nat
      BY <2>0 DEF TriggerSound, TR!Row
    <3>6. ASSUME NEW q \in Pollers
          PROVE  poller'[q] = TR!Idle \/ BusySound(poller'[q], trigger', clock')
      <4>1. poller[q] = TR!Idle \/ BusySound(poller[q], trigger, clock)
        BY DEF TriggerInv
      <4>2. CASE BusySound(poller[q], trigger, clock)
        <5>1. t \notin DOMAIN poller[q].stamps
          BY <3>1, <4>2 DEF TR!Stamped, BusySound
        <5>2. \A u \in Triggers :
                \/ trigger'[u] = trigger[u]
                \/ u \notin DOMAIN poller[q].stamps /\ trigger'[u].version = trigger[u].version + 1
          BY <3>1, <3>3, <5>1
        <5>3. clock \in Nat /\ clock' \in Nat /\ clock <= clock'
          BY <3>1 DEF TriggerInv
        <5>4. BusySound(poller[q], trigger', clock')
          BY <3>5, <4>2, <5>2, <5>3, BusyKept
        <5> QED BY <3>1, <5>4
      <4> QED BY <3>1, <4>1, <4>2
    <3>7. \A q \in Pollers : TR!Stamped(q)' = TR!Stamped(q)
      BY <3>1 DEF TR!Stamped
    <3> QED BY <3>1, <3>4, <3>6, <3>7 DEF TriggerInv
  <2>7. CASE UNCHANGED triggerVars
    <3>1. \A q \in Pollers : TR!Stamped(q)' = TR!Stamped(q)
      BY <2>7 DEF triggerVars, TR!Stamped
    <3> QED BY <2>7, <3>1 DEF triggerVars, TriggerInv
  <2>8. TR!Next \/ UNCHANGED triggerVars
    BY PartsStep
  <2> QED BY <2>1, <2>2, <2>3, <2>4, <2>5, <2>6, <2>7, <2>8, StampStep, CommitStep DEF TR!Next
<1>3. TriggerInv => RecordedOncePerMinute
  BY DEF TriggerInv, TriggerSound, RecordedOncePerMinute, TR!RecordedOncePerMinute
<1> QED BY <1>1, <1>2, <1>3, PTL DEF Spec

-----------------------------------------------------------------------------
(* The plugins. *)

Waiting(name) == \E i \in DOMAIN queue : queue[i] = name

(* Plugins wait each at most once and not again, the guard behind the      *)
(* plugin that reads the tags; until that has been run, the listing is as  *)
(* it was dispatched unless a plugin of others has touched it.             *)
PluginInv ==
    /\ IsFiniteSet(DOMAIN registered) /\ DOMAIN registered \subseteq PL!Names
    /\ \A name \in DOMAIN registered \cap PL!Builtins : registered[name] = PL!BuiltinPriority[name]
    /\ queue \in Seq(PL!Names)
    /\ results \in Seq(PL!Result)
    /\ payload = [description |-> payload.description, tags |-> payload.tags]
    /\ \A i, j \in DOMAIN queue :
          queue[i] = "description-guard" /\ queue[j] = "hashtag-extract" => j < i
    /\ \A i, j \in DOMAIN queue : queue[i] = queue[j] => i = j
    /\ \A i \in DOMAIN queue, k \in DOMAIN results : results[k].plugin # queue[i]
    /\ results = <<>> \/ Waiting("hashtag-extract") =>
          (PL!Untouched("description", DOMAIN results) /\ PL!Untouched("tags", DOMAIN results)
              => payload = original)
    /\ PL!ReadsTheWhole
    /\ PL!KeepsTheLimit

(* What the built-in plugins make of a listing. *)
LEMMA Read ==
    ASSUME NEW p, p = [description |-> p.description, tags |-> p.tags]
    PROVE  /\ PL!WithHashtags(p) = [description |-> p.description, tags |-> PL!WithHashtags(p).tags]
           /\ PL!WithHashtags(p).description = p.description
<1>1. ASSUME NEW x PROVE /\ [p EXCEPT !.tags = x].description = p.description
                         /\ [p EXCEPT !.tags = x].tags = x
                         /\ [p EXCEPT !.tags = x] = [description |-> p.description, tags |-> x]
  OBVIOUS
<1>2. PICK x : PL!WithHashtags(p) = p \/ PL!WithHashtags(p) = [p EXCEPT !.tags = x]
  BY DEF PL!WithHashtags
<1> QED BY <1>1, <1>2

LEMMA Guards ==
    ASSUME NEW p, p = [description |-> p.description, tags |-> p.tags]
    PROVE  /\ PL!Guarded(p) = [description |-> PL!Guarded(p).description, tags |-> p.tags]
           /\ PL!Guarded(p).tags = p.tags
           /\ PL!Guarded(p).description # Nothing => PL!Guarded(p).description.over <= 1
<1>1. CASE p.description = Nothing
  BY <1>1 DEF PL!Guarded
<1>2. CASE p.description # Nothing /\ p.description.over = 0
  BY <1>2 DEF PL!Guarded
<1>3. CASE p.description # Nothing /\ p.description.over # 0
  <2> DEFINE d == [over |-> IF p.description.spaced THEN 0 ELSE 1,
                   spaced |-> p.description.spaced,
                   head |-> p.description.head, tail |-> <<>>]
  <2>1. PL!Guarded(p) = [p EXCEPT !.description = d]
    BY <1>3 DEF PL!Guarded
  <2>2. d.over <= 1
    OBVIOUS
  <2> HIDE DEF d
  <2>3. PL!Guarded(p) = [description |-> d, tags |-> p.tags]
    BY <2>1
  <2> QED BY <2>2, <2>3
<1> QED BY <1>1, <1>2, <1>3

(* A handler that has been run: what it was, and what became of the        *)
(* listing.                                                                *)
LEMMA Invoked ==
    ASSUME PluginInv, PL!InvokeBuiltin \/ PL!InvokeCustom
    PROVE  /\ queue # <<>> /\ queue' = Tail(queue) /\ UNCHANGED <<registered, original>>
           /\ payload' = [description |-> payload'.description, tags |-> payload'.tags]
           /\ \E x \in PL!Result :
                /\ x.plugin = queue[1] /\ results' = Append(results, x)
                /\ x.plugin = "hashtag-extract" =>
                     /\ payload'.description = payload.description
                     /\ x.ok => payload' = PL!WithHashtags(payload)
                     /\ ~x.ok => payload' = payload
                /\ x.plugin = "description-guard" =>
                     /\ payload'.tags = payload.tags
                     /\ x.ok /\ payload'.description # Nothing => payload'.description.over <= 1
                     /\ ~x.ok => payload' = payload
                /\ x.plugin \notin PL!Builtins =>
                     /\ "description" \notin x.touched => payload'.description = payload.description
                     /\ "tags" \notin x.touched => payload'.tags = payload.tags
<1>1. payload = [description |-> payload.description, tags |-> payload.tags] /\ queue \in Seq(PL!Names)
  BY DEF PluginInv
<1>2. queue # <<>> => queue[1] \in PL!Names
  BY <1>1
<1>3. CASE PL!InvokeBuiltin
  <2>1. PICK ok \in BOOLEAN :
          /\ results' = Append(results, [plugin |-> queue[1], ok |-> ok, touched |-> {}])
          /\ payload' = IF ~ok THEN payload
                        ELSE IF queue[1] = "hashtag-extract" THEN PL!WithHashtags(payload)
                        ELSE PL!Guarded(payload)
    BY <1>3 DEF PL!InvokeBuiltin
  <2>2. /\ queue # <<>> /\ queue[1] \in {"hashtag-extract", "description-guard"}
        /\ queue' = Tail(queue) /\ UNCHANGED <<registered, original>>
    BY <1>3 DEF PL!InvokeBuiltin, PL!Builtins
  <2> DEFINE x == [plugin |-> queue[1], ok |-> ok, touched |-> {}]
  <2>3. x \in PL!Result /\ x.plugin = queue[1] /\ x.ok = ok /\ results' = Append(results, x)
    BY <1>2, <2>1, <2>2 DEF PL!Result
  <2> HIDE DEF x
  <2>4. CASE queue[1] = "hashtag-extract"
    <3>1. payload' = IF ok THEN PL!WithHashtags(payload) ELSE payload
      BY <2>1, <2>4
    <3>2. /\ payload' = [description |-> payload'.description, tags |-> payload'.tags]
          /\ payload'.description = payload.description
      BY <1>1, <3>1, Read
    <3> QED BY <2>2, <2>3, <2>4, <3>1, <3>2 DEF PL!Builtins
  <2>5. CASE queue[1] = "description-guard"
    <3>1. payload' = IF ok THEN PL!Guarded(payload) ELSE payload
      BY <2>1, <2>5
    <3>2. /\ payload' = [description |-> payload'.description, tags |-> payload'.tags]
          /\ payload'.tags = payload.tags
          /\ ok /\ payload'.description # Nothing => payload'.description.over <= 1
      BY <1>1, <3>1, Guards
    <3> QED BY <2>2, <2>3, <2>5, <3>1, <3>2 DEF PL!Builtins
  <2> QED BY <2>2, <2>4, <2>5
<1>4. CASE PL!InvokeCustom
  <2>1. PICK ok \in BOOLEAN, touched \in SUBSET {"description", "tags"},
             description \in Texts \cup {Nothing}, tags \in TagLists \cup {Nothing} :
          /\ results' = Append(results, [plugin |-> queue[1], ok |-> ok, touched |-> touched])
          /\ payload' = [description |-> IF "description" \in touched THEN description
                                         ELSE payload.description,
                         tags |-> IF "tags" \in touched THEN tags ELSE payload.tags]
    BY <1>4 DEF PL!InvokeCustom
  <2>2. /\ queue # <<>> /\ queue[1] \in Custom
        /\ queue' = Tail(queue) /\ UNCHANGED <<registered, original>>
    BY <1>4 DEF PL!InvokeCustom
  <2>3. queue[1] # "hashtag-extract" /\ queue[1] # "description-guard"
    BY <2>2, BackgroundAssumption
  <2> DEFINE x == [plugin |-> queue[1], ok |-> ok, touched |-> touched]
  <2>4. /\ x \in PL!Result /\ x.plugin = queue[1] /\ x.touched = touched
        /\ results' = Append(results, x)
    BY <1>2, <2>1, <2>2 DEF PL!Result
  <2> HIDE DEF x
  <2>5. /\ payload' = [description |-> payload'.description, tags |-> payload'.tags]
        /\ "description" \notin touched => payload'.description = payload.description
        /\ "tags" \notin touched => payload'.tags = payload.tags
    BY <2>1
  <2> QED BY <2>2, <2>3, <2>4, <2>5
<1> QED BY <1>3, <1>4

(* A plugin that is invoked has not been before. *)
LEMMA InvokeStep ==
    ASSUME PluginInv, PL!InvokeBuiltin \/ PL!InvokeCustom
    PROVE  PluginInv'
<1>1. /\ queue \in Seq(PL!Names) /\ results \in Seq(PL!Result)
      /\ \A i, j \in DOMAIN queue :
            queue[i] = "description-guard" /\ queue[j] = "hashtag-extract" => j < i
      /\ \A i, j \in DOMAIN queue : queue[i] = queue[j] => i = j
      /\ \A i \in DOMAIN queue, k \in DOMAIN results : results[k].plugin # queue[i]
  BY DEF PluginInv
<1>2. /\ queue # <<>> /\ queue' = Tail(queue) /\ UNCHANGED <<registered, original>>
      /\ payload' = [description |-> payload'.description, tags |-> payload'.tags]
  BY Invoked
<1>3. PICK x \in PL!Result :
        /\ x.plugin = queue[1] /\ results' = Append(results, x)
        /\ x.plugin = "hashtag-extract" =>
             /\ payload'.description = payload.description
             /\ x.ok => payload' = PL!WithHashtags(payload)
             /\ ~x.ok => payload' = payload
        /\ x.plugin = "description-guard" =>
             /\ payload'.tags = payload.tags
             /\ x.ok /\ payload'.description # Nothing => payload'.description.over <= 1
             /\ ~x.ok => payload' = payload
        /\ x.plugin \notin PL!Builtins =>
             /\ "description" \notin x.touched => payload'.description = payload.description
             /\ "tags" \notin x.touched => payload'.tags = payload.tags
  BY Invoked
<1>4. /\ Len(queue) \in Nat /\ Len(queue) >= 1 /\ DOMAIN queue = 1 .. Len(queue)
      /\ queue' \in Seq(PL!Names) /\ DOMAIN queue' = 1 .. (Len(queue) - 1)
      /\ \A i \in DOMAIN queue' : queue'[i] = queue[i + 1]
  BY <1>1, <1>2
<1>5. \A i \in DOMAIN queue' : i + 1 \in DOMAIN queue /\ queue[i + 1] = queue'[i] /\ queue'[i] # x.plugin
  <2> SUFFICES ASSUME NEW i \in DOMAIN queue'
               PROVE  i + 1 \in DOMAIN queue /\ queue[i + 1] = queue'[i] /\ queue'[i] # x.plugin
    OBVIOUS
  <2>1. i + 1 \in DOMAIN queue /\ 1 \in DOMAIN queue /\ i + 1 # 1
    BY <1>4
  <2> QED BY <1>1, <1>3, <1>4, <2>1
<1>6. 1 \in DOMAIN queue
  BY <1>4
<1>7. /\ Len(results) \in Nat /\ DOMAIN results = 1 .. Len(results)
      /\ results' \in Seq(PL!Result) /\ Len(results') = Len(results) + 1
      /\ DOMAIN results' = 1 .. (Len(results) + 1)
      /\ \A k \in DOMAIN results : k \in DOMAIN results' /\ results'[k] = results[k]
      /\ results'[Len(results) + 1] = x
  BY <1>1, <1>3
<1>8. \A k \in DOMAIN results' : k \in DOMAIN results \/ k = Len(results) + 1
  BY <1>7
<1>9. \A k \in DOMAIN results : results[k].plugin # x.plugin
  BY <1>1, <1>3, <1>6
<1>10. /\ \A i, j \in DOMAIN queue' :
             queue'[i] = "description-guard" /\ queue'[j] = "hashtag-extract" => j < i
       /\ \A i, j \in DOMAIN queue' : queue'[i] = queue'[j] => i = j
  <2> SUFFICES ASSUME NEW i \in DOMAIN queue', NEW j \in DOMAIN queue'
               PROVE  /\ queue'[i] = "description-guard" /\ queue'[j] = "hashtag-extract" => j < i
                      /\ queue'[i] = queue'[j] => i = j
    OBVIOUS
  <2>1. i \in Int /\ j \in Int
    BY <1>4
  <2>2. /\ queue'[i] = "description-guard" /\ queue'[j] = "hashtag-extract" => j + 1 < i + 1
        /\ queue'[i] = queue'[j] => i + 1 = j + 1
    BY <1>1, <1>5
  <2> QED BY <2>1, <2>2
<1>11. \A i \in DOMAIN queue', k \in DOMAIN results' : results'[k].plugin # queue'[i]
  BY <1>1, <1>5, <1>7, <1>8
<1>12. Waiting("hashtag-extract")' =>
          Waiting("hashtag-extract") /\ x.plugin \notin PL!Builtins
  <2> SUFFICES ASSUME NEW i \in DOMAIN queue', queue'[i] = "hashtag-extract"
               PROVE  Waiting("hashtag-extract") /\ x.plugin \notin PL!Builtins
    BY DEF Waiting
  <2>1. i + 1 \in DOMAIN queue /\ queue[i + 1] = "hashtag-extract" /\ x.plugin # "hashtag-extract"
    BY <1>5
  <2>2. ~(i + 1 < 1)
    BY <1>4
  <2>3. x.plugin # "description-guard"
    BY <1>1, <1>3, <1>6, <2>1, <2>2
  <2> QED BY <2>1, <2>3 DEF Waiting, PL!Builtins
<1>13. \A field, k : k \in Nat /\ k <= Len(results) =>
          /\ PL!Untouched(field, 1 .. k)' => PL!Untouched(field, 1 .. k)
          /\ PL!Untouched(field, k .. Len(results))' =>
                (k >= 1 => PL!Untouched(field, k .. Len(results))) /\ field \notin x.touched
  <2> SUFFICES ASSUME NEW field, NEW k \in Nat, k <= Len(results)
               PROVE  /\ (\A l \in 1 .. k : field \notin results'[l].touched)
                            => \A l \in 1 .. k : field \notin results[l].touched
                      /\ (\A l \in k .. Len(results') : field \notin results'[l].touched) =>
                            /\ k >= 1 => \A l \in k .. Len(results) : field \notin results[l].touched
                            /\ field \notin x.touched
    BY DEF PL!Untouched
  <2>1. \A l \in 1 .. k : l \in DOMAIN results
    BY <1>7
  <2>2. /\ \A l \in k .. Len(results) : l \in k .. Len(results') /\ (k >= 1 => l \in DOMAIN results)
        /\ Len(results) + 1 \in k .. Len(results')
    BY <1>7
  <2> QED BY <1>7, <2>1, <2>2
<1>14. \A field : PL!Untouched(field, DOMAIN results)' =>
                     PL!Untouched(field, DOMAIN results) /\ field \notin x.touched
  BY <1>7 DEF PL!Untouched
<1>15. Waiting("hashtag-extract")' =>
          (PL!Untouched("description", DOMAIN results)' /\ PL!Untouched("tags", DOMAIN results)'
              => payload' = original')
  <2> SUFFICES ASSUME Waiting("hashtag-extract"), x.plugin \notin PL!Builtins,
                      PL!Untouched("description", DOMAIN results), "description" \notin x.touched,
                      PL!Untouched("tags", DOMAIN results), "tags" \notin x.touched
               PROVE  payload' = original'
    BY <1>12, <1>14
  <2>1. payload = original /\ payload = [description |-> payload.description, tags |-> payload.tags]
    BY DEF PluginInv
  <2>2. payload'.description = payload.description /\ payload'.tags = payload.tags
    BY <1>3
  <2> QED BY <1>2, <2>1, <2>2
<1>16. PL!ReadsTheWhole'
  <2> SUFFICES ASSUME NEW i \in DOMAIN results',
                      results'[i].plugin = "hashtag-extract", results'[i].ok,
                      PL!Untouched("description", 1 .. i)', PL!Untouched("tags", DOMAIN results)'
               PROVE  payload'.tags = PL!WithHashtags(original').tags
    BY DEF PL!ReadsTheWhole
  <2>1. PL!Untouched("tags", DOMAIN results) /\ "tags" \notin x.touched
    BY <1>14
  <2>2. CASE i \in DOMAIN results
    <3>1. /\ results[i].plugin = "hashtag-extract" /\ results[i].ok
          /\ PL!Untouched("description", 1 .. i)
      <4>1. i \in Nat /\ i <= Len(results)
        BY <1>7, <2>2
      <4> QED BY <1>7, <1>13, <2>2, <4>1
    <3>2. payload.tags = PL!WithHashtags(original).tags
      BY <2>1, <2>2, <3>1 DEF PluginInv, PL!ReadsTheWhole
    <3>3. x.plugin # "hashtag-extract"
      BY <1>9, <2>2, <3>1
    <3>4. payload'.tags = payload.tags
      BY <1>3, <2>1, <3>3 DEF PL!Builtins
    <3> QED BY <1>2, <3>2, <3>4
  <2>3. CASE i = Len(results) + 1
    <3>1. x.plugin = "hashtag-extract" /\ x.ok
      BY <1>7, <2>3
    <3>2. PL!Untouched("description", DOMAIN results)
      BY <1>7, <2>3 DEF PL!Untouched
    <3>3. payload = original
      BY <1>3, <1>6, <2>1, <3>1, <3>2 DEF PluginInv, Waiting
    <3> QED BY <1>2, <1>3, <3>1, <3>3
  <2> QED BY <1>8, <2>2, <2>3
<1>17. PL!KeepsTheLimit'
  <2> SUFFICES ASSUME NEW i \in DOMAIN results',
                      results'[i].plugin = "description-guard", results'[i].ok,
                      PL!Untouched("description", i .. Len(results))',
                      payload'.description # Nothing
               PROVE  payload'.description.over <= 1
    BY DEF PL!KeepsTheLimit
  <2>1. CASE i \in DOMAIN results
    <3>1. i \in Nat /\ i >= 1 /\ i <= Len(results)
      BY <1>7, <2>1
    <3>2. /\ results[i].plugin = "description-guard" /\ results[i].ok
          /\ PL!Untouched("description", i .. Len(results)) /\ "description" \notin x.touched
      BY <1>7, <1>13, <2>1, <3>1
    <3>3. x.plugin # "description-guard"
      BY <1>9, <2>1, <3>2
    <3>4. payload'.description = payload.description
      BY <1>3, <3>2, <3>3 DEF PL!Builtins
    <3> QED BY <2>1, <3>2, <3>4 DEF PluginInv, PL!KeepsTheLimit
  <2>2. CASE i = Len(results) + 1
    BY <1>3, <1>7, <2>2
  <2> QED BY <1>8, <2>1, <2>2
<1>18. results' # <<>>
  BY <1>3
<1>19. /\ (IsFiniteSet(DOMAIN registered) /\ DOMAIN registered \subseteq PL!Names)'
       /\ (\A name \in DOMAIN registered \cap PL!Builtins :
              registered[name] = PL!BuiltinPriority[name])'
  BY <1>2 DEF PluginInv
<1> QED BY <1>2, <1>4, <1>7, <1>10, <1>11, <1>15, <1>16, <1>17, <1>18, <1>19 DEF PluginInv

(* Whoever else registers with whatever priority and patches, is removed   *)
(* or fails meanwhile, and in whatever order plugins of one priority come: *)
(* the tags are those given and those of the description as it was         *)
(* dispatched unless another plugin has touched them, and a description    *)
(* that the guard has seen last is over the limit by its mark at most.     *)
THEOREM ListingCorrect == Spec => []ListingShaped
<1>1. Init => PluginInv
  <2> SUFFICES ASSUME Init PROVE PluginInv
    OBVIOUS
  <2>1. /\ registered = PL!BuiltinPriority /\ queue = <<>> /\ results = <<>>
        /\ payload = [description |-> payload.description, tags |-> payload.tags]
        /\ original = payload
    BY DEF Init, PL!Init
  <2>2. DOMAIN registered = {"hashtag-extract"} \cup {"description-guard"}
    BY <2>1 DEF PL!BuiltinPriority, PL!Builtins
  <2>3. IsFiniteSet(DOMAIN registered)
    <3>1. IsFiniteSet({"hashtag-extract"})
      BY FS_Singleton
    <3> QED BY <2>2, <3>1, FS_AddElement
  <2>4. /\ DOMAIN registered \subseteq PL!Names
        /\ queue \in Seq(PL!Names) /\ results \in Seq(PL!Result)
    BY <2>1, <2>2 DEF PL!Names, PL!Builtins
  <2>5. DOMAIN queue = {} /\ DOMAIN results = {}
    BY <2>1
  <2> QED BY <2>1, <2>3, <2>4, <2>5 DEF PluginInv, PL!ReadsTheWhole, PL!KeepsTheLimit
<1>2. PluginInv /\ [Next]_vars => PluginInv'
  <2> SUFFICES ASSUME PluginInv, [Next]_vars PROVE PluginInv'
    OBVIOUS
  <2>1. ASSUME UNCHANGED <<payload, original, queue, results>>,
               IsFiniteSet(DOMAIN registered'), DOMAIN registered' \subseteq PL!Names,
               \A name \in DOMAIN registered' \cap PL!Builtins :
                  registered'[name] = PL!BuiltinPriority[name]
        PROVE  PluginInv'
    BY <2>1 DEF PluginInv, Waiting, PL!Untouched, PL!ReadsTheWhole, PL!KeepsTheLimit
  <2>2. ASSUME NEW name \in PL!Names, PL!RegisterPlugin(name) PROVE PluginInv'
    <3>1. PICK priority \in PL!PrioritiesOf(name) :
            registered' = [n \in DOMAIN registered \cup {name} |->
                              IF n = name THEN priority ELSE registered[n]]
      BY <2>2 DEF PL!RegisterPlugin
    <3>2. name \in PL!Builtins => priority = PL!BuiltinPriority[name]
      BY DEF PL!PrioritiesOf
    <3>3. /\ DOMAIN registered' = DOMAIN registered \cup {name}
          /\ \A n \in DOMAIN registered' :
                registered'[n] = IF n = name THEN priority ELSE registered[n]
      BY <3>1
    <3>4. IsFiniteSet(DOMAIN registered')
      BY <3>3, FS_AddElement DEF PluginInv
    <3> QED BY <2>1, <2>2, <3>2, <3>3, <3>4 DEF PL!RegisterPlugin, PluginInv
  <2>3. ASSUME NEW name \in PL!Names, PL!Unregister(name) PROVE PluginInv'
    <3>1. /\ DOMAIN registered' = DOMAIN registered \ {name}
          /\ \A n \in DOMAIN registered' : registered'[n] = registered[n]
      BY <2>3 DEF PL!Unregister
    <3>2. IsFiniteSet(DOMAIN registered')
      BY <3>1, FS_RemoveElement DEF PluginInv
    <3> QED BY <2>1, <2>3, <3>1, <3>2 DEF PL!Unregister, PluginInv
  <2>4. CASE PL!Dispatch
    <3> DEFINE n == PL!Cardinality(DOMAIN registered)
    <3>1. /\ results = <<>> /\ queue' \in [1 .. n -> DOMAIN registered]
          /\ PL!IsInjective(queue')
          /\ \A i, j \in DOMAIN queue' : i < j => registered[queue'[i]] <= registered[queue'[j]]
          /\ UNCHANGED <<registered, payload, original, results>>
      BY <2>4 DEF PL!Dispatch, PL!InOrder
    <3>2. n \in Nat
      BY FS_CardinalityType DEF PluginInv, PL!Cardinality, Cardinality
    <3> HIDE DEF n
    <3>3. queue' \in Seq(DOMAIN registered) /\ DOMAIN queue' = 1 .. n
      BY <3>1, <3>2
    <3>4. queue' \in Seq(PL!Names)
      BY <3>3 DEF PluginInv
    <3>5. \A i, j \in DOMAIN queue' : queue'[i] = queue'[j] => i = j
      BY <3>1 DEF PL!IsInjective
    <3>6. ASSUME NEW i \in DOMAIN queue', NEW j \in DOMAIN queue',
                 queue'[i] = "description-guard", queue'[j] = "hashtag-extract"
          PROVE  j < i
      <4>1. registered[queue'[i]] = 30 /\ registered[queue'[j]] = 20
        BY <3>1, <3>6 DEF PluginInv, PL!BuiltinPriority, PL!Builtins
      <4>2. ~(i < j) /\ i # j
        BY <3>1, <3>6, <4>1
      <4> QED BY <3>3, <4>2
    <3>7. /\ DOMAIN results' = {} /\ results' = <<>> /\ results = <<>>
      BY <3>1
    <3>8. payload' = original'
      BY <3>1, <3>7 DEF PluginInv, PL!Untouched
    <3> QED BY <3>1, <3>4, <3>5, <3>6, <3>7, <3>8 DEF PluginInv, PL!ReadsTheWhole, PL!KeepsTheLimit
  <2>5. CASE UNCHANGED pluginVars
    BY <2>1, <2>5 DEF pluginVars, PluginInv
  <2>6. PL!Next \/ UNCHANGED pluginVars
    BY PartsStep
  <2> QED BY <2>2, <2>3, <2>4, <2>5, <2>6, InvokeStep DEF PL!Next
<1>3. PluginInv => ListingShaped
  BY DEF PluginInv, ListingShaped, PL!ListingShaped
<1> QED BY <1>1, <1>2, <1>3, PTL DEF Spec

-----------------------------------------------------------------------------
(* The workflow of an agent. *)

IsFirst(g) == g \in group /\ \A x \in group : g <= x

(* A step that the index jumps over: the group is not together, and the    *)
(* step lies where the index is moved by the size of the group.            *)
Gap(h) ==
    /\ h \in AW!Steps \ group
    /\ \E g \in group : IsFirst(g) /\ g < h /\ h < g + Cardinality(group)

(* The index is never inside the group. *)
Clear(i) == \A g \in group : IsFirst(g) => i <= g \/ i >= g + Cardinality(group)

(* The steps before n have been entered once, the others not. *)
EnteredUpTo(n) == entered = [s \in AW!Steps |-> IF s < n THEN 1 ELSE 0]

(* A step that is jumped over once is never run, by any call; without one  *)
(* a call enters each step before its next index once.                     *)
WorkflowInv ==
    /\ group \in SUBSET AW!Steps
    /\ DOMAIN status = AW!Steps
    /\ \A h \in AW!Steps :
          Gap(h) => status[h] = "pending" /\ \A c \in coroutines : c.step # h
    /\ call.pc # "none" =>
          /\ call.index \in AW!Steps /\ call.batch = AW!Batch(call.index) /\ Clear(call.index)
          /\ (\A h \in AW!Steps : ~Gap(h)) => EnteredUpTo(AW!NextIndex)
    /\ CompletedRanEachOnce

(* A group without a gap is an interval. *)
LEMMA GroupTogether ==
    ASSUME group \in SUBSET AW!Steps, NEW g \in group, IsFirst(g), \A h \in AW!Steps : ~Gap(h)
    PROVE  group = g .. (g + Cardinality(group) - 1)
<1> DEFINE n == Cardinality(group)
           T == g .. (g + n - 1)
<1>1. Length \in Nat /\ AW!Steps = 1 .. Length /\ g \in 1 .. Length
  BY BackgroundAssumption DEF AW!Steps
<1>2. group \in SUBSET (g .. Length)
  BY <1>1 DEF IsFirst
<1>3. IsFiniteSet(g .. Length) /\ Cardinality(g .. Length) = Length - g + 1
  BY <1>1, FS_Interval
<1>4. IsFiniteSet(group) /\ n \in Nat /\ n <= Length - g + 1
  BY <1>2, <1>3, FS_Subset, FS_CardinalityType
<1>5. n # 0
  BY <1>4, FS_EmptySet
<1> HIDE DEF n
<1>6. IsFiniteSet(T) /\ Cardinality(T) = n
  BY <1>1, <1>4, <1>5, FS_Interval
<1>7. ASSUME NEW h \in T PROVE h \in group
  <2>1. h \in AW!Steps /\ g <= h /\ h < g + n
    BY <1>1, <1>4
  <2>2. CASE h = g
    BY <2>2
  <2>3. CASE h # g
    <3>1. g < h
      BY <1>1, <2>1, <2>3
    <3> QED BY <2>1, <3>1 DEF Gap, n
  <2> QED BY <2>2, <2>3
<1>8. T \in SUBSET group
  BY <1>7
<1> HIDE DEF T
<1>9. group = T
  BY <1>4, <1>6, <1>8, FS_Subset DEF n
<1> QED BY <1>9 DEF T, n

(* The group has a first step. *)
LEMMA FirstExists ==
    ASSUME group \in SUBSET AW!Steps, group # {}
    PROVE  \E g \in group : IsFirst(g)
<1>1. group \in SUBSET Nat
  BY BackgroundAssumption DEF AW!Steps
<1>2. PICK g \in group : \A x \in group : <<x, g>> \notin OpToRel(<, Nat)
  BY <1>1, NatLessThanWellFounded, WFMin
<1>3. \A x \in group : ~(x < g)
  BY <1>1, <1>2 DEF OpToRel
<1>4. \A x \in group : g <= x
  BY <1>1, <1>3
<1> QED BY <1>4 DEF IsFirst

(* What is gathered at an index, and where the index goes. *)
LEMMA BatchAt ==
    ASSUME group \in SUBSET AW!Steps, NEW i \in AW!Steps, Clear(i)
    PROVE  /\ AW!Batch(i) \subseteq AW!Steps
           /\ Cardinality(AW!Batch(i)) \in Nat \ {0}
           /\ Clear(i + Cardinality(AW!Batch(i)))
           /\ \A h \in AW!Steps : Gap(h) => h \notin AW!Batch(i)
           /\ (\A h \in AW!Steps : ~Gap(h)) =>
                 AW!Batch(i) = i .. (i + Cardinality(AW!Batch(i)) - 1)
<1> DEFINE n == Cardinality(group)
<1>1. Length \in Nat /\ AW!Steps = 1 .. Length /\ i \in Nat /\ i >= 1
  BY BackgroundAssumption DEF AW!Steps
<1>2. IsFiniteSet(AW!Steps)
  BY <1>1, FS_Interval
<1>3. IsFiniteSet(group) /\ n \in Nat
  BY <1>2, FS_Subset, FS_CardinalityType
<1> HIDE DEF n
<1>4. CASE i \notin group
  <2>1. AW!Batch(i) = {i}
    BY <1>4 DEF AW!Batch
  <2>2. Cardinality(AW!Batch(i)) = 1
    BY <2>1, FS_Singleton
  <2>3. Clear(i + 1)
    <3>1. ASSUME NEW g \in group, IsFirst(g) PROVE i + 1 <= g \/ i + 1 >= g + n
      <4>1. i <= g \/ i >= g + n
        BY <3>1 DEF Clear, n
      <4>2. g \in Nat /\ g # i
        BY <1>1, <1>4
      <4> QED BY <1>1, <1>3, <4>1, <4>2
    <3> QED BY <3>1 DEF Clear, n
  <2>4. ~Gap(i)
    <3>1. ASSUME NEW g \in group, IsFirst(g), g < i, i < g + n PROVE FALSE
      <4>1. i <= g \/ i >= g + n
        BY <3>1 DEF Clear, n
      <4>2. g \in Nat
        BY <1>1
      <4> QED BY <1>1, <1>3, <3>1, <4>1, <4>2
    <3> QED BY <3>1 DEF Gap, n
  <2>5. {i} = i .. (i + 1 - 1)
    BY <1>1
  <2> QED BY <2>1, <2>2, <2>3, <2>4, <2>5
<1>5. CASE i \in group
  <2>1. AW!Batch(i) = {s \in group : s >= i}
    BY <1>5 DEF AW!Batch
  <2>2. AW!Batch(i) \in SUBSET group /\ AW!Batch(i) # {}
    BY <1>1, <1>5, <2>1
  <2>3. Cardinality(AW!Batch(i)) \in Nat \ {0}
    BY <1>3, <2>2, FS_Subset, FS_CardinalityType, FS_EmptySet
  <2>4. PICK g \in group : IsFirst(g)
    BY <1>5, FirstExists
  <2>5. g \in Nat /\ g <= i
    BY <1>1, <1>5, <2>4 DEF IsFirst
  <2>6. i = g \/ i >= g + n
    <3>1. i <= g \/ i >= g + n
      BY <2>4 DEF Clear, n
    <3> QED BY <1>1, <2>5, <3>1
  <2>7. i = g => AW!Batch(i) = group
    BY <2>1, <2>4 DEF IsFirst
  <2>8. Clear(i + Cardinality(AW!Batch(i)))
    <3> DEFINE m == Cardinality(AW!Batch(i))
    <3>1. i = g => m = n
      BY <2>7 DEF n
    <3>2. m \in Nat
      BY <2>3
    <3> HIDE DEF m
    <3>3. i + m >= g + n
      BY <1>1, <1>3, <2>5, <2>6, <3>1, <3>2
    <3>4. \A k \in group : IsFirst(k) => k = g
      <4>1. ASSUME NEW k \in group, IsFirst(k) PROVE k = g
        <5>1. k <= g /\ g <= k /\ k \in Nat
          BY <1>1, <2>4, <4>1 DEF IsFirst
        <5> QED BY <2>5, <5>1
      <4> QED BY <4>1
    <3> QED BY <3>3, <3>4 DEF Clear, n, m
  <2>9. \A h \in AW!Steps : Gap(h) => h \notin AW!Batch(i)
    BY <2>2 DEF Gap
  <2>10. (\A h \in AW!Steps : ~Gap(h)) => AW!Batch(i) = i .. (i + Cardinality(AW!Batch(i)) - 1)
    <3> SUFFICES ASSUME \A h \in AW!Steps : ~Gap(h)
                 PROVE  AW!Batch(i) = i .. (i + Cardinality(AW!Batch(i)) - 1)
      OBVIOUS
    <3>1. group = g .. (g + n - 1)
      BY <2>4, GroupTogether DEF n
    <3>2. i = g
      <4>1. i <= g + n - 1
        BY <1>5, <3>1
      <4> QED BY <1>1, <1>3, <2>5, <2>6, <4>1
    <3> QED BY <2>7, <3>1, <3>2 DEF n
  <2>11. AW!Batch(i) \subseteq AW!Steps
    BY <2>2
  <2> QED BY <2>3, <2>8, <2>9, <2>10, <2>11
<1> QED BY <1>4, <1>5

(* The size that AgentWorkflow takes is the size. *)
LEMMA WorkflowCardinality == \A S : AW!Cardinality(S) = Cardinality(S)
BY DEF AW!Cardinality, Cardinality

(* A batch that is launched where the steps before it have been entered. *)
LEMMA LaunchStep ==
    ASSUME WorkflowInv, NEW i \in AW!Steps, NEW n, NEW granted, NEW entries,
           Clear(i), UNCHANGED <<group, gated>>, AW!Launch(i, n, granted, entries),
           (\A h \in AW!Steps : ~Gap(h)) =>
               entries = [s \in AW!Steps |-> IF s < i THEN 1 ELSE 0]
    PROVE  WorkflowInv'
<1> DEFINE batch == AW!Batch(i)
           next == i + Cardinality(batch)
<1>1. PICK skipped \in SUBSET batch :
        LET waiting == {s \in batch \ skipped : s \in gated \ granted}
        IN  /\ status' = [s \in AW!Steps |-> CASE s \in skipped -> "skipped"
                                               [] s \in waiting -> "waiting_approval"
                                               [] OTHER -> status[s]]
            /\ coroutines' = coroutines \cup
                   {[run |-> n, step |-> s, at |-> "delay", attempt |-> 0] :
                       s \in batch \ (skipped \cup waiting)}
            /\ entered' = [s \in AW!Steps |-> IF s \in batch THEN entries[s] + 1 ELSE entries[s]]
            /\ call' = [pc |-> IF waiting = {} THEN "await" ELSE "raised", index |-> i,
                        batch |-> batch, granted |-> granted, completed |-> FALSE]
  BY DEF AW!Launch
<1> DEFINE waiting == {s \in batch \ skipped : s \in gated \ granted}
<1>2. /\ group \in SUBSET AW!Steps
      /\ \A h \in AW!Steps :
            Gap(h) => status[h] = "pending" /\ \A c \in coroutines : c.step # h
  BY DEF WorkflowInv
<1>3. /\ batch \subseteq AW!Steps /\ Cardinality(batch) \in Nat \ {0}
      /\ \A h \in AW!Steps : Gap(h) => h \notin batch
      /\ (\A h \in AW!Steps : ~Gap(h)) => batch = i .. (i + Cardinality(batch) - 1)
  BY <1>2, BatchAt
<1>4. group' = group /\ (\A h \in AW!Steps : Gap(h)' <=> Gap(h)) /\ (Clear(i)' <=> Clear(i))
      /\ AW!Batch(i)' = batch
  BY DEF Gap, Clear, IsFirst, AW!Batch
<1> HIDE DEF batch
<1>5. DOMAIN status' = AW!Steps
  BY <1>1
<1>6. ASSUME NEW h \in AW!Steps, Gap(h)
      PROVE  status'[h] = "pending" /\ \A c \in coroutines' : c.step # h
  <2>1. h \notin batch /\ status[h] = "pending" /\ \A c \in coroutines : c.step # h
    BY <1>2, <1>3, <1>6
  <2>2. status'[h] = "pending"
    BY <1>1, <2>1
  <2>3. ASSUME NEW c \in coroutines' PROVE c.step # h
    <3>1. c \in coroutines \/ \E s \in batch :
            c = [run |-> n, step |-> s, at |-> "delay", attempt |-> 0]
      BY <1>1, <2>3
    <3> QED BY <2>1, <3>1
  <2> QED BY <2>2, <2>3
<1>7. /\ call'.pc \in {"await", "raised"} /\ call'.index = i /\ call'.batch = batch
  BY <1>1
<1>8. AW!NextIndex' = next
  BY <1>7, WorkflowCardinality DEF AW!NextIndex
<1>9. (\A h \in AW!Steps : ~Gap(h)) =>
        entered' = [s \in AW!Steps |-> IF s < next THEN 1 ELSE 0]
  <2> SUFFICES ASSUME \A h \in AW!Steps : ~Gap(h)
               PROVE  entered' = [s \in AW!Steps |-> IF s < next THEN 1 ELSE 0]
    OBVIOUS
  <2>1. /\ entries = [s \in AW!Steps |-> IF s < i THEN 1 ELSE 0]
        /\ batch = i .. (i + Cardinality(batch) - 1)
    BY <1>3
  <2>2. PICK m \in Nat \ {0} : m = Cardinality(batch)
    BY <1>3
  <2>3. AW!Steps \subseteq Nat
    BY BackgroundAssumption DEF AW!Steps
  <2>4. ASSUME NEW s \in AW!Steps
        PROVE  (IF s \in batch THEN entries[s] + 1 ELSE entries[s]) = (IF s < next THEN 1 ELSE 0)
    BY <2>1, <2>2, <2>3
  <2>5. entered' = [s \in AW!Steps |-> IF s \in batch THEN entries[s] + 1 ELSE entries[s]]
    BY <1>1
  <2> QED BY <2>4, <2>5
<1>10. (\A h \in AW!Steps : ~Gap(h)') => EnteredUpTo(AW!NextIndex)'
  BY <1>4, <1>8, <1>9 DEF EnteredUpTo
<1>11. CompletedRanEachOnce'
  BY <1>7 DEF CompletedRanEachOnce, AW!CompletedRanEachOnce
<1>12. (\A h \in AW!Steps :
          Gap(h) => status[h] = "pending" /\ \A c \in coroutines : c.step # h)'
  BY <1>4, <1>6
<1>13. (call.index \in AW!Steps /\ call.batch = AW!Batch(call.index) /\ Clear(call.index))'
  BY <1>4, <1>7 DEF Clear, AW!Batch, IsFirst
<1> QED BY <1>2, <1>4, <1>5, <1>10, <1>11, <1>12, <1>13 DEF WorkflowInv

(* Whatever the layout, whoever was left running by an earlier call and    *)
(* whichever steps fail: a call that reports completion entered every step *)
(* exactly once.                                                           *)
THEOREM CompletionCorrect == Spec => []CompletedRanEachOnce
<1>1. Init => WorkflowInv
  <2> SUFFICES ASSUME Init PROVE WorkflowInv
    OBVIOUS
  <2>1. AW!Init
    BY DEF Init
  <2> QED BY <2>1 DEF AW!Init, WorkflowInv, Gap, CompletedRanEachOnce, AW!CompletedRanEachOnce
<1>2. WorkflowInv /\ [Next]_vars => WorkflowInv'
  <2> SUFFICES ASSUME WorkflowInv, [Next]_vars PROVE WorkflowInv'
    OBVIOUS
  <2>0. /\ group \in SUBSET AW!Steps /\ DOMAIN status = AW!Steps
        /\ \A h \in AW!Steps :
              Gap(h) => status[h] = "pending" /\ \A c \in coroutines : c.step # h
    BY DEF WorkflowInv
  <2>1. ASSUME NEW granted, AW!Run(granted) PROVE WorkflowInv'
    <3>1. 1 \in AW!Steps /\ AW!Steps \subseteq Nat \ {0}
      BY BackgroundAssumption DEF AW!Steps
    <3>2. Clear(1)
      BY <2>0, <3>1 DEF Clear
    <3>3. [s \in AW!Steps |-> 0] = [s \in AW!Steps |-> IF s < 1 THEN 1 ELSE 0]
      BY <3>1
    <3>4. AW!Launch(1, runs + 1, granted, [s \in AW!Steps |-> 0]) /\ UNCHANGED <<group, gated>>
      BY <2>1 DEF AW!Run
    <3> QED BY <3>1, <3>2, <3>3, <3>4, LaunchStep
  <2>2. ASSUME call.pc = "await"
        PROVE  /\ call.index \in AW!Steps /\ call.batch = AW!Batch(call.index)
               /\ AW!NextIndex \in Nat /\ AW!NextIndex >= 2 /\ Clear(AW!NextIndex)
               /\ (\A h \in AW!Steps : ~Gap(h)) => EnteredUpTo(AW!NextIndex)
    <3>1. /\ call.index \in AW!Steps /\ call.batch = AW!Batch(call.index) /\ Clear(call.index)
          /\ (\A h \in AW!Steps : ~Gap(h)) => EnteredUpTo(AW!NextIndex)
      BY <2>2 DEF WorkflowInv
    <3>2. AW!NextIndex = call.index + Cardinality(AW!Batch(call.index))
      BY <3>1, WorkflowCardinality DEF AW!NextIndex
    <3>3. /\ Cardinality(AW!Batch(call.index)) \in Nat \ {0}
          /\ Clear(call.index + Cardinality(AW!Batch(call.index)))
      BY <2>0, <3>1, BatchAt
    <3>4. call.index \in Nat \ {0}
      BY <3>1, BackgroundAssumption DEF AW!Steps
    <3> QED BY <3>1, <3>2, <3>3, <3>4
  <2>3. CASE AW!Advance
    <3>1. /\ call.pc = "await" /\ AW!NextIndex <= Length
          /\ AW!Launch(AW!NextIndex, runs, call.granted, entered) /\ UNCHANGED <<group, gated>>
      BY <2>2, <2>3, BackgroundAssumption DEF AW!Advance, AW!Awaited, AW!Stops
    <3> DEFINE i == AW!NextIndex
    <3>2. i \in AW!Steps /\ Clear(i)
      BY <2>2, <3>1, BackgroundAssumption DEF AW!Steps
    <3>3. (\A h \in AW!Steps : ~Gap(h)) => entered = [s \in AW!Steps |-> IF s < i THEN 1 ELSE 0]
      BY <2>2, <3>1 DEF EnteredUpTo
    <3>4. AW!Launch(i, runs, call.granted, entered)
      BY <3>1
    <3> HIDE DEF i
    <3> QED BY <3>1, <3>2, <3>3, <3>4, LaunchStep
  <2>4. CASE AW!Return
    <3>1. /\ call.pc = "await" /\ UNCHANGED <<group, gated, status, runs, coroutines, entered>>
          /\ AW!NextIndex > Length \/ status[AW!NextIndex - 1] = "failed"
          /\ call' = [call EXCEPT !.pc = "returned",
                         !.completed = \A s \in AW!Steps : status[s] \in {"succeeded", "skipped"}]
      BY <2>4 DEF AW!Return, AW!Awaited, AW!Stops
    <3>2. call'.index = call.index /\ call'.batch = call.batch
      BY <3>1
    <3>3. call'.completed => \A s \in AW!Steps : status[s] \in {"succeeded", "skipped"}
      BY <3>1
    <3>4. CompletedRanEachOnce'
      <4> SUFFICES ASSUME call'.completed, NEW s \in AW!Steps PROVE entered'[s] = 1
        BY DEF CompletedRanEachOnce, AW!CompletedRanEachOnce
      <4>1. \A h \in AW!Steps : status[h] # "pending" /\ status[h] # "failed"
        BY <3>3
      <4>2. \A h \in AW!Steps : ~Gap(h)
        BY <2>0, <4>1
      <4>3. entered = [t \in AW!Steps |-> IF t < AW!NextIndex THEN 1 ELSE 0]
        BY <2>2, <3>1, <4>2 DEF EnteredUpTo
      <4>4. AW!NextIndex > Length
        <5>1. AW!NextIndex <= Length => AW!NextIndex - 1 \in AW!Steps
          BY <2>2, <3>1, BackgroundAssumption DEF AW!Steps
        <5> QED BY <2>2, <3>1, <4>1, <5>1, BackgroundAssumption
      <4>5. s < AW!NextIndex
        BY <2>2, <3>1, <4>4, BackgroundAssumption DEF AW!Steps
      <4> QED BY <3>1, <4>3, <4>5
    <3>5. AW!NextIndex' = AW!NextIndex
      BY <3>2 DEF AW!NextIndex
    <3> QED BY <2>0, <2>2, <3>1, <3>2, <3>4, <3>5
            DEF WorkflowInv, Gap, Clear, IsFirst, AW!Batch, EnteredUpTo
  <2>5. ASSUME NEW c \in coroutines, AW!Act(c) \/ AW!Succeed(c) \/ AW!Fail(c) PROVE WorkflowInv'
    <3>1. UNCHANGED <<group, gated, runs, call, entered>>
      BY <2>5 DEF AW!Act, AW!Succeed, AW!Fail
    <3>2. DOMAIN status' = AW!Steps /\ \A h \in AW!Steps : h # c.step => status'[h] = status[h]
      BY <2>0, <2>5 DEF AW!Act, AW!Succeed, AW!Fail, AW!Ends
    <3>3. ASSUME NEW d \in coroutines' PROVE d \in coroutines \/ d.step = c.step
      <4>1. CASE d \notin coroutines
        <5>1. PICK at, attempt : d = [c EXCEPT !.at = at, !.attempt = attempt]
          BY <2>5, <3>3, <4>1 DEF AW!Act, AW!Succeed, AW!Fail, AW!Ends, AW!Becomes
        <5> QED BY <5>1
      <4> QED BY <4>1
    <3>4. AW!NextIndex' = AW!NextIndex
      BY <3>1 DEF AW!NextIndex
    <3>5. CompletedRanEachOnce'
      BY <3>1 DEF WorkflowInv, CompletedRanEachOnce, AW!CompletedRanEachOnce
    <3>6. \A h \in AW!Steps : Gap(h)' <=> Gap(h)
      BY <3>1 DEF Gap, IsFirst
    <3>7. (\A h \in AW!Steps :
              Gap(h) => status[h] = "pending" /\ \A d \in coroutines : d.step # h)'
      BY <2>0, <3>2, <3>3, <3>6
    <3> QED BY <2>0, <3>1, <3>2, <3>4, <3>5, <3>6, <3>7
            DEF WorkflowInv, Clear, IsFirst, AW!Batch, EnteredUpTo
  <2>6. CASE UNCHANGED workflowVars
    BY <2>6 DEF workflowVars, WorkflowInv, Gap, Clear, IsFirst, AW!Batch, EnteredUpTo,
                AW!NextIndex, CompletedRanEachOnce, AW!CompletedRanEachOnce
  <2>7. AW!Next \/ UNCHANGED workflowVars
    BY PartsStep
  <2> QED BY <2>1, <2>3, <2>4, <2>5, <2>6, <2>7 DEF AW!Next
<1>3. WorkflowInv => CompletedRanEachOnce
  BY DEF WorkflowInv
<1> QED BY <1>1, <1>2, <1>3, PTL DEF Spec

=============================================================================
