--------------------------- MODULE AgentWorkflow ---------------------------
(***************************************************************************)
(* AgentWorkflow (agents/workflows/workflow.py): steps in a list, those of *)
(* one parallel group gathered, each with a condition, an approval gate    *)
(* and retries.  The steps keep their status from one run to the next.     *)
(* gather hands the first exception on at once and leaves the other steps  *)
(* of the group running, beside the run that comes after.                  *)
(***************************************************************************)
EXTENDS Integers, FiniteSets

CONSTANTS
    Length,          \* number of steps
    Retries,         \* of each step
    MaxRuns          \* bound: calls of run()

VARIABLES
    group, gated,    \* which steps are in the parallel group; need an approval
    status,          \* of each step
    runs,            \* calls of run() so far
    call,            \* the call being made, or how the last one ended
    coroutines,      \* the _run_step calls that have not ended
    entered          \* history: _run_step calls of the current run, per step

workflowVars == <<group, gated, status, runs, call, coroutines, entered>>

Steps == 1..Length

Init ==
    /\ group \in SUBSET Steps
    /\ gated \in SUBSET Steps
    /\ status = [s \in Steps |-> "pending"]
    /\ runs = 0
    /\ call = [pc |-> "none", index |-> 1, batch |-> {}, granted |-> {}, completed |-> FALSE]
    /\ coroutines = {}
    /\ entered = [s \in Steps |-> 0]

(* steps[index:] of the same group, wherever they are, or the step alone. *)
Batch(index) ==
    IF index \in group THEN {s \in group : s >= index} ELSE {index}

(* The batch at index: up to its first await each step is skipped by its   *)
(* condition, raises ApprovalPendingError, or goes on.  The error reaches  *)
(* the caller of run(), and what goes on is left behind.                   *)
Launch(index, run, granted, entries) ==
    LET batch == Batch(index)
    IN  \E skipped \in SUBSET batch :
            LET waiting == {s \in batch \ skipped : s \in gated \ granted}
            IN  /\ status' = [s \in Steps |-> CASE s \in skipped -> "skipped"
                                               [] s \in waiting -> "waiting_approval"
                                               [] OTHER -> status[s]]
                /\ coroutines' = coroutines \cup
                      {[run |-> run, step |-> s, at |-> "delay", attempt |-> 0] :
                          s \in batch \ (skipped \cup waiting)}
                /\ entered' = [s \in Steps |-> IF s \in batch THEN entries[s] + 1 ELSE entries[s]]
                /\ call' = [pc |-> IF waiting = {} THEN "await" ELSE "raised", index |-> index,
                            batch |-> batch, granted |-> granted, completed |-> FALSE]

(* Once the last call has returned or raised. *)
Run(granted) ==
    /\ call.pc \in {"none", "returned", "raised"}
    /\ runs < MaxRuns
    /\ runs' = runs + 1
    /\ Launch(1, runs + 1, granted, [s \in Steps |-> 0])
    /\ UNCHANGED <<group, gated>>

Becomes(c, at, attempt) ==
    coroutines' = (coroutines \ {c}) \cup {[c EXCEPT !.at = at, !.attempt = attempt]}

Ends(c, result) ==
    /\ status' = [status EXCEPT ![c.step] = result]
    /\ coroutines' = coroutines \ {c}

(* delay_seconds are over. *)
Act(c) ==
    /\ c.at = "delay"
    /\ status' = [status EXCEPT ![c.step] = "running"]
    /\ Becomes(c, "acting", 0)
    /\ UNCHANGED <<group, gated, runs, call, entered>>

(* The action, with its loop, returns or raises. *)
Succeed(c) ==
    /\ c.at = "acting"
    /\ Ends(c, "succeeded")
    /\ UNCHANGED <<group, gated, runs, call, entered>>

Fail(c) ==
    /\ c.at = "acting"
    /\ \/ c.attempt < Retries /\ Becomes(c, "acting", c.attempt + 1) /\ UNCHANGED status
       \/ c.attempt = Retries /\ Ends(c, "failed")
    /\ UNCHANGED <<group, gated, runs, call, entered>>

(* A deviation: a group counts as one step. *)
NextIndexByOne == call.index + 1

NextIndex == call.index + Cardinality(call.batch)

Awaited == call.pc = "await" /\ \A c \in coroutines : c.run # runs

(* The loop ends at the end of the list, or when the step before the new   *)
(* index failed: the last of a group whose steps are together.             *)
Stops == NextIndex > Length \/ status[NextIndex - 1] = "failed"

Advance ==
    /\ Awaited /\ ~Stops
    /\ Launch(NextIndex, runs, call.granted, entered)
    /\ UNCHANGED <<group, gated, runs>>

Return ==
    /\ Awaited /\ Stops
    /\ call' = [call EXCEPT !.pc = "returned",
                    !.completed = \A s \in Steps : status[s] \in {"succeeded", "skipped"}]
    /\ UNCHANGED <<group, gated, status, runs, coroutines, entered>>

Next ==
    \/ \E granted \in {{}, gated} : Run(granted)
    \/ Advance \/ Return
    \/ \E c \in coroutines : Act(c) \/ Succeed(c) \/ Fail(c)

-----------------------------------------------------------------------------
(* A result that says completed is of a run that went through every step   *)
(* exactly once: not one that left a step out or ran one twice because the *)
(* steps of a group are not next to each other, nor one that stopped early *)
(* and finds the statuses an earlier run, or its leftover steps, wrote.    *)
CompletedRanEachOnce ==
    call.pc = "returned" /\ call.completed => \A s \in Steps : entered[s] = 1
=============================================================================
