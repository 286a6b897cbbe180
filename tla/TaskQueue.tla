----------------------------- MODULE TaskQueue -----------------------------
(***************************************************************************)
(* InMemoryTaskQueue (core/tasks/queue.py): each task is an asyncio task   *)
(* that runs a registered handler with retries and a timeout and keeps a   *)
(* record its submitter polls.  cancel() writes the record at once and     *)
(* asks asyncio to throw CancelledError into the task at its next step; a  *)
(* handler may let it through, swallow it, or raise something else.        *)
(***************************************************************************)
EXTENDS Integers

CONSTANTS Tasks, MaxRetries

VARIABLES
    record,          \* TaskRecord of each task
    run,             \* where its _run is
    asked            \* cancel() was called; and not yet thrown into the task

taskVars == <<record, run, asked>>

Terminal == {"succeeded", "failed", "cancelled", "timed_out"}
Record == [status : {"absent", "pending", "scheduled", "running"} \cup Terminal,
           attempts : Nat]
Runs == {"absent", "new", "sleeping", "handling", "done"}

Init ==
    /\ record = [t \in Tasks |-> [status |-> "absent", attempts |-> 0]]
    /\ run = [t \in Tasks |-> "absent"]
    /\ asked = [t \in Tasks |-> [ever |-> FALSE, pending |-> FALSE]]

Ends(t, status) ==
    /\ record' = [record EXCEPT ![t].status = status]
    /\ run' = [run EXCEPT ![t] = "done"]

(* submit, with a delay or without *)
Submit(t) ==
    /\ run[t] = "absent"
    /\ \E status \in {"pending", "scheduled"} : record' = [record EXCEPT ![t].status = status]
    /\ run' = [run EXCEPT ![t] = "new"]
    /\ UNCHANGED asked

(* A deviation: a retry is not counted. *)
AttemptedUncounted(t) == [record[t] EXCEPT !.status = "running", !.attempts = 1]

(* The head of the loop: one more attempt, running. *)
Attempted(t) == [record[t] EXCEPT !.status = "running", !.attempts = @ + 1]

Attempt(t) ==
    /\ record' = [record EXCEPT ![t] = Attempted(t)]
    /\ run' = [run EXCEPT ![t] = "handling"]

Start(t) ==
    /\ run[t] = "new" /\ ~asked[t].pending
    /\ IF record[t].status = "scheduled"
       THEN run' = [run EXCEPT ![t] = "sleeping"] /\ UNCHANGED record
       ELSE Attempt(t)
    /\ UNCHANGED asked

Wake(t) ==
    /\ run[t] = "sleeping" /\ ~asked[t].pending
    /\ Attempt(t)
    /\ UNCHANGED asked

(* Cancelled before the loop: no handler of _run catches it. *)
CancelledEarly(t) ==
    /\ run[t] \in {"new", "sleeping"} /\ asked[t].pending
    /\ run' = [run EXCEPT ![t] = "done"]
    /\ UNCHANGED <<record, asked>>

HandlerReturns(t) == run[t] = "handling" /\ Ends(t, "succeeded") /\ UNCHANGED asked
HandlerTimesOut(t) == run[t] = "handling" /\ Ends(t, "timed_out") /\ UNCHANGED asked

(* A CancelledError, thrown in by cancel() or raised by the handler itself *)
(* (something it awaited was cancelled).                                   *)
HandlerCancelled(t) == run[t] = "handling" /\ Ends(t, "cancelled") /\ UNCHANGED asked

(* A deviation: the last retry is not made. *)
ExhaustedEarly(t) == record[t].attempts >= MaxRetries

Exhausted(t) == record[t].attempts > MaxRetries

(* RETRYING is followed by the next attempt without an await in between.   *)
(* The exception may have been raised on the CancelledError itself.        *)
HandlerRaises(t) ==
    /\ run[t] = "handling"
    /\ IF Exhausted(t) THEN Ends(t, "failed") ELSE Attempt(t)
    /\ \E thrown \in {FALSE, asked[t].pending} : asked' = [asked EXCEPT ![t].pending = thrown]

(* Whatever the task has come to. *)
Cancel(t) ==
    /\ run[t] # "absent"
    /\ record' = [record EXCEPT ![t].status = "cancelled"]
    /\ asked' = [asked EXCEPT ![t] = [ever |-> TRUE, pending |-> run[t] # "done"]]
    /\ UNCHANGED run

Progress(t) ==
    \/ Start(t) \/ Wake(t) \/ CancelledEarly(t) \/ HandlerReturns(t)
    \/ HandlerTimesOut(t) \/ HandlerCancelled(t) \/ HandlerRaises(t)

Next == \E t \in Tasks : Submit(t) \/ Cancel(t) \/ Progress(t)

-----------------------------------------------------------------------------
(* What a poll of the record says about the run: a finished task is in an  *)
(* end state; SUCCEEDED, FAILED and TIMED_OUT are the end; FAILED is only  *)
(* said after the first attempt and every retry; CANCELLED of a task that  *)
(* is still running, or will be retried, only after a cancel.              *)
RecordTellsTheRun ==
    \A t \in Tasks :
        /\ run[t] = "done" => record[t].status \in Terminal
        /\ record[t].status \in {"succeeded", "failed", "timed_out"} => run[t] = "done"
        /\ record[t].status = "failed" => record[t].attempts = MaxRetries + 1
        /\ record[t].status = "cancelled" => asked[t].ever \/ run[t] = "done"
        /\ record[t].attempts <= MaxRetries + 1

(* Every submitted task comes to an end, however its handler fails and     *)
(* however often it is cancelled.                                          *)
TasksEnd == \A t \in Tasks : run[t] = "new" ~> run[t] = "done"
=============================================================================
