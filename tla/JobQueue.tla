------------------------------ MODULE JobQueue ------------------------------
(***************************************************************************)
(* QueueJobService (services/job.py): the durable record of background     *)
(* work.  The broker delivers a job to a worker at least once              *)
(* (apps/worker acknowledges late and requeues what a lost worker held),   *)
(* so two workers may hold the same job; a worker marks the job running,   *)
(* works, and reports success or failure once.  Clients cancel and retry.  *)
(*                                                                         *)
(* Every service call is a session of its own: it reads the row, checks    *)
(* the status, writes and commits, and the version column turns a write    *)
(* over a changed row into StaleDataError.                                 *)
(***************************************************************************)
EXTENDS Integers, FiniteSets

CONSTANTS
    Jobs,
    Callers,         \* workers and clients; each makes one call at a time
    MaxAttempts,     \* max_attempts of every job
    MaxVersion       \* bound: no call is made on a row written this often

VARIABLES
    jobs,            \* the committed queue_job rows
    call,            \* what each caller is doing, and the row it has read
    starts, failures, requeues   \* history: commits of each kind, per job

vars == <<jobs, call, starts, failures, requeues>>
history == <<starts, failures, requeues>>

Statuses == {"queued", "running", "succeeded", "failed", "cancelled"}
TerminalStatuses == {"succeeded", "cancelled"}
JobRow == [status : Statuses, attempts : Nat, finished : BOOLEAN, version : Nat]

(* Operations that read and then write one row; a worker between its start *)
(* and its report is "working".                                            *)
Operations == {"mark_running", "mark_succeeded", "mark_failed", "cancel", "retry"}
Call == [pc : {"idle", "working"} \cup Operations, job : Jobs, row : JobRow]

(* As enqueue inserts it. *)
Queued == [status |-> "queued", attempts |-> 0, finished |-> FALSE, version |-> 1]

Init ==
    /\ jobs = [j \in Jobs |-> Queued]
    /\ call \in [Callers -> {[pc |-> "idle", job |-> j, row |-> Queued] : j \in Jobs}]
    /\ starts = [j \in Jobs |-> 0]
    /\ failures = [j \in Jobs |-> 0]
    /\ requeues = [j \in Jobs |-> 0]

(* A deviation: the attempt after the last one is granted too. *)
CanRetryOnce(row) == row.status = "failed" /\ row.attempts <= MaxAttempts

(* QueueJob.can_retry *)
CanRetry(row) == row.status = "failed" /\ row.attempts < MaxAttempts

(* A deviation: mark_running takes any job. *)
AdmitsAny(op, row) == IF op = "retry" THEN CanRetry(row) ELSE TRUE

(* The status checks; without them the call ends in ConflictError.         *)
(* mark_succeeded and mark_failed check nothing.                           *)
Admits(op, row) ==
    CASE op = "mark_running" -> row.status \notin TerminalStatuses
      [] op = "cancel"       -> row.status # "succeeded"
      [] op = "retry"        -> CanRetry(row)
      [] OTHER               -> TRUE

(* The row an operation writes. *)
Written(op, row) ==
    [status |-> CASE op = "mark_running"   -> "running"
                  [] op = "mark_succeeded" -> "succeeded"
                  [] op = "mark_failed"    -> "failed"
                  [] op = "cancel"         -> "cancelled"
                  [] op = "retry"          -> "queued",
     attempts |-> IF op = "mark_running" THEN row.attempts + 1 ELSE row.attempts,
     finished |-> CASE op = "mark_running" -> row.finished
                    [] op = "retry"        -> FALSE
                    [] OTHER               -> TRUE,
     version |-> row.version + 1]

(* _get: the row is read; a row that does not admit the operation ends it. *)
Read(c, op, j) ==
    /\ jobs[j].version < MaxVersion
    /\ Admits(op, jobs[j])
    /\ call' = [call EXCEPT ![c] = [pc |-> op, job |-> j, row |-> jobs[j]]]
    /\ UNCHANGED <<jobs, history>>

(* The broker hands job j to an idle worker, the first time or again. *)
Start(c, j) ==
    /\ call[c].pc = "idle"
    /\ Read(c, "mark_running", j)

(* The worker reports, whatever became of the row meanwhile. *)
Report(c, op) ==
    /\ call[c].pc = "working"
    /\ Read(c, op, call[c].job)

Client(c, op, j) ==
    /\ call[c].pc = "idle"
    /\ Read(c, op, j)

(* A deviation: the UPDATE does not compare versions. *)
NeverStale(c) == TRUE

Fresh(c) == jobs[call[c].job].version = call[c].row.version

(* UPDATE and COMMIT. *)
Commit(c) ==
    LET op == call[c].pc
        j == call[c].job
    IN  /\ op \in Operations
        /\ Fresh(c)
        /\ jobs' = [jobs EXCEPT ![j] = Written(op, call[c].row)]
        /\ call' = [call EXCEPT ![c].pc = IF op = "mark_running" THEN "working" ELSE "idle"]
        /\ starts' = [starts EXCEPT ![j] = IF op = "mark_running" THEN @ + 1 ELSE @]
        /\ failures' = [failures EXCEPT ![j] = IF op = "mark_failed" THEN @ + 1 ELSE @]
        /\ requeues' = [requeues EXCEPT ![j] = IF op = "retry" THEN @ + 1 ELSE @]

(* StaleDataError, a lost connection, or the death of the caller: the      *)
(* session rolls back.  A worker whose report failed this way is lost too; *)
(* the broker will deliver the job again.                                  *)
Lost(c) ==
    /\ call[c].pc # "idle"
    /\ call' = [call EXCEPT ![c].pc = "idle"]
    /\ UNCHANGED <<jobs, history>>

Next ==
    \E c \in Callers :
        \/ \E j \in Jobs : Start(c, j)
        \/ \E op \in {"mark_succeeded", "mark_failed"} : Report(c, op)
        \/ \E j \in Jobs, op \in {"cancel", "retry"} : Client(c, op, j)
        \/ Commit(c)
        \/ Lost(c)

Spec == Init /\ [][Next]_vars

-----------------------------------------------------------------------------
(* The rows and the calls have the shapes above. *)
TypeOK ==
    /\ jobs \in [Jobs -> JobRow]
    /\ call \in [Callers -> Call]
    /\ starts \in [Jobs -> Nat]
    /\ failures \in [Jobs -> Nat]
    /\ requeues \in [Jobs -> Nat]
=============================================================================
