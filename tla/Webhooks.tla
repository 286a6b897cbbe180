------------------------------ MODULE Webhooks ------------------------------
(***************************************************************************)
(* WebhookService (services/notification.py): an event makes one delivery  *)
(* for every webhook subscribed to it; workers send, report, and poll      *)
(* due_retries for what failed.  The workers themselves are not in the     *)
(* repository: each sends what enqueue_event handed it or what is due, and *)
(* reports once.  A report reads the delivery and its webhook and writes   *)
(* both in one transaction; their version columns turn a write over a      *)
(* changed row into StaleDataError, and the report is lost.                *)
(***************************************************************************)
EXTENDS Integers, FiniteSets

CONSTANTS
    Hooks, Events, Workers,
    Subscriptions,   \* the event lists a webhook may be created with
    BackoffLength,   \* len(RETRY_BACKOFF_SECONDS)
    MaxDeaths        \* bound: how often a worker dies between send and report

VARIABLES
    hook,            \* webhook rows
    delivery,        \* webhook_delivery rows, one for each event and webhook
    handed,          \* deliveries returned by enqueue_event and not yet sent
    worker,          \* what each worker is doing, and the rows it has read
    deaths

webhookVars == <<hook, delivery, handed, worker, deaths>>

Pairs == Events \X Hooks
NoDelivery == [status |-> "absent", attempt |-> 0, next |-> "none", version |-> 0]
NoHook == [events |-> {}, failures |-> 0, version |-> 0]
Idle == [pc |-> "idle"]

Init ==
    /\ hook = [h \in Hooks |-> NoHook]
    /\ delivery = [d \in Pairs |-> NoDelivery]
    /\ handed = {}
    /\ worker = [w \in Workers |-> Idle]
    /\ deaths = 0

(* create *)
Create(h, events) ==
    /\ hook[h].version = 0
    /\ events # {}
    /\ hook' = [hook EXCEPT ![h] = [events |-> events, failures |-> 0, version |-> 1]]
    /\ UNCHANGED <<delivery, handed, worker, deaths>>

(* list_active_for_event; nothing clears is_active *)
ListActiveForEvent(e) == {h \in Hooks : {e, "*"} \cap hook[h].events # {}}

EnqueueEvent(e) ==
    LET created == {e} \X ListActiveForEvent(e)
    IN  /\ created # {}
        /\ \A h \in Hooks : delivery[<<e, h>>].status = "absent"
        /\ delivery' = [d \in Pairs |->
                IF d \in created
                THEN [status |-> "pending", attempt |-> 0, next |-> "none", version |-> 1]
                ELSE delivery[d]]
        /\ handed' = handed \cup created
        /\ UNCHANGED <<hook, worker, deaths>>

(* next_retry_at comes. *)
BecomesDue(d) ==
    /\ delivery[d].next = "later"
    /\ delivery' = [delivery EXCEPT ![d].next = "due"]
    /\ UNCHANGED <<hook, handed, worker, deaths>>

(* list_due_retries: nothing marks a delivery that is being sent, and one  *)
(* that is still PENDING is never listed.                                  *)
DueRetries == {d \in Pairs : delivery[d].status = "failed" /\ delivery[d].next = "due"}

Send(w, d) ==
    /\ worker[w] = Idle
    /\ d \in handed \cup DueRetries
    /\ handed' = handed \ {d}
    /\ worker' = [worker EXCEPT ![w] = [pc |-> "sending", d |-> d]]
    /\ UNCHANGED <<hook, delivery, deaths>>

(* The reads of record_success and record_failure. *)
Report(w, outcome) ==
    /\ worker[w].pc = "sending"
    /\ LET d == worker[w].d
       IN  worker' = [worker EXCEPT ![w] =
                [pc |-> outcome, d |-> d, row |-> delivery[d], hook |-> hook[d[2]]]]
    /\ UNCHANGED <<hook, delivery, handed, deaths>>

(* A deviation: one attempt more than the schedule has entries for. *)
ExhaustedLate(attempt) == attempt > BackoffLength

Exhausted(attempt) == attempt >= BackoffLength

(* RETRY_BACKOFF_SECONDS[attempt] exists, or is not looked up. *)
Schedulable(attempt) == Exhausted(attempt) \/ attempt < BackoffLength

(* The delivery a report writes. *)
Reported(outcome, row) ==
    LET attempt == row.attempt + 1
        gone == outcome = "failure" /\ Exhausted(attempt)
    IN  [status |-> CASE outcome = "success" -> "delivered"
                      [] gone -> "exhausted"
                      [] OTHER -> "failed",
         attempt |-> attempt,
         next |-> IF outcome = "failure" /\ ~gone THEN "later" ELSE "none",
         version |-> row.version + 1]

Fresh(w) ==
    /\ delivery[worker[w].d].version = worker[w].row.version
    /\ hook[worker[w].d[2]].version = worker[w].hook.version

Accepted(w) ==
    /\ Fresh(w)
    /\ worker[w].pc = "failure" => Schedulable(worker[w].row.attempt + 1)

Commit(w) ==
    LET d == worker[w].d
        h == d[2]
        failed == worker[w].pc = "failure"
    IN  /\ worker[w].pc \in {"success", "failure"}
        /\ Accepted(w)
        /\ delivery' = [delivery EXCEPT ![d] = Reported(worker[w].pc, worker[w].row)]
        /\ hook' = [hook EXCEPT ![h] =
                [worker[w].hook EXCEPT !.failures = IF failed THEN @ + 1 ELSE 0,
                                       !.version = @ + 1]]
        /\ worker' = [worker EXCEPT ![w] = Idle]
        /\ UNCHANGED <<handed, deaths>>

(* StaleDataError, or an error of the call itself: the session rolls back. *)
RolledBack(w) ==
    /\ worker[w].pc \in {"success", "failure"}
    /\ ~Accepted(w)
    /\ worker' = [worker EXCEPT ![w] = Idle]
    /\ UNCHANGED <<hook, delivery, handed, deaths>>

Dies(w) ==
    /\ worker[w] # Idle
    /\ deaths < MaxDeaths
    /\ deaths' = deaths + 1
    /\ worker' = [worker EXCEPT ![w] = Idle]
    /\ UNCHANGED <<hook, delivery, handed>>

Progress(w) ==
    \/ \E d \in Pairs : Send(w, d)
    \/ \E outcome \in {"success", "failure"} : Report(w, outcome)
    \/ Commit(w)
    \/ RolledBack(w)

Next ==
    \/ \E h \in Hooks, events \in Subscriptions : Create(h, events)
    \/ \E e \in Events : EnqueueEvent(e)
    \/ \E d \in Pairs : BecomesDue(d)
    \/ \E w \in Workers : Progress(w) \/ Dies(w)

-----------------------------------------------------------------------------
(* "give up after a bounded number of attempts rather than retrying a dead *)
(* endpoint forever": a delivery that once failed is delivered or given up *)
(* on, although reports are lost to conflicts and two workers may send it. *)
(* (One whose FIRST report is lost stays PENDING, and nothing lists it.)   *)
FailedConcludes ==
    \A d \in Pairs :
        delivery[d].status = "failed" ~> delivery[d].status \in {"delivered", "exhausted"}
=============================================================================
