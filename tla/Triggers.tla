------------------------------ MODULE Triggers ------------------------------
(***************************************************************************)
(* WorkflowTriggerService (services/workflow_triggers.py): a poller lists  *)
(* the schedule triggers whose cron matches the minute and fires one after *)
(* the other in one transaction; an event fires the triggers subscribed to *)
(* it the same way.  A run takes time, and last_fired_at is stamped when   *)
(* it has ended.  The callers are not in the repository; two of them may   *)
(* overlap.  A stamp is an UPDATE: it holds the row until its transaction  *)
(* ends, and the version column makes it fail on a row changed since it    *)
(* was read.                                                               *)
(***************************************************************************)
EXTENDS Integers, Sequences, FiniteSetsExt

CONSTANTS
    Triggers, Pollers,
    Crons,           \* expressions a schedule trigger may be created with
    TicksPerMinute,
    MaxClock,        \* bound: the last tick
    MaxVersion       \* bound: no event comes for, and set_active is not called
                     \* on, a row written this often

VARIABLES
    clock,
    trigger,         \* the committed rows
    poller,          \* the transaction of each poller
    fired            \* history: committed runs of each trigger and minute

triggerVars == <<clock, trigger, poller, fired>>

-----------------------------------------------------------------------------
(* _matches_field, cron_matches: a field is a list of parts, an expression *)
(* a list of fields, and the first part that matches, or cannot be read,   *)
(* decides.                                                                *)
Verdict(part, value) ==
    CASE part.is = "any"   -> "yes"
      [] part.is = "step"  -> IF part.by > 0 /\ value % part.by = 0 THEN "yes" ELSE "no"
      [] part.is = "range" -> IF part.low <= value /\ value <= part.high THEN "yes" ELSE "no"
      [] part.is = "digit" -> IF part.at = value THEN "yes" ELSE "no"
      [] part.is = "word"  -> "no"
      [] part.is = "unreadable" -> "raises"      \* int() of a step or a bound

MatchesField(field, value) ==
    LET decisive == {i \in DOMAIN field : Verdict(field[i], value) # "no"}
    IN  IF decisive = {} THEN "no" ELSE Verdict(field[Min(decisive)], value)

CronMatches(expression, moment) ==
    LET decisive == {i \in DOMAIN expression : MatchesField(expression[i], moment[i]) # "yes"}
    IN  IF Len(expression) # 5 THEN "raises"
        ELSE IF decisive = {} THEN "yes"
        ELSE MatchesField(expression[Min(decisive)], moment[Min(decisive)])

-----------------------------------------------------------------------------
Minute(tick) == tick \div TicksPerMinute
Minutes == 0..Minute(MaxClock)

(* The instance runs within one hour: minute, hour, day, month, weekday. *)
Moment(tick) == <<Minute(tick), 0, 1, 1, 1>>

Never == -1
Row == [kind : {"schedule", "event"}, cron : Crons, active : BOOLEAN,
        last : Never..MaxClock, version : Nat]
Idle == [pc |-> "idle"]

(* create: no expression is read before a poll does. *)
Init ==
    /\ clock = 0
    /\ trigger \in [Triggers -> {r \in [kind : {"schedule", "event"}, cron : Crons,
                                        active : {TRUE}, last : {Never}, version : {1}] :
                                     r.kind = "schedule" \/ r.cron = CHOOSE c \in Crons : TRUE}]
    /\ poller = [p \in Pollers |-> Idle]
    /\ fired = [t \in Triggers |-> [m \in Minutes |-> 0]]

Tick ==
    /\ clock < MaxClock
    /\ clock' = clock + 1
    /\ UNCHANGED <<trigger, poller, fired>>

(* list_active, list_for_event *)
ListActive(kind) == {t \in Triggers : trigger[t].kind = kind /\ trigger[t].active}

(* A deviation: the stamp is compared to the second. *)
FiredThisInstant(t) == trigger[t].last = clock

FiredThisMinute(t) == trigger[t].last # Never /\ Minute(trigger[t].last) = Minute(clock)

Due == {t \in ListActive("schedule") :
            CronMatches(trigger[t].cron, Moment(clock)) = "yes" /\ ~FiredThisMinute(t)}

(* One expression that cannot be read ends the poll for everybody. *)
AllReadable ==
    \A t \in ListActive("schedule") : CronMatches(trigger[t].cron, Moment(clock)) # "raises"

Begin(p, todo) ==
    /\ poller[p] = Idle
    /\ todo # {}
    /\ poller' = [poller EXCEPT ![p] =
            [pc |-> "busy", minute |-> Minute(clock), todo |-> todo, running |-> {},
             stamps |-> <<>>, read |-> [t \in Triggers |-> trigger[t].version]]]
    /\ UNCHANGED <<clock, trigger, fired>>

FireDue(p) == AllReadable /\ Begin(p, Due)
DispatchEvent(p) ==
    /\ \A t \in ListActive("event") : trigger[t].version < MaxVersion
    /\ Begin(p, ListActive("event"))

(* fire: the workflow runs; in no particular order, for lack of an ORDER BY *)
Fire(p, t) ==
    /\ poller[p].pc = "busy"
    /\ poller[p].running = {}
    /\ t \in poller[p].todo
    /\ poller' = [poller EXCEPT ![p].running = {t}, ![p].todo = @ \ {t}]
    /\ UNCHANGED <<clock, trigger, fired>>

Stamped(p) == IF poller[p].pc = "busy" THEN DOMAIN poller[p].stamps ELSE {}

(* The run has ended, and the stamp is flushed. *)
Stamp(p) ==
    /\ poller[p].pc = "busy"
    /\ \E t \in poller[p].running :
        /\ trigger[t].version = poller[p].read[t]
        /\ \A q \in Pollers \ {p} : t \notin Stamped(q)
        /\ poller' = [poller EXCEPT ![p].running = {},
                ![p].stamps = [s \in DOMAIN @ \cup {t} |-> IF s = t THEN clock ELSE @[s]]]
    /\ UNCHANGED <<clock, trigger, fired>>

Commit(p) ==
    /\ poller[p].pc = "busy"
    /\ poller[p].todo = {} /\ poller[p].running = {}
    /\ trigger' = [t \in Triggers |->
            IF t \in Stamped(p)
            THEN [trigger[t] EXCEPT !.last = poller[p].stamps[t], !.version = @ + 1]
            ELSE trigger[t]]
    /\ fired' = [t \in Triggers |->
            [m \in Minutes |->
                IF t \in Stamped(p) /\ m = poller[p].minute THEN fired[t][m] + 1
                ELSE fired[t][m]]]
    /\ poller' = [poller EXCEPT ![p] = Idle]
    /\ UNCHANGED clock

(* NotFoundError for a deleted workflow, StaleDataError, the victim of a   *)
(* deadlock of two pollers, or the poller's death: with the transaction go *)
(* the stamps and the records of all the runs it made.                     *)
RollBack(p) ==
    /\ poller[p].pc = "busy"
    /\ poller' = [poller EXCEPT ![p] = Idle]
    /\ UNCHANGED <<clock, trigger, fired>>

SetActive(t, active) ==
    /\ trigger[t].active # active
    /\ trigger[t].version < MaxVersion
    /\ \A q \in Pollers : t \notin Stamped(q)
    /\ trigger' = [trigger EXCEPT ![t].active = active, ![t].version = @ + 1]
    /\ UNCHANGED <<clock, poller, fired>>

Next ==
    \/ Tick
    \/ \E p \in Pollers :
        \/ FireDue(p) \/ DispatchEvent(p)
        \/ \E t \in Triggers : Fire(p, t)
        \/ Stamp(p) \/ Commit(p) \/ RollBack(p)
    \/ \E t \in Triggers, active \in BOOLEAN : SetActive(t, active)

-----------------------------------------------------------------------------
(* "a trigger already fired within the same minute is not returned again   *)
(* even if the poller runs several times" (due), "Advanced once fired, so  *)
(* a due trigger is not picked up twice" (models/workflow.py): overlapping *)
(* polls, runs that cross the minute and rollbacks included, at most one   *)
(* run is recorded for a schedule trigger and a minute.  (An overlapping   *)
(* poll does run the workflow again before it is rolled back.)             *)
RecordedOncePerMinute ==
    \A t \in Triggers, m \in Minutes : trigger[t].kind = "schedule" => fired[t][m] <= 1
=============================================================================
