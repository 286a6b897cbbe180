---------------------------- MODULE MCBackground ----------------------------
(***************************************************************************)
(* What runs beside the requests, for TLC: in the process the task queue,  *)
(* the event bus, a plugin dispatch and a workflow of an agent, and, set   *)
(* off by the clock, deliveries to webhooks, triggers of workflows and the *)
(* windows of the rate limit.  These seven parts share no state, so a      *)
(* behaviour follows one of them, chosen at the start.                     *)
(***************************************************************************)
EXTENDS Integers, Sequences

CONSTANTS
    Tasks, MaxRetries, Events, Handlers, MaxDeliveryRetries,
    Custom, Priorities, Texts, TagLists, Nothing, MaxTags,
    Length, Retries, MaxRuns,
    Hooks, EventTypes, Workers, BackoffLength, MaxDeaths,
    Triggers, Pollers, TicksPerMinute, MaxClock, MaxVersion,
    Requests, Budget, Window, Cooldown, MaxCount

ASSUME BackgroundAssumption ==
    /\ MaxRetries \in Nat /\ MaxDeliveryRetries \in Nat
    /\ Length \in Nat \ {0}
    /\ TicksPerMinute \in Nat \ {0} /\ MaxClock \in Nat
    /\ Texts \subseteq [over : 0 .. 2, spaced : BOOLEAN, head : Seq(STRING), tail : Seq(STRING)]
    /\ TagLists \subseteq Seq(STRING) /\ MaxTags \in Nat
    /\ Custom \cap {"hashtag-extract", "description-guard"} = {}

VARIABLES
    part,
    record, run, asked,
    subscribed, publishing, delivery, dead,
    registered, payload, original, queue, results,
    group, gated, status, runs, call, coroutines, entered,
    hook, hookDelivery, handed, worker, deaths,
    clock, trigger, poller, fired,
    bucket, cooldown, request, lost

(* To everything, or to one event. *)
Subscriptions == {{"*"}} \cup {{e} : e \in EventTypes}

(* "* * * * *", "*/2,1 * * * *", "*/x * * * *" *)
Anything == <<[is |-> "any"]>>
Cron(field) == <<field, Anything, Anything, Anything, Anything>>
Crons == {Cron(Anything),
          Cron(<<[is |-> "step", by |-> 2], [is |-> "digit", at |-> 1]>>),
          Cron(<<[is |-> "unreadable"]>>)}

(* A short description, and long ones with and without a blank before the  *)
(* limit.                                                                  *)
Short == [over |-> 0, spaced |-> TRUE, head |-> <<"a">>, tail |-> <<>>]
SomeTexts ==
    {Short,
     [over |-> 1, spaced |-> TRUE, head |-> <<>>, tail |-> <<"b">>],
     [over |-> 2, spaced |-> FALSE, head |-> <<"a", "b">>, tail |-> <<"c", "a">>]}
SomeTagLists == {<<>>, <<"b">>, <<"d", "e">>}

TQ == INSTANCE TaskQueue
EB == INSTANCE EventBus
PL == INSTANCE Plugins
AW == INSTANCE AgentWorkflow
WH == INSTANCE Webhooks WITH Events <- EventTypes, delivery <- hookDelivery
TR == INSTANCE Triggers
RL == INSTANCE RateLimit

taskVars == <<record, run, asked>>
busVars == <<subscribed, publishing, delivery, dead>>
pluginVars == <<registered, payload, original, queue, results>>
workflowVars == <<group, gated, status, runs, call, coroutines, entered>>
webhookVars == <<hook, hookDelivery, handed, worker, deaths>>
triggerVars == <<clock, trigger, poller, fired>>
rateVars == <<bucket, cooldown, request, lost>>
vars == <<part, taskVars, busVars, pluginVars, workflowVars, webhookVars, triggerVars,
          rateVars>>

(* The choices of the parts that stand still are made once. *)
Init ==
    /\ part \in {"tasks", "bus", "plugins", "workflow", "webhooks", "triggers", "limits"}
    /\ TQ!Init /\ EB!Init /\ PL!Init /\ AW!Init /\ WH!Init /\ TR!Init /\ RL!Init
    /\ part # "plugins" => original = [description |-> Short, tags |-> <<>>]
    /\ part # "workflow" => group = {} /\ gated = {}
    /\ part # "triggers" =>
           \A t \in Triggers : trigger[t].kind = "schedule" /\ trigger[t].cron = Cron(Anything)

OnTasks(A) ==
    /\ part = "tasks" /\ A
    /\ UNCHANGED <<part, busVars, pluginVars, workflowVars, webhookVars, triggerVars, rateVars>>
OnBus(A) ==
    /\ part = "bus" /\ A
    /\ UNCHANGED <<part, taskVars, pluginVars, workflowVars, webhookVars, triggerVars, rateVars>>
OnPlugins(A) ==
    /\ part = "plugins" /\ A
    /\ UNCHANGED <<part, taskVars, busVars, workflowVars, webhookVars, triggerVars, rateVars>>
OnWorkflow(A) ==
    /\ part = "workflow" /\ A
    /\ UNCHANGED <<part, taskVars, busVars, pluginVars, webhookVars, triggerVars, rateVars>>
OnWebhooks(A) ==
    /\ part = "webhooks" /\ A
    /\ UNCHANGED <<part, taskVars, busVars, pluginVars, workflowVars, triggerVars, rateVars>>
OnTriggers(A) ==
    /\ part = "triggers" /\ A
    /\ UNCHANGED <<part, taskVars, busVars, pluginVars, workflowVars, webhookVars, rateVars>>
OnLimits(A) ==
    /\ part = "limits" /\ A
    /\ UNCHANGED <<part, taskVars, busVars, pluginVars, workflowVars, webhookVars, triggerVars>>

Next ==
    \/ OnTasks(TQ!Next) \/ OnBus(EB!Next) \/ OnPlugins(PL!Next)
    \/ OnWorkflow(AW!Next) \/ OnWebhooks(WH!Next) \/ OnTriggers(TR!Next)
    \/ OnLimits(RL!Next)

(* The event loop resumes every task that can go on, and a handler ends    *)
(* one way or another; workers poll for ever, and time passes.             *)
Fairness ==
    /\ \A t \in Tasks : WF_vars(OnTasks(TQ!Progress(t)))
    /\ WF_vars(OnWebhooks(\E w \in Workers : WH!Progress(w)))
    /\ \A d \in EventTypes \X Hooks : WF_vars(OnWebhooks(WH!BecomesDue(d)))
    /\ \A r \in Requests : WF_vars(OnLimits(RL!Progress(r)))
    /\ WF_vars(OnLimits(RL!Tick))

Spec == Init /\ [][Next]_vars /\ Fairness

RecordTellsTheRun == TQ!RecordTellsTheRun
TasksEnd == TQ!TasksEnd
EveryDeliveryConcluded == EB!EveryDeliveryConcluded
ListingShaped == PL!ListingShaped
CompletedRanEachOnce == AW!CompletedRanEachOnce
FailedConcludes == WH!FailedConcludes
RecordedOncePerMinute == TR!RecordedOncePerMinute
LimitsEnd == RL!LimitsEnd
=============================================================================
