\* Two tasks with two retries; two events for two handlers with two retries;
\* one foreign plugin with any of three priorities, three descriptions and
\* three lists of tags for a limit of three; three steps in every layout of
\* one group and every set of approval gates, run twice; two events for one
\* webhook, two workers, a schedule of three entries, one death; two triggers,
\* two pollers, two minutes of two ticks; two requests at a time against a
\* budget of two.
CONSTANTS
    Tasks = {t1, t2}
    MaxRetries = 2
    Events = {e1, e2}
    Handlers = {h1, h2}
    MaxDeliveryRetries = 2
    Custom = {"shop"}
    Priorities = {20, 25, 40}
    Texts <- SomeTexts
    TagLists <- SomeTagLists
    Nothing = Nothing
    MaxTags = 3
    Length = 3
    Retries = 1
    MaxRuns = 2
    Hooks = {w1}
    EventTypes = {e1, e2}
    Workers = {k1, k2}
    BackoffLength = 3
    MaxDeaths = 1
    Triggers = {g1, g2}
    Pollers = {p1, p2}
    TicksPerMinute = 2
    MaxClock = 3
    MaxVersion = 2
    Requests = {q1, q2}
    Budget = 2
    Window = 2
    Cooldown = 2
    MaxCount = 4
SPECIFICATION Spec
CHECK_DEADLOCK FALSE
INVARIANTS
    RecordTellsTheRun
    EveryDeliveryConcluded
    ListingShaped
    CompletedRanEachOnce
    RecordedOncePerMinute
PROPERTIES
    TasksEnd
    FailedConcludes
    LimitsEnd
