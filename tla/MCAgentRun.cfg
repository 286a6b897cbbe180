\* One or two work tasks, four iterations, one retry, and a step limit that replanning reaches.
CONSTANTS
    WorkCounts = {1, 2}
    MaxIterations = 4
    MaxSteps = 7
    Retries = 1
    \* The rest of Executions is empty.
    Nodes = {}
    Pairs = {}
    Loops = {}
    MaxPasses = 0
    Jobs = {}
    Callers = {}
    MaxAttempts = 1
    MaxVersion = 0
SPECIFICATION AgentRunSpec
CHECK_DEADLOCK FALSE
INVARIANTS
    DependenciesSucceeded
    OutcomeAgrees
PROPERTIES
    CancelTakesEffect
    RunTerminates
