\* Three callers race over one job whose row is written up to eight times.
CONSTANTS
    Jobs = {j1}
    Callers = {c1, c2, c3}
    MaxAttempts = 2
    MaxVersion = 9
    \* The rest of Executions is empty.
    Nodes = {}
    Pairs = {}
    Loops = {}
    MaxPasses = 0
    WorkCounts = {}
    MaxIterations = 0
    MaxSteps = 0
    Retries = 0
SPECIFICATION JobSpec
SYMMETRY Symmetry
CHECK_DEADLOCK FALSE
INVARIANTS
    AttemptsCountStarts
    RequeuesWithinBudget
PROPERTIES
    OnlyLateReportsReopen
