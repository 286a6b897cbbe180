\* Every graph over eight pairs of four nodes, with every truth of its conditions;
\* two of the nodes are loops over at most two items.
CONSTANTS
    Nodes = {1, 2, 3, 4}
    Pairs <- SomePairs
    Loops = {1, 4}
    MaxPasses = 2
SPECIFICATION FairSpec
CHECK_DEADLOCK FALSE
INVARIANTS
    RunsAfterPredecessors
    RecordIsABeginning
    RunsWhatIsReached
PROPERTIES
    FailureStopsTheRun
    Terminates
