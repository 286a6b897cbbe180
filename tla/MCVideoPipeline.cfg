\* Two overlapping callers, one run after another.
CONSTANTS
    Workers = {w1, w2}
    Days = {1}
    ForeignKeys = FALSE
    MaxCalls = 6
    MaxRuns = 2
    MaxScripts = 2
SPECIFICATION Spec
SYMMETRY Symmetry
CHECK_DEADLOCK FALSE
INVARIANTS
    CurrentIsNewest
    OneUploadAtATime
PROPERTIES
    ArtifactsAccumulate
