\* Two requests at a time on one account, two sessions, a rotation of each,
\* and failures up to one more than lock the account.
CONSTANTS
    Requests = {r1, r2}
    MaxAttempts = 2
    MaxFailures = 3
    MaxSessions = 2
    MaxTokens = 3
    MaxResets = 1
SPECIFICATION Spec
SYMMETRY Symmetry
CHECK_DEADLOCK FALSE
INVARIANTS
    TokensEndWithTheirSession
    ResetEndsOldSessions
    FailuresAreForgotten
