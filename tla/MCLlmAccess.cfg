\* Two calls of every kind on one slot.
CONSTANTS
    None = None
    Agents = agents
    Earlier = earlier
    Requests = {r1, r2}
    Kinds = {"chat", "structured", "agent", "stream"}
    Accounts = {org, nobody}
    NullAccounts = {nobody}
    Prompts = {p}
    Talks = {t}
    Rpm = 2
    Concurrent = 1
    MaxRetries = 1
    Threshold = 2
    MaxDrafts = 1
SPECIFICATION FairSpec
CHECK_DEADLOCK FALSE
INVARIANTS
    FewLateAttempts
    RollupsNeverExceedRecords
    SequencesDiffer
PROPERTIES
    CallsEnd
