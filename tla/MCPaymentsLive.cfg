\* Every settlement is recorded in the end; no symmetry, liveness is checked.
CONSTANTS
    i1 = i1
    i2 = i2
    None = None
    Invoices = {i1}
    Requests = {r1, r2, r3}
    Deliveries = {d1}
    Total <- TotalOfOne
    MaxCents = 3
SPECIFICATION FairSpec
CHECK_DEADLOCK FALSE
PROPERTIES
    SettledIsRecorded
