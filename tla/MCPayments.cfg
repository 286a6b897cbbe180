\* Overlapping charges, manual payments, refunds and callbacks of one invoice.
CONSTANTS
    i1 = i1
    i2 = i2
    None = None
    Invoices = {i1, i2}
    Requests = {r1, r2, r3}
    Deliveries = {d1, d2}
    Total <- TotalOfTwo
    MaxCents = 3
SPECIFICATION Spec
SYMMETRY Symmetry
CHECK_DEADLOCK FALSE
INVARIANTS
    StatusTracksBalance
    RecordedWasSettled
    RefundsBacked
    BalanceIsSumOfPayments
PROPERTIES
    LedgerIsAppendOnly
