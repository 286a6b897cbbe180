\* Subscribing, cancelling, metering and closing overlap across two months.
CONSTANTS
    publish = publish
    Orgs = {o1}
    Plans = {basic, trial}
    TrialPlans = {trial}
    Metrics = {publish}
    Priced = {publish}
    Allowance <- AllowanceOfOne
    Sessions = {r1, r2, r3, r4}
    PeriodDays = 1
    MonthDays = 1
    MaxDay = 2
    MaxUsage = 2
    MaxQuantity = 1
    \* The rest of Billing is empty.
    Invoices = {}
    Requests = {}
    Deliveries = {}
    Total <- NoTotals
    MaxCents = 1
    None = None
SPECIFICATION InvoicingSpec
SYMMETRY Symmetry
CHECK_DEADLOCK FALSE
INVARIANTS
    UsageBilledOnce
    NextNumberIsFree
