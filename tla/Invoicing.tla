------------------------------ MODULE Invoicing ------------------------------
(***************************************************************************)
(* Subscriptions, metered usage and the invoices made of them:             *)
(* SubscriptionService, UsageService and InvoiceService of                 *)
(* services/billing.py, as the routes in api/v1/routes/billing.py and the  *)
(* period closing call them.                                               *)
(*                                                                         *)
(* As in Payments, a step is one await of a session and a write includes   *)
(* its commit.  What keeps two sessions apart here is one UNIQUE           *)
(* constraint (organization, status) on subscriptions, one on the invoice  *)
(* number, and the version column.  The tables are sequences in order of   *)
(* created_at; a row's id is its index.                                    *)
(***************************************************************************)
EXTENDS Integers, Sequences, FiniteSets, FiniteSetsExt

CONSTANTS
    Orgs, Plans, Metrics,
    Requests,          \* sessions that subscribe, cancel or close; each runs once
    TrialPlans,        \* plans with trial_days > 0
    Allowance,         \* Allowance[m]: the quota every plan grants for m
    Priced,            \* metrics with an overage rate
    PeriodDays,        \* length of a billing period (_period_end)
    MonthDays,         \* days to the next invoice-number prefix
    MaxDay,            \* bound: last day of the run
    MaxUsage,          \* bound: usage rows recorded
    MaxQuantity        \* bound: largest quantity of one usage row

VARIABLES
    today,
    subscriptions,
    usage,
    invoices,
    req

vars == <<today, subscriptions, usage, invoices, req>>
tables == <<subscriptions, usage, invoices>>

Statuses == {"trialing", "active", "cancelled"}
SubscriptionRow == [org : Orgs, plan : Plans, status : Statuses, ending : BOOLEAN,
                    start : Nat, end : Nat, version : Nat]
UsageRow == [org : Orgs, metric : Metrics, quantity : Nat, day : Nat,
             invoiced : BOOLEAN]
InvoiceRow == [sub : Nat, month : Nat, seq : Nat, rows : SUBSET Nat,
               over : [Metrics -> Nat]]

(* A session is over with "done" or with the error it ended in:            *)
(* ConflictError, NotFoundError, StaleDataError or an IntegrityError.      *)
Outcomes == {"done", "conflict", "missing", "stale", "subscribe integrity",
             "cancel integrity", "close integrity"}
Session ==
    [pc : {"new"} \cup Outcomes]
    \cup [pc : {"insert"}, org : Orgs, plan : Plans]
    \cup [pc : {"cancel"}, sub : Nat, version : Nat, ending : BOOLEAN]
    \cup [pc : {"number"}, sub : Nat, rows : SUBSET Nat]
    \cup [pc : {"close"}, sub : Nat, rows : SUBSET Nat, month : Nat, seq : Nat]

Init ==
    /\ today = 0
    /\ subscriptions = <<>>
    /\ usage = <<>>
    /\ invoices = <<>>
    /\ req = [r \in Requests |-> [pc |-> "new"]]

End(r, outcome) == req' = [req EXCEPT ![r] = [pc |-> outcome]]

NextDay == today < MaxDay /\ today' = today + 1 /\ UNCHANGED <<tables, req>>

-----------------------------------------------------------------------------
(* SubscriptionRepository.get_active_for_organization: trialing counts, the *)
(* newest wins; 0 for none.                                                *)
Granting(org) == {s \in DOMAIN subscriptions :
                     /\ subscriptions[s].org = org
                     /\ subscriptions[s].status \in {"active", "trialing"}}
GetActive(org) ==
    IF Granting(org) = {} THEN 0
    ELSE CHOOSE s \in Granting(org) : \A t \in Granting(org) : t <= s

StatusTaken(org, status) ==
    \E s \in DOMAIN subscriptions :
        subscriptions[s].org = org /\ subscriptions[s].status = status

(* SubscriptionService.subscribe: the search for an active subscription ... *)
SubscribeRead(r, org, plan) ==
    /\ req[r].pc = "new"
    /\ IF GetActive(org) # 0 THEN End(r, "conflict")
       ELSE req' = [req EXCEPT ![r] = [pc |-> "insert", org |-> org, plan |-> plan]]
    /\ UNCHANGED <<today, tables>>

StatusOf(plan) == IF plan \in TrialPlans THEN "trialing" ELSE "active"

(* ... and the INSERT, which the constraint on (organization, status) stops *)
(* if there is a row of that status by now.                                *)
SubscribeInsert(r) ==
    /\ req[r].pc = "insert"
    /\ LET org == req[r].org
           status == StatusOf(req[r].plan)
       IN  IF StatusTaken(org, status)
           THEN End(r, "subscribe integrity") /\ UNCHANGED tables
           ELSE /\ subscriptions' = Append(subscriptions,
                     [org |-> org, plan |-> req[r].plan, status |-> status,
                      ending |-> FALSE, start |-> today, end |-> today + PeriodDays,
                      version |-> 1])
                /\ End(r, "done")
                /\ UNCHANGED <<usage, invoices>>
    /\ UNCHANGED today

(* cancel_subscription: the organization's active subscription is read ... *)
CancelRead(r, org, atEnd) ==
    /\ req[r].pc = "new"
    /\ LET s == GetActive(org)
       IN  IF s = 0 THEN End(r, "missing")
           ELSE req' = [req EXCEPT ![r] =
                    [pc |-> "cancel", sub |-> s, ending |-> atEnd,
                     version |-> subscriptions[s].version]]
    /\ UNCHANGED <<today, tables>>

(* ... and SubscriptionService.cancel updates it. *)
CancelWrite(r) ==
    /\ req[r].pc = "cancel"
    /\ LET s == req[r].sub
           row == subscriptions[s]
           status == IF req[r].ending THEN row.status ELSE "cancelled"
       IN  \/ /\ row.version # req[r].version
              /\ End(r, "stale") /\ UNCHANGED tables
           \/ /\ row.version = req[r].version
              /\ status # row.status /\ StatusTaken(row.org, status)
              /\ End(r, "cancel integrity") /\ UNCHANGED tables
           \/ /\ row.version = req[r].version
              /\ status = row.status \/ ~StatusTaken(row.org, status)
              /\ subscriptions' = [subscriptions EXCEPT ![s].status = status,
                    ![s].ending = req[r].ending, ![s].version = @ + 1]
              /\ End(r, "done") /\ UNCHANGED <<usage, invoices>>
    /\ UNCHANGED today

-----------------------------------------------------------------------------
(* UsageService.record: one row, for a day up to today.  It is kept with   *)
(* or without a subscription, and closing goes by organization.            *)
RecordUsage(org, metric, quantity, day) ==
    /\ Len(usage) < MaxUsage
    /\ day <= today
    /\ usage' = Append(usage, [org |-> org, metric |-> metric, quantity |-> quantity,
                               day |-> day, invoiced |-> FALSE])
    /\ UNCHANGED <<today, subscriptions, invoices, req>>

-----------------------------------------------------------------------------
(* InvoiceService.close_period *)

(* UsageRecordRepository.list_uninvoiced: no lower bound on the day. *)
Uninvoiced(org, until) ==
    {u \in DOMAIN usage :
        usage[u].org = org /\ usage[u].day <= until /\ ~usage[u].invoiced}

Used(rows, m) ==
    MapThenSumSet(LAMBDA u : IF usage[u].metric = m THEN usage[u].quantity ELSE 0, rows)

(* What is billed beyond the plan fee: the units over the allowance, where *)
(* the plan has a rate.                                                    *)
Overage(rows) ==
    [m \in Metrics |->
        IF m \in Priced /\ Used(rows, m) > Allowance[m]
        THEN Used(rows, m) - Allowance[m] ELSE 0]

(* The subscription and the usage of its organization up to the end of the *)
(* period are read; neither the status of the subscription nor the date    *)
(* is asked.                                                               *)
CloseRead(r, s) ==
    /\ req[r].pc = "new"
    /\ req' = [req EXCEPT ![r] =
          [pc |-> "number", sub |-> s,
           rows |-> Uninvoiced(subscriptions[s].org, subscriptions[s].end)]]
    /\ UNCHANGED <<today, tables>>

(* _next_number: one more than there are invoices, prefixed by the month.  *)
NextSeq == Len(invoices) + 1
Month(day) == day \div MonthDays

(* A deviation: the number after the next is taken. *)
CloseNumberSkipping(r) ==
    /\ req[r].pc = "number"
    /\ req' = [req EXCEPT ![r] =
          [pc |-> "close", sub |-> req[r].sub, rows |-> req[r].rows,
           month |-> Month(today), seq |-> NextSeq + 1]]
    /\ UNCHANGED <<today, tables>>

CloseNumber(r) ==
    /\ req[r].pc = "number"
    /\ req' = [req EXCEPT ![r] =
          [pc |-> "close", sub |-> req[r].sub, rows |-> req[r].rows,
           month |-> Month(today), seq |-> NextSeq]]
    /\ UNCHANGED <<today, tables>>

NumberTaken(month, seq) ==
    \E k \in DOMAIN invoices : invoices[k].month = month /\ invoices[k].seq = seq

(* A deviation: UPDATEs that do not compare versions. *)
NeverStale(r) == TRUE

(* The versioned UPDATEs that stamp invoiced_at.  A usage row is written   *)
(* once, by the closing that stamps it: it is as it was read while it is   *)
(* not stamped.                                                            *)
UsageFresh(r) == \A u \in req[r].rows : ~usage[u].invoiced

(* INSERT invoice, stamp the usage, COMMIT; or ConflictError or            *)
(* IntegrityError on the number, or StaleDataError on a usage row.  The    *)
(* search for the number in _next_number answers as the INSERT would.      *)
CloseWrite(r) ==
    /\ req[r].pc = "close"
    /\ \/ /\ NumberTaken(req[r].month, req[r].seq)
          /\ End(r, "close integrity") /\ UNCHANGED tables
       \/ /\ ~NumberTaken(req[r].month, req[r].seq) /\ ~UsageFresh(r)
          /\ End(r, "stale") /\ UNCHANGED tables
       \/ /\ ~NumberTaken(req[r].month, req[r].seq) /\ UsageFresh(r)
          /\ invoices' = Append(invoices,
                [sub |-> req[r].sub, month |-> req[r].month, seq |-> req[r].seq,
                 rows |-> req[r].rows, over |-> Overage(req[r].rows)])
          /\ usage' = [u \in DOMAIN usage |->
                IF u \in req[r].rows THEN [usage[u] EXCEPT !.invoiced = TRUE]
                ELSE usage[u]]
          /\ End(r, "done") /\ UNCHANGED subscriptions
    /\ UNCHANGED today

-----------------------------------------------------------------------------
Next ==
    \/ NextDay
    \/ \E r \in Requests :
          \/ \E org \in Orgs, plan \in Plans : SubscribeRead(r, org, plan)
          \/ SubscribeInsert(r)
          \/ \E org \in Orgs, atEnd \in BOOLEAN : CancelRead(r, org, atEnd)
          \/ CancelWrite(r)
          \/ \E s \in DOMAIN subscriptions : CloseRead(r, s)
          \/ CloseNumber(r)
          \/ CloseWrite(r)
    \/ \E org \in Orgs, m \in Metrics, quantity \in 0..MaxQuantity, day \in 0..MaxDay :
          RecordUsage(org, m, quantity, day)

Spec == Init /\ [][Next]_vars

-----------------------------------------------------------------------------
(* The tables and the sessions have the shapes above. *)
TypeOK ==
    /\ today \in 0..MaxDay
    /\ subscriptions \in Seq(SubscriptionRow)
    /\ usage \in Seq(UsageRow)
    /\ invoices \in Seq(InvoiceRow)
    /\ req \in [Requests -> Session]
=============================================================================
