------------------------------- MODULE Billing -------------------------------
(***************************************************************************)
(* services/billing.py as a whole: how invoices come about (Invoicing,     *)
(* here IV) and how they are paid (Payments).  Closing a period only       *)
(* appends invoices; paying only touches invoices that are there.  So the  *)
(* sessions of the one never meet those of the other, and the              *)
(* specification below moves invoicing while the payments stand still.     *)
(***************************************************************************)
EXTENDS Payments, Sequences

CONSTANTS
    Sessions,        \* Invoicing's Requests
    Orgs, Plans, Metrics, TrialPlans, Allowance, Priced, PeriodDays, MonthDays,
    MaxDay, MaxUsage, MaxQuantity

ASSUME InvoicingAssumption ==
    /\ TrialPlans \subseteq Plans /\ Priced \subseteq Metrics
    /\ Allowance \in [Metrics -> Nat]
    /\ PeriodDays \in Nat /\ MonthDays \in Nat \ {0}
    /\ MaxDay \in Nat /\ MaxUsage \in Nat /\ MaxQuantity \in Nat

VARIABLES
    today, subscriptions, usage,
    issued,          \* Invoicing's invoices: what close_period writes of them
    session          \* Invoicing's req

IV == INSTANCE Invoicing WITH Requests <- Sessions, invoices <- issued, req <- session

invoicing == <<today, subscriptions, usage, issued, session>>

(* Subscriptions, usage and closings, nothing of which touches a payment. *)
InvoicingSpec ==
    /\ Init /\ IV!Init
    /\ [][IV!Next /\ UNCHANGED vars]_<<vars, invoicing>>

-----------------------------------------------------------------------------
(* close_period: "Usage rows are stamped invoiced_at so a second call      *)
(* cannot bill the same usage twice."  However closings of one or of two   *)
(* subscriptions of the organization overlap, a stamped row is in exactly  *)
(* one invoice and an unstamped one in none.                               *)
UsageBilledOnce ==
    \A u \in DOMAIN usage :
        /\ usage[u].invoiced <=> \E k \in DOMAIN issued : u \in issued[k].rows
        /\ \A k, l \in DOMAIN issued : u \in issued[k].rows /\ u \in issued[l].rows => k = l

(* _next_number: "Collisions raise rather than overwrite."  No number is   *)
(* ever ahead of the count of invoices, so a collision is only ever with a *)
(* closing that ran at the same time, and the number a later attempt       *)
(* computes is free, across months too.                                    *)
NextNumberIsFree ==
    /\ ~IV!NumberTaken(IV!Month(today), IV!NextSeq)
    /\ \A k \in DOMAIN issued : issued[k].seq < IV!NextSeq

(* cancel: "Cancel a subscription, immediately or at the end of the        *)
(* period."  A subscription that is current can be cancelled.              *)
CancellingWorks == \A r \in Sessions : session[r].pc # "cancel integrity"
=============================================================================
