------------------------------ MODULE Payments ------------------------------
(***************************************************************************)
(* Collecting invoices: PaymentGatewayService (services/payment_gateway.py)*)
(* over PaymentService (services/billing.py).                              *)
(*                                                                         *)
(* Every HTTP request runs in one database session: it reads rows into the *)
(* session, talks to the payment provider, writes, and commits             *)
(* (db/session.py session_scope).  Any exception rolls the session back.   *)
(* Rows carry a version (models/mixins.py): an UPDATE whose version is no  *)
(* longer current raises StaleDataError.  A step of the model is one await *)
(* of the code; flush and commit are one step because the rows a flush     *)
(* wrote stay locked until the commit, so no other session can come        *)
(* between them, and a crash between them is Abort.                        *)
(*                                                                         *)
(* The provider is external: it settles a charge under an id it derives    *)
(* from the invoice number and the amount (core/payments/mock.py           *)
(* _stable_id) and reports every settlement in a callback that it repeats  *)
(* until it is answered with a 2xx.                                        *)
(***************************************************************************)
EXTENDS Integers, FiniteSets, FiniteSetsExt

CONSTANTS
    Invoices,      \* invoices issued by InvoiceService.close_period
    Requests,      \* API calls that charge, pay or refund; each runs once
    Deliveries,    \* concurrent callback deliveries; each slot is reused
    Total,         \* Total[i] is total_cents of invoice i
    MaxCents,      \* bound: no invoice or single payment is larger
    None           \* "no payment id"

Cents == 1..MaxCents
Workers == Requests \cup Deliveries

ASSUME CentsAssumption == MaxCents \in Nat \ {0}
ASSUME TotalAssumption == Total \in [Invoices -> 0..MaxCents]
ASSUME WorkersAssumption == /\ Requests \cap Deliveries = {}
                            /\ Requests \cap Cents = {}
                            /\ IsFiniteSet(Requests)

(***************************************************************************)
(* Payment.provider_payment_id is _stable_id(reference, amount, currency): *)
(* the same invoice and amount always give the same id.  A payment that no *)
(* provider took has a NULL provider id and is known by the request that   *)
(* recorded it.                                                            *)
(***************************************************************************)
StableId(i, cents) == [invoice |-> i, ref |-> cents]
ProviderIds == [invoice : Invoices, ref : Cents]
PaymentIds == [invoice : Invoices, ref : Cents \cup Requests]
NoId == [invoice |-> None, ref |-> None]

InvoiceRow == [paid : Nat, status : {"open", "paid", "void"}, version : Nat]
PaymentRow == [amount : Nat, refunded : Nat,
               status : {"none", "succeeded", "refunded"}, version : Nat]

(* As close_period issues it. *)
IssuedInvoice == [paid |-> 0, status |-> "open", version |-> 1]
(* Version 0: the table has no such row. *)
NoPayment == [amount |-> 0, refunded |-> 0, status |-> "none", version |-> 0]

VARIABLES
    invoices,          \* the committed invoice rows
    payments,          \* the committed payment rows
    settled,           \* provider: ids of charges that took the money
    awaiting,          \* provider: ids that wait for the customer
    refundedAt,        \* provider: cents given back, per id
    callbacks,         \* provider: settlements it has not had a 2xx for
    req                \* the sessions: where each is and what it has read

vars == <<invoices, payments, settled, awaiting, refundedAt, callbacks, req>>
ledger == <<invoices, payments>>
provider == <<settled, awaiting, refundedAt, callbacks>>

(***************************************************************************)
(* pc names the next await: "charge"/"refund" the provider call, "lookup"  *)
(* the search by provider id, "record"/"return" the flush and commit,      *)
(* "reload" the read of the invoice a refund changes.                      *)
(***************************************************************************)
Running == {"charge", "lookup", "record", "refund", "reload", "return"}
Over == {"succeeded", "pending", "failed"}
Session == [pc : {"new"} \cup Running \cup Over,
            id : PaymentIds \cup {NoId}, amount : Nat,
            inv : InvoiceRow, pay : PaymentRow]
At(pc, id, amount, inv, pay) ==
    [pc |-> pc, id |-> id, amount |-> amount, inv |-> inv, pay |-> pay]
(* Nothing read: the placeholder rows have version 0. *)
NoInvoice == [paid |-> 0, status |-> "open", version |-> 0]
Idle == At("new", NoId, 0, NoInvoice, NoPayment)
Ended(outcome, id) == At(outcome, id, 0, NoInvoice, NoPayment)

Init ==
    /\ invoices = [i \in Invoices |-> IssuedInvoice]
    /\ payments = [id \in PaymentIds |-> NoPayment]
    /\ settled = {}
    /\ awaiting = {}
    /\ refundedAt = [id \in PaymentIds |-> 0]
    /\ callbacks = {}
    /\ req = [w \in Workers |-> Idle]

-----------------------------------------------------------------------------
(* How a session ends. *)

Recorded(id) == payments[id].version > 0

(* A deviation: the callback is acknowledged although applying it failed. *)
FailAcknowledged(w) ==
    /\ req' = [req EXCEPT ![w] = IF w \in Requests
                                 THEN Ended("failed", NoId) ELSE Idle]
    /\ callbacks' = callbacks \ {req[w].id}
    /\ UNCHANGED <<settled, awaiting, refundedAt>>

(* An exception: the transaction rolls back, the caller gets an error; a   *)
(* delivery is not acknowledged, so its callback stays with the provider.  *)
Fail(w) ==
    /\ req' = [req EXCEPT ![w] = IF w \in Requests
                                 THEN Ended("failed", NoId) ELSE Idle]
    /\ UNCHANGED provider

(* A reply: to a request its outcome; to a callback a 204, which may be    *)
(* lost on the way back.                                                   *)
Reply(w, outcome) ==
    /\ req' = [req EXCEPT ![w] =
                 IF w \in Requests THEN Ended(outcome, req[w].id) ELSE Idle]
    /\ callbacks' \in IF w \in Requests
                      THEN {callbacks} ELSE {callbacks, callbacks \ {req[w].id}}
    /\ UNCHANGED <<settled, awaiting, refundedAt>>

-----------------------------------------------------------------------------
(* PaymentGatewayService.charge_invoice *)

(* amount_due: never negative. *)
AmountDue(i, row) == IF row.paid < Total[i] THEN Total[i] - row.paid ELSE 0

Chargeable(i) == invoices[i].status # "void" /\ AmountDue(i, invoices[i]) > 0

(* The invoice is read, and its balance decides what is charged. *)
ChargeRead(w, i) ==
    /\ req[w].pc = "new"
    /\ Chargeable(i)
    /\ LET due == AmountDue(i, invoices[i])
       IN  req' = [req EXCEPT ![w] =
                       At("charge", StableId(i, due), due, invoices[i], NoPayment)]
    /\ UNCHANGED <<ledger, provider>>

(* ValidationError: voided, or nothing left to pay. *)
ChargeRefused(w, i) ==
    /\ req[w].pc = "new"
    /\ ~Chargeable(i)
    /\ Fail(w)
    /\ UNCHANGED ledger

(* provider.charge settles; a repeated id settles nothing new. *)
ChargeSettles(w) ==
    /\ req[w].pc = "charge"
    /\ settled' = settled \cup {req[w].id}
    /\ callbacks' = callbacks \cup {req[w].id}
    /\ req' = [req EXCEPT ![w].pc = "lookup"]
    /\ UNCHANGED <<ledger, awaiting, refundedAt>>

(* A deviation: a charge that needs the customer is recorded at once. *)
ChargeRecordsUnsettled(w) ==
    /\ req[w].pc = "charge"
    /\ req[w].id \notin settled
    /\ awaiting' = awaiting \cup {req[w].id}
    /\ req' = [req EXCEPT ![w].pc = "lookup"]
    /\ UNCHANGED <<ledger, settled, refundedAt, callbacks>>

(* REQUIRES_ACTION: no payment is recorded, the caller gets the action url. *)
ChargeNeedsAction(w) ==
    /\ req[w].pc = "charge"
    /\ req[w].id \notin settled
    /\ awaiting' = awaiting \cup {req[w].id}
    /\ req' = [req EXCEPT ![w] = Ended("pending", NoId)]
    /\ UNCHANGED <<ledger, settled, refundedAt, callbacks>>

(* DECLINED, or a broken provider raises: nothing is recorded. *)
ChargeDeclined(w) ==
    /\ req[w].pc = "charge"
    /\ Fail(w)
    /\ UNCHANGED ledger

(* Out of band the customer completes the action and the charge settles. *)
CustomerConfirms(id) ==
    /\ id \in awaiting
    /\ awaiting' = awaiting \ {id}
    /\ settled' = settled \cup {id}
    /\ callbacks' = callbacks \cup {id}
    /\ UNCHANGED <<ledger, refundedAt, req>>

-----------------------------------------------------------------------------
(* PaymentService.record_payment *)

(* get_by_provider_id: an id already recorded returns the existing row. *)
Lookup(w) ==
    /\ req[w].pc = "lookup"
    /\ IF Recorded(req[w].id)
       THEN Reply(w, "succeeded")
       ELSE req' = [req EXCEPT ![w].pc = "record"] /\ UNCHANGED provider
    /\ UNCHANGED ledger

(* A deviation: UPDATEs that do not compare versions. *)
NeverStale(w) == TRUE

(* The versioned UPDATEs of a flush find the rows the session has read. *)
InvoiceFresh(w) == invoices[req[w].id.invoice].version = req[w].inv.version
PaymentFresh(w) == payments[req[w].id].version = req[w].pay.version

(* A deviation: PAID only when the balance meets the total exactly. *)
CreditedExactly(row, i, cents) ==
    [paid |-> row.paid + cents, version |-> row.version + 1,
     status |-> IF row.paid + cents = Total[i] THEN "paid" ELSE row.status]

(* amount_paid_cents += amount; PAID once it covers the total. *)
Credited(row, i, cents) ==
    [paid |-> row.paid + cents, version |-> row.version + 1,
     status |-> IF row.paid + cents >= Total[i] THEN "paid" ELSE row.status]

(* INSERT payment (provider_payment_id is unique), UPDATE invoice, COMMIT. *)
Record(w) ==
    LET id == req[w].id
    IN  /\ req[w].pc = "record"
        /\ ~Recorded(id)
        /\ InvoiceFresh(w)
        /\ payments' = [payments EXCEPT ![id] =
              [amount |-> req[w].amount, refunded |-> 0,
               status |-> "succeeded", version |-> 1]]
        /\ invoices' = [invoices EXCEPT ![id.invoice] =
              Credited(req[w].inv, id.invoice, req[w].amount)]
        /\ Reply(w, "succeeded")

(* IntegrityError or StaleDataError. *)
RecordConflict(w) ==
    /\ req[w].pc = "record"
    /\ Recorded(req[w].id) \/ ~InvoiceFresh(w)
    /\ Fail(w)
    /\ UNCHANGED ledger

(* record_payment called without a provider id: no lookup, the invoice is  *)
(* read here.                                                              *)
ManualRead(w, i, cents) ==
    /\ req[w].pc = "new"
    /\ req' = [req EXCEPT ![w] =
                 At("record", [invoice |-> i, ref |-> w], cents, invoices[i], NoPayment)]
    /\ UNCHANGED <<ledger, provider>>

-----------------------------------------------------------------------------
(* PaymentGatewayService.refund_payment and PaymentService.refund *)

(* The payment is read; the amount is checked against what is refundable,  *)
(* and only a payment a provider took can be given back.                   *)
Refundable(id, cents) ==
    /\ id \in ProviderIds
    /\ Recorded(id)
    /\ cents <= payments[id].amount - payments[id].refunded

(* A deviation: the refund is recorded before the provider is called. *)
RefundReadUnbacked(w, id, cents) ==
    /\ req[w].pc = "new"
    /\ Refundable(id, cents)
    /\ req' = [req EXCEPT ![w] = At("reload", id, cents, NoInvoice, payments[id])]
    /\ UNCHANGED <<ledger, provider>>

RefundRead(w, id, cents) ==
    /\ req[w].pc = "new"
    /\ Refundable(id, cents)
    /\ req' = [req EXCEPT ![w] =
                 At("refund", id, cents, NoInvoice, payments[id])]
    /\ UNCHANGED <<ledger, provider>>

(* NotFoundError or ValidationError. *)
RefundRefused(w, id, cents) ==
    /\ req[w].pc = "new"
    /\ ~Refundable(id, cents)
    /\ Fail(w)
    /\ UNCHANGED ledger

(* provider.refund comes first: it gives the money back ... *)
ProviderRefunds(w) ==
    /\ req[w].pc = "refund"
    /\ refundedAt' = [refundedAt EXCEPT ![req[w].id] = @ + req[w].amount]
    /\ req' = [req EXCEPT ![w].pc = "reload"]
    /\ UNCHANGED <<ledger, settled, awaiting, callbacks>>

(* ... or raises. *)
ProviderRefundFails(w) ==
    /\ req[w].pc = "refund"
    /\ Fail(w)
    /\ UNCHANGED ledger

(* The payment comes from the session's identity map, as first read; the   *)
(* invoice is read from the database.                                      *)
RefundLoadsInvoice(w) ==
    /\ req[w].pc = "reload"
    /\ req' = [req EXCEPT ![w].pc = "return",
                          ![w].inv = invoices[req[w].id.invoice]]
    /\ UNCHANGED <<ledger, provider>>

(* refunded_cents += amount; REFUNDED once nothing is left. *)
Returned(row, cents) ==
    [amount |-> row.amount, refunded |-> row.refunded + cents,
     status |-> IF row.refunded + cents = row.amount THEN "refunded" ELSE row.status,
     version |-> row.version + 1]

(* amount_paid_cents falls, never below zero; OPEN again once it no longer *)
(* covers the total.                                                       *)
Debited(row, i, cents) ==
    LET left == IF row.paid > cents THEN row.paid - cents ELSE 0
    IN  [paid |-> left, version |-> row.version + 1,
         status |-> IF left < Total[i] THEN "open" ELSE row.status]

(* UPDATE payment, UPDATE invoice, COMMIT. *)
RefundRecord(w) ==
    LET id == req[w].id
    IN  /\ req[w].pc = "return"
        /\ PaymentFresh(w)
        /\ InvoiceFresh(w)
        /\ payments' = [payments EXCEPT ![id] = Returned(req[w].pay, req[w].amount)]
        /\ invoices' = [invoices EXCEPT ![id.invoice] =
              Debited(req[w].inv, id.invoice, req[w].amount)]
        /\ req' = [req EXCEPT ![w] = Ended("pending", NoId)]
        /\ UNCHANGED provider

(* StaleDataError. *)
RefundConflict(w) ==
    /\ req[w].pc = "return"
    /\ ~PaymentFresh(w) \/ ~InvoiceFresh(w)
    /\ Fail(w)
    /\ UNCHANGED ledger

-----------------------------------------------------------------------------
(* PaymentGatewayService.handle_webhook and _apply_settlement *)

(* A verified payment.succeeded callback, for an invoice this system       *)
(* issued: one that does not verify is refused and one of another type is  *)
(* answered 204, both without touching state.  A recorded id is only       *)
(* acknowledged; else the invoice is read and record_payment is entered.   *)
(* The search and the read are one step: a row that appears between them   *)
(* is found by record_payment's own search.                                *)
Deliver(w, id) ==
    /\ req[w].pc = "new"
    /\ id \in callbacks
    /\ IF Recorded(id)
       THEN UNCHANGED req /\ callbacks' \in {callbacks, callbacks \ {id}}
       ELSE /\ req' = [req EXCEPT ![w] =
                         At("lookup", id, id.ref, invoices[id.invoice], NoPayment)]
            /\ UNCHANGED callbacks
    /\ UNCHANGED <<ledger, settled, awaiting, refundedAt>>

(* The process dies or the connection drops before the commit. *)
Abort(w) ==
    /\ req[w].pc \in Running
    /\ Fail(w)
    /\ UNCHANGED ledger

-----------------------------------------------------------------------------
(* The steps of a session that has begun. *)
Proceed(w) ==
    \/ ChargeSettles(w) \/ ChargeNeedsAction(w) \/ ChargeDeclined(w)
    \/ Lookup(w) \/ Record(w) \/ RecordConflict(w)
    \/ ProviderRefunds(w) \/ ProviderRefundFails(w)
    \/ RefundLoadsInvoice(w) \/ RefundRecord(w) \/ RefundConflict(w)

Next ==
    \/ \E w \in Workers : Proceed(w) \/ Abort(w)
    \/ \E w \in Requests, i \in Invoices :
          \/ ChargeRead(w, i)
          \/ ChargeRefused(w, i)
          \/ \E cents \in Cents : ManualRead(w, i, cents)
    \/ \E w \in Requests, id \in PaymentIds, cents \in Cents :
          RefundRead(w, id, cents) \/ RefundRefused(w, id, cents)
    \/ \E w \in Deliveries, id \in PaymentIds : Deliver(w, id)
    \/ \E id \in PaymentIds : CustomerConfirms(id)

Spec == Init /\ [][Next]_vars
(***************************************************************************)
(* Fairness, for the liveness property only.  A request or delivery that   *)
(* has begun is served to its end; the provider repeats a callback until   *)
(* it is acknowledged, so a delivery that is possible again and again is   *)
(* made; and it is not aborted every single time (strong fairness on the   *)
(* steps of a delivery).  Nothing obliges a client to send a request or a  *)
(* customer to confirm.                                                    *)
(***************************************************************************)
Fairness ==
    /\ \A w \in Requests : WF_vars(Proceed(w))
    /\ \A w \in Deliveries :
          /\ SF_vars(Lookup(w))
          /\ SF_vars(Record(w))
          /\ WF_vars(RecordConflict(w))
          /\ \A id \in ProviderIds : SF_vars(Deliver(w, id))

FairSpec == Spec /\ Fairness

-----------------------------------------------------------------------------
(* The variables hold rows, ids and sessions of the shapes above. *)
TypeOK ==
    /\ invoices \in [Invoices -> InvoiceRow]
    /\ payments \in [PaymentIds -> PaymentRow]
    /\ settled \subseteq ProviderIds
    /\ awaiting \subseteq ProviderIds
    /\ refundedAt \in [PaymentIds -> Nat]
    /\ callbacks \subseteq settled
    /\ req \in [Workers -> Session]

(* An invoice that anything was paid on or refunded from is PAID exactly   *)
(* when the balance covers its total: record_payment and refund keep       *)
(* status and amount_paid_cents in step across concurrent sessions.        *)
StatusTracksBalance ==
    \A i \in Invoices :
        invoices[i].status = "paid" <=>
            invoices[i].version > 1 /\ invoices[i].paid >= Total[i]

(* What the payments of an invoice brought, less what was refunded. *)
Collected(rows, i) ==
    MapThenSumSet(LAMBDA id : rows[id].amount - rows[id].refunded,
                  {id \in PaymentIds : id.invoice = i})

(* The balance of an invoice is what its payments brought less what was    *)
(* refunded: no concurrent record_payment or refund loses an update of     *)
(* amount_paid_cents, and the clamp at zero in refund never hides one.     *)
BalanceIsSumOfPayments ==
    \A i \in Invoices : invoices[i].paid = Collected(payments, i)

(* A payment row under a provider id stands for money the provider really  *)
(* took, for that amount: neither charge_invoice nor _apply_settlement     *)
(* records a charge that did not settle.                                   *)
RecordedWasSettled ==
    \A id \in ProviderIds :
        Recorded(id) => id \in settled /\ payments[id].amount = id.ref

(* refund_payment calls the provider first: the ledger never claims a      *)
(* refund the provider has not made, never more than was paid, and a row   *)
(* reads REFUNDED exactly when all of it went back, however many refunds   *)
(* of the payment overlap.                                                 *)
RefundsBacked ==
    \A id \in PaymentIds :
        LET row == payments[id]
        IN  /\ row.refunded <= refundedAt[id]
            /\ row.refunded <= row.amount
            /\ row.status = "refunded" <=> Recorded(id) /\ row.refunded = row.amount

(* A payment row is never removed or re-priced, and a refund recorded on   *)
(* it is never undone, whichever sessions write it.                        *)
LedgerIsAppendOnly ==
    [][\A id \in PaymentIds : Recorded(id) =>
          /\ payments'[id].amount = payments[id].amount
          /\ payments'[id].refunded >= payments[id].refunded
          /\ payments'[id].version >= payments[id].version]_vars

(* Money the provider took is in the ledger in the end, even when the      *)
(* request that charged it was aborted or lost the race for the invoice:   *)
(* the repeated callback reconciles it (handle_webhook).                   *)
SettledIsRecorded ==
    \A id \in ProviderIds : id \in settled ~> Recorded(id)

(* docs/Billing.md: "a partly paid invoice is never charged its full total *)
(* again, and a settled one is refused before the provider is called at    *)
(* all".  When the provider is called, the amount is still owed.           *)
ChargesOnlyWhatIsDue ==
    [][\A w \in Workers :
          req[w].pc = "charge" /\ req'[w].pc = "lookup" =>
              LET i == req[w].id.invoice
              IN  req[w].amount <= AmountDue(i, invoices[i])]_vars

=============================================================================
