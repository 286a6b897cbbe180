---------------------------- MODULE BillingProofs ----------------------------
(***************************************************************************)
(* The safety properties of Payments for every set of invoices, requests   *)
(* and deliveries and every total, and those of Invoicing for every set of *)
(* subscriptions, usage rows and closings.                                 *)
(***************************************************************************)
EXTENDS Billing, Sums

(* A session past its first read works on a known payment and a positive   *)
(* amount; one that talks to the provider, on a provider id, and a charge  *)
(* on the id of the very amount.                                           *)
WellFormed(s) ==
    /\ s.pc \in Running => s.id \in PaymentIds /\ s.amount \in Cents
    /\ s.pc \in Running \ {"record"} => s.id \in ProviderIds
    /\ s.pc \in {"charge", "lookup", "record"} /\ s.id \in ProviderIds
          => s.amount = s.id.ref

TypeInv == TypeOK /\ \A w \in Workers : WellFormed(req[w])

(* An id of a provider's charge is an id. *)
LEMMA ProviderIdIsId == ProviderIds \subseteq PaymentIds
BY DEF ProviderIds, PaymentIds

(* The id a manual payment gets is an id, and not a provider's. *)
LEMMA ManualIdIsId ==
    ASSUME NEW i \in Invoices, NEW w \in Requests
    PROVE  /\ [invoice |-> i, ref |-> w] \in PaymentIds
           /\ [invoice |-> i, ref |-> w] \notin ProviderIds
BY WorkersAssumption DEF PaymentIds, ProviderIds

(* What is charged is the id's amount, and a legal amount. *)
LEMMA DueIsCents ==
    ASSUME NEW i \in Invoices, NEW row \in InvoiceRow, AmountDue(i, row) > 0
    PROVE  /\ AmountDue(i, row) \in Cents
           /\ StableId(i, AmountDue(i, row)) \in ProviderIds
           /\ StableId(i, AmountDue(i, row)).ref = AmountDue(i, row)
           /\ StableId(i, AmountDue(i, row)).invoice = i
<1>1. AmountDue(i, row) \in Cents
  BY TotalAssumption, CentsAssumption DEF AmountDue, InvoiceRow, Cents
<1> QED BY <1>1 DEF StableId, ProviderIds

(* The record of a session that has not begun or is over is well typed     *)
(* and well formed.                                                        *)
LEMMA EndedTyped ==
    /\ Idle \in Session /\ WellFormed(Idle)
    /\ \A pc \in Over, id \in PaymentIds \cup {NoId} :
          Ended(pc, id) \in Session /\ WellFormed(Ended(pc, id))
BY DEF Idle, Ended, At, Session, Over, Running, WellFormed,
       InvoiceRow, PaymentRow, NoInvoice, NoPayment

(* A session that ends, by an exception or a reply, leaves well-typed and  *)
(* well-formed sessions behind.                                            *)
LEMMA EndTyped ==
    ASSUME TypeInv, NEW w \in Workers,
           \/ Fail(w)
           \/ req[w].id \in PaymentIds /\ Reply(w, "succeeded")
    PROVE  /\ req' \in [Workers -> Session]
           /\ \A v \in Workers : WellFormed(req'[v])
           /\ settled' = settled /\ awaiting' = awaiting
           /\ refundedAt' = refundedAt /\ callbacks' \subseteq callbacks
<1>1. req \in [Workers -> Session] BY DEF TypeInv, TypeOK
<1>2. CASE Fail(w)
  <2> DEFINE s == IF w \in Requests THEN Ended("failed", NoId) ELSE Idle
  <2>1. s \in Session /\ WellFormed(s) BY EndedTyped DEF Over
  <2>3. req' = [req EXCEPT ![w] = s] BY <1>2 DEF Fail
  <2> HIDE DEF s
  <2> QED BY <1>1, <1>2, <2>1, <2>3 DEF Fail, TypeInv, provider
<1>3. CASE req[w].id \in PaymentIds /\ Reply(w, "succeeded")
  <2> DEFINE s == IF w \in Requests THEN Ended("succeeded", req[w].id) ELSE Idle
  <2>1. s \in Session /\ WellFormed(s) BY <1>3, EndedTyped DEF Over
  <2>3. req' = [req EXCEPT ![w] = s] BY <1>3 DEF Reply
  <2>4. callbacks' \subseteq callbacks
    BY <1>3 DEF Reply
  <2> HIDE DEF s
  <2> QED BY <1>1, <1>3, <2>1, <2>3, <2>4 DEF Reply, TypeInv
<1> QED BY <1>2, <1>3

(* A session moves to a well-typed, well-formed record: so do all. *)
LEMMA MoveTyped ==
    ASSUME TypeInv, NEW w \in Workers, NEW s \in Session, WellFormed(s),
           req' = [req EXCEPT ![w] = s]
    PROVE  req' \in [Workers -> Session] /\ \A v \in Workers : WellFormed(req'[v])
BY DEF TypeInv, TypeOK

(* Every step keeps the variables well typed. *)
LEMMA TypeStep == TypeInv /\ [Next]_vars => TypeInv'
<1> SUFFICES ASSUME TypeInv, [Next]_vars PROVE TypeInv'
  OBVIOUS
<1> USE DEF TypeInv
<1>t. TypeOK BY DEF TypeInv
<1>0. CASE UNCHANGED vars
  BY <1>0 DEF vars, TypeOK
<1>1. ASSUME NEW w \in Workers, Proceed(w) \/ Abort(w) PROVE TypeInv'
  <2>s. req[w] \in Session /\ WellFormed(req[w]) BY DEF TypeOK
  <2>f. CASE Fail(w) /\ UNCHANGED ledger
    BY <2>f, EndTyped DEF TypeOK, ledger
  <2>1. CASE ChargeSettles(w)
    <3>1. req' = [req EXCEPT ![w] = [req[w] EXCEPT !.pc = "lookup"]]
      BY <2>1 DEF ChargeSettles
    <3>2. [req[w] EXCEPT !.pc = "lookup"] \in Session
      BY <2>s DEF Session, Running
    <3>3. WellFormed([req[w] EXCEPT !.pc = "lookup"])
      BY <2>1, <2>s DEF ChargeSettles, WellFormed, Running, Session
    <3>4. req[w].id \in ProviderIds
      BY <2>1, <2>s DEF ChargeSettles, WellFormed, Running
    <3>5. req' \in [Workers -> Session] /\ \A v \in Workers : WellFormed(req'[v])
      BY <3>1, <3>2, <3>3, MoveTyped
    <3> QED BY <2>1, <3>4, <3>5 DEF ChargeSettles, TypeOK, ledger
  <2>2. CASE ChargeNeedsAction(w)
    <3>1. req[w].id \in ProviderIds
      BY <2>2, <2>s DEF ChargeNeedsAction, WellFormed, Running
    <3>2. req' \in [Workers -> Session] /\ \A v \in Workers : WellFormed(req'[v])
      BY <2>2, EndedTyped, MoveTyped DEF ChargeNeedsAction, Over
    <3> QED BY <2>2, <3>1, <3>2 DEF ChargeNeedsAction, TypeOK, ledger
  <2>3. CASE Lookup(w)
    <3>1. CASE Recorded(req[w].id)
      <4>1. req[w].id \in PaymentIds
        BY <2>3, <2>s, ProviderIdIsId DEF Lookup, WellFormed, Running
      <4> QED BY <2>3, <3>1, <4>1, EndTyped DEF Lookup, TypeOK, ledger
    <3>2. CASE ~Recorded(req[w].id)
      <4>1. req' = [req EXCEPT ![w] = [req[w] EXCEPT !.pc = "record"]]
        BY <2>3, <3>2 DEF Lookup
      <4>2. [req[w] EXCEPT !.pc = "record"] \in Session
        BY <2>s DEF Session, Running
      <4>3. WellFormed([req[w] EXCEPT !.pc = "record"])
        BY <2>3, <2>s DEF Lookup, WellFormed, Running, Session
      <4>4. req' \in [Workers -> Session] /\ \A v \in Workers : WellFormed(req'[v])
        BY <4>1, <4>2, <4>3, MoveTyped
      <4> QED BY <2>3, <3>2, <4>4 DEF Lookup, TypeOK, ledger, provider
    <3> QED BY <3>1, <3>2
  <2>4. CASE Record(w)
    <3>1. req[w].id \in PaymentIds /\ req[w].amount \in Nat
      BY <2>4, <2>s DEF Record, WellFormed, Running, Session
    <3>2. Credited(req[w].inv, req[w].id.invoice, req[w].amount) \in InvoiceRow
      BY <2>s, <3>1 DEF Credited, Session, InvoiceRow
    <3>3. invoices' \in [Invoices -> InvoiceRow]
      BY <2>4, <3>2 DEF Record, TypeOK
    <3>4. payments' \in [PaymentIds -> PaymentRow]
      BY <2>4, <3>1 DEF Record, TypeOK, PaymentRow
    <3>5. Reply(w, "succeeded") BY <2>4 DEF Record
    <3> QED BY <3>1, <3>3, <3>4, <3>5, EndTyped DEF TypeOK
  <2>5. CASE ProviderRefunds(w)
    <3>1. req' = [req EXCEPT ![w] = [req[w] EXCEPT !.pc = "reload"]]
      BY <2>5 DEF ProviderRefunds
    <3>2. [req[w] EXCEPT !.pc = "reload"] \in Session
      BY <2>s DEF Session, Running
    <3>3. WellFormed([req[w] EXCEPT !.pc = "reload"])
      BY <2>5, <2>s DEF ProviderRefunds, WellFormed, Running, Session
    <3>4. req' \in [Workers -> Session] /\ \A v \in Workers : WellFormed(req'[v])
      BY <3>1, <3>2, <3>3, MoveTyped
    <3>5. refundedAt' \in [PaymentIds -> Nat]
      <4>1. req[w].amount \in Nat BY <2>s DEF Session
      <4>2. req[w].id \in PaymentIds
        BY <2>5, <2>s DEF ProviderRefunds, WellFormed, Running
      <4>3. refundedAt[req[w].id] + req[w].amount \in Nat BY <4>1, <4>2, <1>t DEF TypeOK
      <4>4. refundedAt' = [refundedAt EXCEPT ![req[w].id] =
                              refundedAt[req[w].id] + req[w].amount]
        BY <2>5 DEF ProviderRefunds
      <4> QED BY <4>3, <4>4, <1>t DEF TypeOK
    <3> QED BY <2>5, <3>4, <3>5 DEF ProviderRefunds, TypeOK, ledger
  <2>6. CASE RefundLoadsInvoice(w)
    <3> DEFINE s == [req[w] EXCEPT !.pc = "return",
                                   !.inv = invoices[req[w].id.invoice]]
    <3>1. req' = [req EXCEPT ![w] = s]
      BY <2>6, <1>t DEF RefundLoadsInvoice, TypeOK
    <3>2. req[w].id.invoice \in Invoices
      BY <2>6, <2>s DEF RefundLoadsInvoice, WellFormed, Running, PaymentIds
    <3>3. s \in Session
      BY <2>s, <3>2, <1>t DEF Session, Running, TypeOK
    <3>4. WellFormed(s)
      BY <2>6, <2>s DEF RefundLoadsInvoice, WellFormed, Running, Session
    <3>5. req' \in [Workers -> Session] /\ \A v \in Workers : WellFormed(req'[v])
      BY <3>1, <3>3, <3>4, MoveTyped
    <3> QED BY <2>6, <3>5 DEF RefundLoadsInvoice, TypeOK, ledger, provider
  <2>7. CASE RefundRecord(w)
    <3>1. req[w].id \in PaymentIds /\ req[w].amount \in Nat
      BY <2>7, <2>s DEF RefundRecord, WellFormed, Running, Session
    <3>2. Returned(req[w].pay, req[w].amount) \in PaymentRow
      BY <2>s, <3>1 DEF Returned, Session, PaymentRow
    <3>3. Debited(req[w].inv, req[w].id.invoice, req[w].amount) \in InvoiceRow
      BY <2>s, <3>1 DEF Debited, Session, InvoiceRow
    <3>4. invoices' \in [Invoices -> InvoiceRow] /\ payments' \in [PaymentIds -> PaymentRow]
      BY <2>7, <3>2, <3>3 DEF RefundRecord, TypeOK
    <3>5. req' \in [Workers -> Session] /\ \A v \in Workers : WellFormed(req'[v])
      BY <2>7, EndedTyped, MoveTyped DEF RefundRecord, Over
    <3> QED BY <2>7, <3>4, <3>5 DEF RefundRecord, TypeOK, provider
  <2> QED
    BY <1>1, <2>f, <2>1, <2>2, <2>3, <2>4, <2>5, <2>6, <2>7
    DEF Proceed, Abort, ChargeDeclined, RecordConflict, ProviderRefundFails,
        RefundConflict
<1>2. ASSUME NEW w \in Requests, NEW i \in Invoices,
             ChargeRead(w, i) \/ ChargeRefused(w, i)
      PROVE  TypeInv'
  <2>1. CASE ChargeRefused(w, i)
    BY <2>1, EndTyped DEF ChargeRefused, TypeOK, ledger, Workers
  <2>2. CASE ChargeRead(w, i)
    <3> DEFINE due == AmountDue(i, invoices[i])
               s == At("charge", StableId(i, due), due, invoices[i], NoPayment)
    <3>1. invoices[i] \in InvoiceRow BY DEF TypeOK
    <3>2. /\ due \in Cents
          /\ StableId(i, due) \in ProviderIds
          /\ StableId(i, due).ref = due
      BY <2>2, <3>1, DueIsCents DEF ChargeRead, Chargeable
    <3> HIDE DEF due
    <3>3. s \in Session
      BY <3>1, <3>2, ProviderIdIsId
      DEF Session, At, Running, Cents, NoPayment, PaymentRow
    <3>4. WellFormed(s)
      BY <3>2, ProviderIdIsId DEF WellFormed, At, Running
    <3>5. req' = [req EXCEPT ![w] = s] BY <2>2 DEF ChargeRead, due
    <3> HIDE DEF s
    <3>6. req' \in [Workers -> Session] /\ \A v \in Workers : WellFormed(req'[v])
      BY <3>3, <3>4, <3>5, MoveTyped DEF Workers
    <3> QED BY <2>2, <3>6 DEF ChargeRead, TypeOK, ledger, provider
  <2> QED BY <1>2, <2>1, <2>2
<1>3. ASSUME NEW w \in Requests, NEW i \in Invoices, NEW cents \in Cents,
             ManualRead(w, i, cents)
      PROVE  TypeInv'
  <2> DEFINE id == [invoice |-> i, ref |-> w]
             s == At("record", id, cents, invoices[i], NoPayment)
  <2>1. id \in PaymentIds /\ id \notin ProviderIds BY ManualIdIsId
  <2> HIDE DEF id
  <2>2. s \in Session
    BY <2>1 DEF Session, At, Running, Cents, NoPayment, PaymentRow, TypeOK
  <2>3. WellFormed(s) BY <2>1 DEF WellFormed, At, Running
  <2>4. req' = [req EXCEPT ![w] = s] BY <1>3 DEF ManualRead, id
  <2> HIDE DEF s
  <2>5. req' \in [Workers -> Session] /\ \A v \in Workers : WellFormed(req'[v])
    BY <2>2, <2>3, <2>4, MoveTyped DEF Workers
  <2> QED BY <1>3, <2>5 DEF ManualRead, TypeOK, ledger, provider
<1>4. ASSUME NEW w \in Requests, NEW id \in PaymentIds, NEW cents \in Cents,
             RefundRead(w, id, cents) \/ RefundRefused(w, id, cents)
      PROVE  TypeInv'
  <2>1. CASE RefundRefused(w, id, cents)
    BY <2>1, EndTyped DEF RefundRefused, TypeOK, ledger, Workers
  <2>2. CASE RefundRead(w, id, cents)
    <3> DEFINE s == At("refund", id, cents, NoInvoice, payments[id])
    <3>1. s \in Session
      BY DEF Session, At, Running, Cents, NoInvoice, InvoiceRow, TypeOK
    <3>2. WellFormed(s)
      BY <2>2 DEF WellFormed, At, Running, RefundRead, Refundable
    <3>3. req' = [req EXCEPT ![w] = s] BY <2>2 DEF RefundRead
    <3> HIDE DEF s
    <3>4. req' \in [Workers -> Session] /\ \A v \in Workers : WellFormed(req'[v])
      BY <3>1, <3>2, <3>3, MoveTyped DEF Workers
    <3> QED BY <2>2, <3>4 DEF RefundRead, TypeOK, ledger, provider
  <2> QED BY <1>4, <2>1, <2>2
<1>5. ASSUME NEW w \in Deliveries, NEW id \in PaymentIds, Deliver(w, id)
      PROVE  TypeInv'
  <2>1. CASE Recorded(id)
    BY <1>5, <2>1 DEF Deliver, TypeOK, ledger
  <2>2. CASE ~Recorded(id)
    <3> DEFINE s == At("lookup", id, id.ref, invoices[id.invoice], NoPayment)
    <3>1. id \in ProviderIds BY <1>5 DEF Deliver, TypeOK
    <3>2. id.ref \in Cents /\ id.invoice \in Invoices BY <3>1 DEF ProviderIds
    <3>3. s \in Session
      BY <3>2 DEF Session, At, Running, Cents, NoPayment, PaymentRow, TypeOK
    <3>4. WellFormed(s) BY <3>1, <3>2 DEF WellFormed, At, Running
    <3>5. req' = [req EXCEPT ![w] = s] BY <1>5, <2>2 DEF Deliver
    <3> HIDE DEF s
    <3>6. req' \in [Workers -> Session] /\ \A v \in Workers : WellFormed(req'[v])
      BY <3>3, <3>4, <3>5, MoveTyped DEF Workers
    <3> QED BY <1>5, <2>2, <3>6 DEF Deliver, TypeOK, ledger
  <2> QED BY <2>1, <2>2
<1>6. ASSUME NEW id \in PaymentIds, CustomerConfirms(id) PROVE TypeInv'
  BY <1>6 DEF CustomerConfirms, TypeOK, ledger
<1> QED BY <1>0, <1>1, <1>2, <1>3, <1>4, <1>5, <1>6 DEF Next

(* The sessions start idle and the tables hold what close_period issued. *)
LEMMA TypeInit == Init => TypeInv
<1> SUFFICES ASSUME Init PROVE TypeInv
  OBVIOUS
<1>1. req \in [Workers -> Session] /\ \A w \in Workers : WellFormed(req[w])
  BY EndedTyped DEF Init
<1> QED BY <1>1 DEF Init, TypeInv, TypeOK, IssuedInvoice, NoPayment, InvoiceRow, PaymentRow

(* Every state of every behaviour is well typed and well formed. *)
LEMMA TypeInvariant == Spec => []TypeInv
BY TypeInit, TypeStep, PTL DEF Spec

(* Every reachable state of the sessions, the tables and the provider is   *)
(* well typed, whatever the invoices, the requests and the totals.         *)
THEOREM TypeCorrect == Spec => []TypeOK
<1>1. TypeInv => TypeOK BY DEF TypeInv
<1> QED BY <1>1, TypeInvariant, PTL
-----------------------------------------------------------------------------
(***************************************************************************)
(* The inductive invariant.  Its heart is what the version column buys: a  *)
(* row a session has read is either still as it was read, or its version   *)
(* has grown.                                                              *)
(***************************************************************************)

(* The invoice a session has read. *)
InvoiceSnapshot(s) ==
    s.pc \in {"charge", "lookup", "record", "return"} =>
        LET row == invoices[s.id.invoice]
        IN  /\ s.inv.version <= row.version
            /\ s.inv.version = row.version => s.inv = row

(* The payment a refund has read, with room for the refund if it is still  *)
(* current; and once the provider gave the money back, it has given back   *)
(* this amount on top of all the ledger knows of.                          *)
PaymentSnapshot(s) ==
    s.pc \in {"refund", "reload", "return"} =>
        LET row == payments[s.id]
        IN  /\ Recorded(s.id)
            /\ s.pay.version <= row.version
            /\ s.pay.version = row.version =>
                  /\ s.pay = row
                  /\ row.refunded + s.amount <= row.amount
                  /\ s.pc # "refund" => row.refunded + s.amount <= refundedAt[s.id]

(* Whoever is about to record a provider's payment knows it settled. *)
SettledSession(s) ==
    s.pc \in {"lookup", "record"} /\ s.id \in ProviderIds => s.id \in settled

SessionInv(s) == InvoiceSnapshot(s) /\ PaymentSnapshot(s) /\ SettledSession(s)

InvoiceInv(i) ==
    /\ invoices[i].version >= 1
    /\ invoices[i].status # "void"
    /\ invoices[i].status = "paid" <=>
          invoices[i].version > 1 /\ invoices[i].paid >= Total[i]

PaymentInv(id) ==
    LET row == payments[id]
    IN  /\ row.refunded <= refundedAt[id]
        /\ row.refunded <= row.amount
        /\ row.status = "refunded" <=> Recorded(id) /\ row.refunded = row.amount
        /\ Recorded(id) =>
              /\ invoices[id.invoice].version > 1
              /\ id \in ProviderIds => id \in settled /\ row.amount = id.ref

Inv ==
    /\ \A w \in Workers : SessionInv(req[w])
    /\ \A i \in Invoices : InvoiceInv(i)
    /\ \A id \in PaymentIds : PaymentInv(id)

(* Nothing is paid and nobody has read anything: Inv holds. *)
LEMMA InvInit == Init => Inv
BY TotalAssumption, ProviderIdIsId
DEF Init, Inv, SessionInv, InvoiceSnapshot, PaymentSnapshot, SettledSession,
    InvoiceInv, PaymentInv, Recorded, IssuedInvoice, NoPayment, Idle, At

(* A step that writes no row, while the provider only ever settles and     *)
(* refunds more, keeps Inv if the session that moved is still right.       *)
LEMMA NoWriteKeepsInv ==
    ASSUME TypeInv, TypeInv', Inv, UNCHANGED ledger, settled \subseteq settled',
           \A id \in PaymentIds : refundedAt[id] <= refundedAt'[id],
           \A v \in Workers : req'[v] = req[v] \/ SessionInv(req[v])'
    PROVE  Inv'
<1>1. payments' = payments /\ invoices' = invoices BY DEF ledger
<1>2. ASSUME NEW id \in PaymentIds PROVE PaymentInv(id)'
  <2>1. PaymentInv(id) BY DEF Inv
  <2>2. payments[id].refunded \in Nat /\ refundedAt[id] \in Nat /\ refundedAt'[id] \in Nat
    BY DEF TypeInv, TypeOK, PaymentRow
  <2>3. refundedAt[id] <= refundedAt'[id] OBVIOUS
  <2> QED BY <1>1, <2>1, <2>2, <2>3 DEF PaymentInv, Recorded
<1>3. ASSUME NEW v \in Workers PROVE SessionInv(req[v])'
  <2>1. CASE SessionInv(req[v])' BY <2>1
  <2>2. CASE req'[v] = req[v]
    <3>1. SessionInv(req[v]) BY DEF Inv
    <3>2. InvoiceSnapshot(req[v])'
      BY <1>1, <2>2, <3>1 DEF SessionInv, InvoiceSnapshot
    <3>3. SettledSession(req[v])'
      BY <2>2, <3>1 DEF SessionInv, SettledSession
    <3>4. PaymentSnapshot(req[v])'
      <4>1. req[v] \in Session /\ WellFormed(req[v]) BY DEF TypeInv, TypeOK
      <4>2. CASE req[v].pc \in {"refund", "reload", "return"}
        <5>1. req[v].id \in PaymentIds BY <4>1, <4>2 DEF WellFormed, Running
        <5>2. /\ refundedAt[req[v].id] <= refundedAt'[req[v].id]
              /\ refundedAt[req[v].id] \in Nat /\ refundedAt'[req[v].id] \in Nat
              /\ payments[req[v].id].refunded \in Nat
              /\ req[v].amount \in Nat
          BY <4>1, <5>1 DEF TypeInv, TypeOK, PaymentRow, Session
        <5> QED BY <1>1, <2>2, <3>1, <5>1, <5>2 DEF SessionInv, PaymentSnapshot, Recorded
      <4>3. CASE req[v].pc \notin {"refund", "reload", "return"}
        BY <2>2, <4>3 DEF PaymentSnapshot
      <4> QED BY <4>2, <4>3
    <3> QED BY <3>2, <3>3, <3>4 DEF SessionInv
  <2> QED BY <2>1, <2>2
<1>4. ASSUME NEW i \in Invoices PROVE InvoiceInv(i)'
  BY <1>1 DEF Inv, InvoiceInv
<1> QED BY <1>2, <1>3, <1>4 DEF Inv

(* A session that is not in the middle of anything satisfies SessionInv. *)
LEMMA EndedInv ==
    ASSUME NEW v \in Workers, req'[v].pc \notin Running
    PROVE  SessionInv(req[v])'
BY DEF SessionInv, InvoiceSnapshot, PaymentSnapshot, SettledSession, Running

(* Failing or replying without a write keeps Inv. *)
LEMMA EndKeepsInv ==
    ASSUME TypeInv, TypeInv', Inv, NEW w \in Workers, UNCHANGED ledger,
           Fail(w) \/ Reply(w, "succeeded")
    PROVE  Inv'
<1>1. settled' = settled /\ refundedAt' = refundedAt
  BY DEF Fail, Reply, provider
<1>2. \A v \in Workers : v # w => req'[v] = req[v]
  BY DEF Fail, Reply, TypeInv, TypeOK
<1>3. req'[w].pc \notin Running
  BY DEF Fail, Reply, TypeInv, TypeOK, Ended, Idle, At, Running
<1>4. \A id \in PaymentIds : refundedAt[id] <= refundedAt'[id]
  BY <1>1 DEF TypeInv, TypeOK
<1>5. \A v \in Workers : req'[v] = req[v] \/ SessionInv(req[v])'
  BY <1>2, <1>3, EndedInv
<1> QED BY <1>1, <1>4, <1>5, NoWriteKeepsInv

(* A step of one session that writes no row keeps Inv. *)
LEMMA MoveKeepsInv ==
    ASSUME TypeInv, TypeInv', Inv, UNCHANGED ledger, settled \subseteq settled',
           refundedAt' = refundedAt, NEW w \in Workers,
           NEW s, req' = [req EXCEPT ![w] = s], SessionInv(req[w])'
    PROVE  Inv'
<1>1. \A v \in Workers : req'[v] = req[v] \/ SessionInv(req[v])'
  BY DEF TypeInv, TypeOK
<1>2. \A id \in PaymentIds : refundedAt[id] <= refundedAt'[id]
  BY DEF TypeInv, TypeOK
<1> QED BY <1>1, <1>2, NoWriteKeepsInv

(* INSERT payment and UPDATE invoice, from a snapshot that is current. *)
LEMMA RecordKeepsInv ==
    ASSUME TypeInv, TypeInv', Inv, NEW w \in Workers, Record(w)
    PROVE  Inv'
<1> DEFINE id == req[w].id
           i == id.invoice
           a == req[w].amount
<1>1. /\ req[w].pc = "record" /\ ~Recorded(id)
      /\ req[w].inv.version = invoices[i].version
      /\ payments' = [payments EXCEPT ![id] =
              [amount |-> a, refunded |-> 0, status |-> "succeeded", version |-> 1]]
      /\ invoices' = [invoices EXCEPT ![i] = Credited(req[w].inv, i, a)]
      /\ Reply(w, "succeeded")
  BY DEF Record, InvoiceFresh
<1>2. req[w] \in Session /\ WellFormed(req[w]) /\ SessionInv(req[w])
  BY DEF TypeInv, TypeOK, Inv
<1>3. id \in PaymentIds /\ i \in Invoices /\ a \in Nat /\ a > 0
  BY <1>1, <1>2 DEF WellFormed, Running, Cents, PaymentIds
<1>4. req[w].inv = invoices[i]
  BY <1>1, <1>2 DEF SessionInv, InvoiceSnapshot
<1>5. invoices[i] \in InvoiceRow /\ payments[id] \in PaymentRow
  BY <1>3 DEF TypeInv, TypeOK
<1>6. /\ invoices'[i].version = invoices[i].version + 1
      /\ invoices'[i].paid = invoices[i].paid + a
      /\ invoices'[i].status = IF invoices[i].paid + a >= Total[i]
                               THEN "paid" ELSE invoices[i].status
      /\ \A j \in Invoices : j # i => invoices'[j] = invoices[j]
  BY <1>1, <1>3, <1>4 DEF Credited, TypeInv, TypeOK
<1>7. /\ payments'[id] = [amount |-> a, refunded |-> 0,
                          status |-> "succeeded", version |-> 1]
      /\ \A x \in PaymentIds : x # id => payments'[x] = payments[x]
  BY <1>1, <1>3 DEF TypeInv, TypeOK
<1>8. settled' = settled /\ refundedAt' = refundedAt
  BY <1>1 DEF Reply
<1>9. payments[id].version = 0
  BY <1>1, <1>5 DEF Recorded, PaymentRow
<1> HIDE DEF id, i, a
<1>10. ASSUME NEW j \in Invoices PROVE InvoiceInv(j)'
  <2>1. InvoiceInv(j) BY DEF Inv
  <2>2. CASE j # i BY <1>6, <2>1, <2>2 DEF InvoiceInv
  <2>3. CASE j = i
    <3>1. Total[i] \in Nat BY <1>3, TotalAssumption
    <3> QED BY <1>3, <1>5, <1>6, <2>1, <2>3, <3>1 DEF InvoiceInv, InvoiceRow
  <2> QED BY <2>2, <2>3
<1>11. ASSUME NEW x \in PaymentIds PROVE PaymentInv(x)'
  <2>1. PaymentInv(x) BY DEF Inv
  <2>2. x.invoice \in Invoices BY DEF PaymentIds
  <2>3. invoices'[x.invoice].version >= invoices[x.invoice].version
    BY <1>5, <1>6, <2>2 DEF TypeInv, TypeOK, InvoiceRow
  <2>4. CASE x # id
    <3>1. invoices[x.invoice].version \in Nat /\ invoices'[x.invoice].version \in Nat
      BY <2>2 DEF TypeInv, TypeOK, InvoiceRow
    <3> QED BY <1>7, <1>8, <2>1, <2>3, <2>4, <3>1 DEF PaymentInv, Recorded
  <2>5. CASE x = id
    <3>1. invoices'[i].version > 1
      <4>1. invoices[i].version >= 1 BY <1>3 DEF Inv, InvoiceInv
      <4> QED BY <4>1, <1>5, <1>6 DEF InvoiceRow
    <3>2. id \in ProviderIds => id \in settled' /\ a = id.ref
      BY <1>1, <1>2, <1>8 DEF SessionInv, SettledSession, WellFormed, id, a
    <3>3. refundedAt'[id] \in Nat BY <1>3 DEF TypeInv, TypeOK
    <3> QED BY <1>3, <1>7, <2>5, <3>1, <3>2, <3>3 DEF PaymentInv, Recorded, i
  <2> QED BY <2>4, <2>5
<1>12. ASSUME NEW v \in Workers PROVE SessionInv(req[v])'
  <2>1. CASE v = w
    <3>1. req'[w].pc \notin Running
      BY <1>1 DEF Reply, TypeInv, TypeOK, Ended, Idle, At, Running
    <3> QED BY <2>1, <3>1, EndedInv
  <2>2. CASE v # w
    <3>1. req'[v] = req[v] BY <1>1, <2>2 DEF Reply, TypeInv, TypeOK
    <3>2. SessionInv(req[v]) /\ req[v] \in Session /\ WellFormed(req[v])
      BY DEF Inv, TypeInv, TypeOK
    <3>3. InvoiceSnapshot(req[v])'
      <4>1. CASE req[v].pc \in {"charge", "lookup", "record", "return"}
        <5>1. req[v].id.invoice \in Invoices
          BY <3>2, <4>1 DEF WellFormed, Running, PaymentIds
        <5>2. req[v].inv.version \in Nat /\ invoices[req[v].id.invoice].version \in Nat
          BY <3>2, <5>1 DEF Session, InvoiceRow, TypeInv, TypeOK
        <5>3. CASE req[v].id.invoice = i
          BY <1>6, <3>1, <3>2, <4>1, <5>2, <5>3 DEF SessionInv, InvoiceSnapshot
        <5>4. CASE req[v].id.invoice # i
          BY <1>6, <3>1, <3>2, <4>1, <5>1, <5>4 DEF SessionInv, InvoiceSnapshot
        <5> QED BY <5>3, <5>4
      <4>2. CASE req[v].pc \notin {"charge", "lookup", "record", "return"}
        BY <3>1, <4>2 DEF InvoiceSnapshot
      <4> QED BY <4>1, <4>2
    <3>4. PaymentSnapshot(req[v])'
      <4>1. CASE req[v].pc \in {"refund", "reload", "return"}
        <5>1. req[v].id \in PaymentIds /\ Recorded(req[v].id)
          BY <3>2, <4>1 DEF WellFormed, Running, SessionInv, PaymentSnapshot
        <5>2. req[v].id # id BY <1>9, <5>1 DEF Recorded
        <5> QED BY <1>7, <1>8, <3>1, <3>2, <5>1, <5>2
            DEF SessionInv, PaymentSnapshot, Recorded
      <4>2. CASE req[v].pc \notin {"refund", "reload", "return"}
        BY <3>1, <4>2 DEF PaymentSnapshot
      <4> QED BY <4>1, <4>2
    <3>5. SettledSession(req[v])'
      BY <1>8, <3>1, <3>2 DEF SessionInv, SettledSession
    <3> QED BY <3>3, <3>4, <3>5 DEF SessionInv
  <2> QED BY <2>1, <2>2
<1> QED BY <1>10, <1>11, <1>12 DEF Inv

(* UPDATE payment and UPDATE invoice, both from snapshots that are current. *)
LEMMA RefundRecordKeepsInv ==
    ASSUME TypeInv, TypeInv', Inv, NEW w \in Workers, RefundRecord(w)
    PROVE  Inv'
<1> DEFINE id == req[w].id
           i == id.invoice
           a == req[w].amount
           left == IF invoices[i].paid > a THEN invoices[i].paid - a ELSE 0
<1>1. /\ req[w].pc = "return"
      /\ req[w].pay.version = payments[id].version
      /\ req[w].inv.version = invoices[i].version
      /\ payments' = [payments EXCEPT ![id] = Returned(req[w].pay, a)]
      /\ invoices' = [invoices EXCEPT ![i] = Debited(req[w].inv, i, a)]
      /\ req' = [req EXCEPT ![w] = Ended("pending", NoId)]
      /\ settled' = settled /\ refundedAt' = refundedAt
  BY DEF RefundRecord, InvoiceFresh, PaymentFresh, provider
<1>2. req[w] \in Session /\ WellFormed(req[w]) /\ SessionInv(req[w])
  BY DEF TypeInv, TypeOK, Inv
<1>3. id \in PaymentIds /\ i \in Invoices /\ a \in Nat /\ a > 0
  BY <1>1, <1>2 DEF WellFormed, Running, Cents, PaymentIds
<1>4. req[w].inv = invoices[i]
  BY <1>1, <1>2 DEF SessionInv, InvoiceSnapshot
<1>5. /\ req[w].pay = payments[id]
      /\ Recorded(id)
      /\ payments[id].refunded + a <= payments[id].amount
      /\ payments[id].refunded + a <= refundedAt[id]
  BY <1>1, <1>2 DEF SessionInv, PaymentSnapshot
<1>6. invoices[i] \in InvoiceRow /\ payments[id] \in PaymentRow
  BY <1>3 DEF TypeInv, TypeOK
<1>7. /\ invoices'[i].version = invoices[i].version + 1
      /\ invoices'[i].paid = left
      /\ invoices'[i].status = IF left < Total[i] THEN "open" ELSE invoices[i].status
      /\ \A j \in Invoices : j # i => invoices'[j] = invoices[j]
  BY <1>1, <1>3, <1>4 DEF Debited, TypeInv, TypeOK
<1>8. /\ payments'[id].amount = payments[id].amount
      /\ payments'[id].refunded = payments[id].refunded + a
      /\ payments'[id].status = IF payments[id].refunded + a = payments[id].amount
                                THEN "refunded" ELSE payments[id].status
      /\ payments'[id].version = payments[id].version + 1
      /\ \A x \in PaymentIds : x # id => payments'[x] = payments[x]
  BY <1>1, <1>3, <1>5 DEF Returned, TypeInv, TypeOK
<1>9. left \in Nat /\ left <= invoices[i].paid
  BY <1>3, <1>6 DEF InvoiceRow
<1> HIDE DEF id, i, a, left
<1>10. ASSUME NEW j \in Invoices PROVE InvoiceInv(j)'
  <2>1. InvoiceInv(j) BY DEF Inv
  <2>2. CASE j # i BY <1>7, <2>1, <2>2 DEF InvoiceInv
  <2>3. CASE j = i
    <3>1. Total[i] \in Nat BY <1>3, TotalAssumption
    <3>2. invoices[i].version > 1
      BY <1>3, <1>5 DEF Inv, PaymentInv, i
    <3> QED BY <1>3, <1>6, <1>7, <1>9, <2>1, <2>3, <3>1, <3>2
        DEF InvoiceInv, InvoiceRow
  <2> QED BY <2>2, <2>3
<1>11. ASSUME NEW x \in PaymentIds PROVE PaymentInv(x)'
  <2>1. PaymentInv(x) BY DEF Inv
  <2>2. x.invoice \in Invoices BY DEF PaymentIds
  <2>3. invoices'[x.invoice].version >= invoices[x.invoice].version
    BY <1>6, <1>7, <2>2 DEF TypeInv, TypeOK, InvoiceRow
  <2>4. invoices[x.invoice].version \in Nat /\ invoices'[x.invoice].version \in Nat
    BY <2>2 DEF TypeInv, TypeOK, InvoiceRow
  <2>5. CASE x # id
    BY <1>1, <1>8, <2>1, <2>3, <2>4, <2>5 DEF PaymentInv, Recorded
  <2>6. CASE x = id
    <3>1. refundedAt'[id] = refundedAt[id] /\ settled' = settled BY <1>1
    <3>2. payments[id].version \in Nat /\ payments[id].version > 0
      BY <1>5, <1>6 DEF Recorded, PaymentRow
    <3>3. payments[id].refunded \in Nat /\ payments[id].amount \in Nat
      BY <1>6 DEF PaymentRow
    <3>4. payments[id].status # "refunded"
      BY <1>3, <1>5, <2>1, <2>6, <3>3 DEF PaymentInv
    <3>5. payments'[id].version > 0 BY <1>8, <3>2
    <3> QED BY <1>3, <1>5, <1>8, <2>1, <2>3, <2>4, <2>6, <3>1, <3>3, <3>4, <3>5
        DEF PaymentInv, Recorded
  <2> QED BY <2>5, <2>6
<1>12. ASSUME NEW v \in Workers PROVE SessionInv(req[v])'
  <2>1. CASE v = w
    <3>1. req'[w].pc \notin Running
      BY <1>1 DEF TypeInv, TypeOK, Ended, At, Running
    <3> QED BY <2>1, <3>1, EndedInv
  <2>2. CASE v # w
    <3>1. req'[v] = req[v] BY <1>1, <2>2 DEF TypeInv, TypeOK
    <3>2. SessionInv(req[v]) /\ req[v] \in Session /\ WellFormed(req[v])
      BY DEF Inv, TypeInv, TypeOK
    <3>3. InvoiceSnapshot(req[v])'
      <4>1. CASE req[v].pc \in {"charge", "lookup", "record", "return"}
        <5>1. req[v].id.invoice \in Invoices
          BY <3>2, <4>1 DEF WellFormed, Running, PaymentIds
        <5>2. req[v].inv.version \in Nat /\ invoices[req[v].id.invoice].version \in Nat
          BY <3>2, <5>1 DEF Session, InvoiceRow, TypeInv, TypeOK
        <5>3. CASE req[v].id.invoice = i
          BY <1>7, <3>1, <3>2, <4>1, <5>2, <5>3 DEF SessionInv, InvoiceSnapshot
        <5>4. CASE req[v].id.invoice # i
          BY <1>7, <3>1, <3>2, <4>1, <5>1, <5>4 DEF SessionInv, InvoiceSnapshot
        <5> QED BY <5>3, <5>4
      <4>2. CASE req[v].pc \notin {"charge", "lookup", "record", "return"}
        BY <3>1, <4>2 DEF InvoiceSnapshot
      <4> QED BY <4>1, <4>2
    <3>4. PaymentSnapshot(req[v])'
      <4>1. CASE req[v].pc \in {"refund", "reload", "return"}
        <5>1. req[v].id \in PaymentIds BY <3>2, <4>1 DEF WellFormed, Running
        <5>2. req[v].pay.version \in Nat /\ payments[req[v].id].version \in Nat
          BY <3>2, <5>1 DEF Session, PaymentRow, TypeInv, TypeOK
        <5>3. CASE req[v].id = id
          BY <1>8, <3>1, <3>2, <4>1, <5>2, <5>3
          DEF SessionInv, PaymentSnapshot, Recorded
        <5>4. CASE req[v].id # id
          BY <1>1, <1>8, <3>1, <3>2, <4>1, <5>1, <5>4
          DEF SessionInv, PaymentSnapshot, Recorded
        <5> QED BY <5>3, <5>4
      <4>2. CASE req[v].pc \notin {"refund", "reload", "return"}
        BY <3>1, <4>2 DEF PaymentSnapshot
      <4> QED BY <4>1, <4>2
    <3>5. SettledSession(req[v])'
      BY <1>1, <3>1, <3>2 DEF SessionInv, SettledSession
    <3> QED BY <3>3, <3>4, <3>5 DEF SessionInv
  <2> QED BY <2>1, <2>2
<1> QED BY <1>10, <1>11, <1>12 DEF Inv

(* Every step keeps Inv. *)
LEMMA InvStep == TypeInv /\ TypeInv' /\ Inv /\ [Next]_vars => Inv'
<1> SUFFICES ASSUME TypeInv, TypeInv', Inv, [Next]_vars PROVE Inv'
  OBVIOUS
<1>t. TypeOK BY DEF TypeInv
<1>n. \A id \in PaymentIds : refundedAt[id] <= refundedAt[id]
  BY <1>t DEF TypeOK
<1>0. CASE UNCHANGED vars
  BY <1>0, <1>n, NoWriteKeepsInv DEF vars, ledger
<1>1. ASSUME NEW w \in Workers, Proceed(w) \/ Abort(w) PROVE Inv'
  <2>s. req[w] \in Session /\ WellFormed(req[w]) /\ SessionInv(req[w])
    BY DEF TypeInv, TypeOK, Inv
  <2>f. CASE Fail(w) /\ UNCHANGED ledger
    BY <2>f, EndKeepsInv
  <2>1. CASE ChargeSettles(w)
    <3>1. /\ req' = [req EXCEPT ![w] = [req[w] EXCEPT !.pc = "lookup"]]
          /\ req[w].pc = "charge" /\ req[w].id \in settled'
          /\ UNCHANGED ledger /\ settled \subseteq settled' /\ refundedAt' = refundedAt
      BY <2>1 DEF ChargeSettles
    <3>2. req'[w] = [req[w] EXCEPT !.pc = "lookup"] BY <3>1, <1>t DEF TypeOK
    <3>3. SessionInv(req[w])'
      BY <2>s, <3>1, <3>2
      DEF SessionInv, InvoiceSnapshot, PaymentSnapshot, SettledSession, Session, ledger
    <3> QED BY <3>1, <3>3, MoveKeepsInv
  <2>2. CASE ChargeNeedsAction(w)
    <3>1. req'[w].pc \notin Running
      BY <2>2, <1>t DEF ChargeNeedsAction, Ended, At, Running, TypeOK
    <3>2. SessionInv(req[w])' BY <3>1, EndedInv
    <3> QED BY <2>2, <3>2, MoveKeepsInv DEF ChargeNeedsAction
  <2>3. CASE Lookup(w)
    <3>1. CASE Recorded(req[w].id) BY <2>3, <3>1, EndKeepsInv DEF Lookup
    <3>2. CASE ~Recorded(req[w].id)
      <4>1. /\ req' = [req EXCEPT ![w] = [req[w] EXCEPT !.pc = "record"]]
            /\ req[w].pc = "lookup"
            /\ UNCHANGED ledger /\ settled' = settled /\ refundedAt' = refundedAt
        BY <2>3, <3>2 DEF Lookup, provider
      <4>2. req'[w] = [req[w] EXCEPT !.pc = "record"] BY <4>1, <1>t DEF TypeOK
      <4>3. SessionInv(req[w])'
        BY <2>s, <4>1, <4>2
        DEF SessionInv, InvoiceSnapshot, PaymentSnapshot, SettledSession, Session, ledger
      <4> QED BY <4>1, <4>3, MoveKeepsInv
    <3> QED BY <3>1, <3>2
  <2>4. CASE Record(w) BY <2>4, RecordKeepsInv
  <2>5. CASE ProviderRefunds(w)
    <3> DEFINE id == req[w].id
    <3>1. /\ req' = [req EXCEPT ![w] = [req[w] EXCEPT !.pc = "reload"]]
          /\ req[w].pc = "refund"
          /\ UNCHANGED ledger /\ settled' = settled
          /\ refundedAt' = [refundedAt EXCEPT ![id] = refundedAt[id] + req[w].amount]
      BY <2>5 DEF ProviderRefunds
    <3>2. req'[w] = [req[w] EXCEPT !.pc = "reload"] BY <3>1, <1>t DEF TypeOK
    <3>3. id \in PaymentIds /\ req[w].amount \in Nat
      BY <2>s, <3>1 DEF WellFormed, Running, Session
    <3>4. refundedAt'[id] = refundedAt[id] + req[w].amount /\ refundedAt[id] \in Nat
      BY <3>1, <3>3, <1>t DEF TypeOK
    <3>5. \A x \in PaymentIds : refundedAt[x] <= refundedAt'[x]
      BY <3>1, <3>3, <3>4, <1>t DEF TypeOK
    <3>6. payments[id].refunded <= refundedAt[id] /\ payments[id].refunded \in Nat
      BY <3>3, <1>t DEF Inv, PaymentInv, TypeOK, PaymentRow
    <3>7. SessionInv(req[w])'
      <4>1. InvoiceSnapshot(req[w])' /\ SettledSession(req[w])'
        BY <2>s, <3>2 DEF InvoiceSnapshot, SettledSession, Session
      <4>2. PaymentSnapshot(req[w])'
        <5>1. /\ req'[w].id = id /\ req'[w].amount = req[w].amount
              /\ req'[w].pay = req[w].pay /\ payments' = payments
          BY <2>s, <3>1, <3>2 DEF Session, ledger
        <5>2. payments[id].refunded + req[w].amount <= refundedAt'[id]
          BY <3>3, <3>4, <3>6
        <5>3. PaymentSnapshot(req[w]) BY <2>s DEF SessionInv
        <5> HIDE DEF id
        <5> QED BY <3>1, <5>1, <5>2, <5>3 DEF PaymentSnapshot, Recorded, id
      <4> QED BY <4>1, <4>2 DEF SessionInv
    <3>8. \A v \in Workers : req'[v] = req[v] \/ SessionInv(req[v])'
      BY <3>1, <3>7, <1>t DEF TypeOK
    <3> QED BY <3>1, <3>5, <3>8, NoWriteKeepsInv
  <2>6. CASE RefundLoadsInvoice(w)
    <3> DEFINE i == req[w].id.invoice
               s == [req[w] EXCEPT !.pc = "return", !.inv = invoices[i]]
    <3>1. /\ req' = [req EXCEPT ![w] = s]
          /\ req[w].pc = "reload"
          /\ UNCHANGED ledger /\ settled' = settled /\ refundedAt' = refundedAt
      BY <2>6, <1>t DEF RefundLoadsInvoice, provider, TypeOK
    <3>2. /\ req'[w].pc = "return" /\ req'[w].inv = invoices[i]
          /\ req'[w].id = req[w].id /\ req'[w].amount = req[w].amount
          /\ req'[w].pay = req[w].pay
      BY <2>s, <3>1, <1>t DEF TypeOK, Session
    <3>3. i \in Invoices BY <2>s, <3>1 DEF WellFormed, Running, PaymentIds
    <3>4. InvoiceSnapshot(req[w])'
      BY <3>1, <3>2, <3>3, <1>t DEF InvoiceSnapshot, ledger, TypeOK, InvoiceRow
    <3>5. PaymentSnapshot(req[w])' /\ SettledSession(req[w])'
      BY <2>s, <3>1, <3>2 DEF SessionInv, PaymentSnapshot, SettledSession, ledger, Recorded
    <3> QED BY <3>1, <3>4, <3>5, MoveKeepsInv DEF SessionInv
  <2>7. CASE RefundRecord(w) BY <2>7, RefundRecordKeepsInv
  <2> QED
    BY <1>1, <2>f, <2>1, <2>2, <2>3, <2>4, <2>5, <2>6, <2>7
    DEF Proceed, Abort, ChargeDeclined, RecordConflict, ProviderRefundFails,
        RefundConflict
<1>2. ASSUME NEW w \in Requests, NEW i \in Invoices,
             ChargeRead(w, i) \/ ChargeRefused(w, i)
      PROVE  Inv'
  <2>1. CASE ChargeRefused(w, i)
    BY <2>1, EndKeepsInv DEF ChargeRefused, Workers
  <2>2. CASE ChargeRead(w, i)
    <3> DEFINE due == AmountDue(i, invoices[i])
    <3>1. /\ req' = [req EXCEPT ![w] =
                       At("charge", StableId(i, due), due, invoices[i], NoPayment)]
          /\ UNCHANGED ledger /\ settled' = settled /\ refundedAt' = refundedAt
      BY <2>2 DEF ChargeRead, provider
    <3>2. /\ req'[w].pc = "charge" /\ req'[w].inv = invoices[i]
          /\ req'[w].id.invoice = i
      BY <3>1, <1>t DEF TypeOK, At, StableId, Workers
    <3>3. SessionInv(req[w])'
      BY <3>1, <3>2, <1>t
      DEF SessionInv, InvoiceSnapshot, PaymentSnapshot, SettledSession, ledger,
          TypeOK, InvoiceRow
    <3> QED BY <3>1, <3>3, MoveKeepsInv DEF Workers
  <2> QED BY <1>2, <2>1, <2>2
<1>3. ASSUME NEW w \in Requests, NEW i \in Invoices, NEW cents \in Cents,
             ManualRead(w, i, cents)
      PROVE  Inv'
  <2> DEFINE id == [invoice |-> i, ref |-> w]
  <2>1. /\ req' = [req EXCEPT ![w] = At("record", id, cents, invoices[i], NoPayment)]
        /\ UNCHANGED ledger /\ settled' = settled /\ refundedAt' = refundedAt
    BY <1>3 DEF ManualRead, provider
  <2>2. /\ req'[w].pc = "record" /\ req'[w].inv = invoices[i]
        /\ req'[w].id = id /\ id.invoice = i
    BY <2>1, <1>t DEF TypeOK, At, Workers
  <2>3. id \notin ProviderIds BY ManualIdIsId
  <2>4. SessionInv(req[w])'
    BY <2>1, <2>2, <2>3, <1>t
    DEF SessionInv, InvoiceSnapshot, PaymentSnapshot, SettledSession, ledger,
        TypeOK, InvoiceRow
  <2> QED BY <2>1, <2>4, MoveKeepsInv DEF Workers
<1>4. ASSUME NEW w \in Requests, NEW id \in PaymentIds, NEW cents \in Cents,
             RefundRead(w, id, cents) \/ RefundRefused(w, id, cents)
      PROVE  Inv'
  <2>1. CASE RefundRefused(w, id, cents)
    BY <2>1, EndKeepsInv DEF RefundRefused, Workers
  <2>2. CASE RefundRead(w, id, cents)
    <3>1. /\ req' = [req EXCEPT ![w] = At("refund", id, cents, NoInvoice, payments[id])]
          /\ UNCHANGED ledger /\ settled' = settled /\ refundedAt' = refundedAt
          /\ Recorded(id) /\ cents <= payments[id].amount - payments[id].refunded
      BY <2>2 DEF RefundRead, provider, Refundable
    <3>2. /\ req'[w].pc = "refund" /\ req'[w].id = id /\ req'[w].pay = payments[id]
          /\ req'[w].amount = cents
      BY <3>1, <1>t DEF TypeOK, At, Workers
    <3>3. payments[id].refunded + cents <= payments[id].amount
      BY <3>1, <1>t DEF TypeOK, PaymentRow, Cents
    <3>4. SessionInv(req[w])'
      BY <3>1, <3>2, <3>3, <1>t
      DEF SessionInv, InvoiceSnapshot, PaymentSnapshot, SettledSession, ledger,
          TypeOK, PaymentRow, Recorded
    <3> QED BY <3>1, <3>4, MoveKeepsInv DEF Workers
  <2> QED BY <1>4, <2>1, <2>2
<1>5. ASSUME NEW w \in Deliveries, NEW id \in PaymentIds, Deliver(w, id)
      PROVE  Inv'
  <2>1. CASE Recorded(id)
    BY <1>5, <2>1, <1>n, NoWriteKeepsInv DEF Deliver
  <2>2. CASE ~Recorded(id)
    <3>1. /\ req' = [req EXCEPT ![w] =
                       At("lookup", id, id.ref, invoices[id.invoice], NoPayment)]
          /\ UNCHANGED ledger /\ settled' = settled /\ refundedAt' = refundedAt
          /\ id \in callbacks
      BY <1>5, <2>2 DEF Deliver
    <3>2. /\ req'[w].pc = "lookup" /\ req'[w].id = id
          /\ req'[w].inv = invoices[id.invoice]
      BY <3>1, <1>t DEF TypeOK, At, Workers
    <3>3. id \in settled' /\ id.invoice \in Invoices
      BY <3>1, <1>t DEF TypeOK, PaymentIds
    <3>4. SessionInv(req[w])'
      BY <3>1, <3>2, <3>3, <1>t
      DEF SessionInv, InvoiceSnapshot, PaymentSnapshot, SettledSession, ledger,
          TypeOK, InvoiceRow
    <3> QED BY <3>1, <3>4, MoveKeepsInv DEF Workers
  <2> QED BY <2>1, <2>2
<1>6. ASSUME NEW id \in PaymentIds, CustomerConfirms(id) PROVE Inv'
  BY <1>6, <1>n, NoWriteKeepsInv DEF CustomerConfirms
<1> QED BY <1>0, <1>1, <1>2, <1>3, <1>4, <1>5, <1>6 DEF Next

(* Every state of every behaviour satisfies Inv. *)
LEMMA Invariance == Spec => [](TypeInv /\ Inv)
BY TypeInit, TypeStep, InvInit, InvStep, PTL DEF Spec

-----------------------------------------------------------------------------
(* However charges, payments and refunds of an invoice interleave, it is   *)
(* PAID exactly when its balance covers the total (record_payment and      *)
(* refund in services/billing.py).                                         *)
THEOREM StatusCorrect == Spec => []StatusTracksBalance
<1>1. Inv => StatusTracksBalance BY DEF Inv, InvoiceInv, StatusTracksBalance
<1> QED BY <1>1, Invariance, PTL

(* No payment is ever recorded under a provider id that did not settle for *)
(* that amount (charge_invoice and _apply_settlement).                     *)
THEOREM OnlySettledRecorded == Spec => []RecordedWasSettled
<1>1. Inv => RecordedWasSettled
  BY ProviderIdIsId DEF Inv, PaymentInv, RecordedWasSettled
<1> QED BY <1>1, Invariance, PTL

(* The ledger never claims a refund the provider did not make, nor more    *)
(* than was paid (refund_payment and PaymentService.refund).               *)
THEOREM RefundsAreBacked == Spec => []RefundsBacked
<1>1. Inv => RefundsBacked BY DEF Inv, PaymentInv, RefundsBacked
<1> QED BY <1>1, Invariance, PTL

(* Only a commit of record_payment or refund writes rows. *)
LEMMA WhoWritesLedger ==
    ASSUME [Next]_vars
    PROVE  \/ payments' = payments /\ invoices' = invoices
           \/ \E w \in Workers : Record(w) \/ RefundRecord(w)
BY DEF Next, vars, ledger, Proceed, Abort, Fail, Reply, ChargeRead, ChargeRefused,
       ChargeSettles, ChargeNeedsAction, ChargeDeclined, CustomerConfirms, Lookup,
       RecordConflict, ManualRead, RefundRead, RefundRefused, ProviderRefunds,
       ProviderRefundFails, RefundLoadsInvoice, RefundConflict, Deliver

(* A payment row is never removed or re-priced and a recorded refund never *)
(* undone, however sessions with stale reads overlap.                      *)
THEOREM AppendOnly == Spec => LedgerIsAppendOnly
<1> DEFINE Step == \A id \in PaymentIds : Recorded(id) =>
                      /\ payments'[id].amount = payments[id].amount
                      /\ payments'[id].refunded >= payments[id].refunded
                      /\ payments'[id].version >= payments[id].version
<1>1. TypeInv /\ Inv /\ [Next]_vars => [Step]_vars
  <2> SUFFICES ASSUME TypeInv, Inv, [Next]_vars, NEW id \in PaymentIds, Recorded(id)
               PROVE  /\ payments'[id].amount = payments[id].amount
                      /\ payments'[id].refunded >= payments[id].refunded
                      /\ payments'[id].version >= payments[id].version
    OBVIOUS
  <2>1. payments[id] \in PaymentRow BY DEF TypeInv, TypeOK
  <2>2. CASE payments' = payments BY <2>1, <2>2 DEF PaymentRow
  <2>3. ASSUME NEW w \in Workers, Record(w)
        PROVE  payments'[id] = payments[id]
    BY <2>3 DEF Record, TypeInv, TypeOK
  <2>4. ASSUME NEW w \in Workers, RefundRecord(w)
        PROVE  \/ payments'[id] = payments[id]
               \/ /\ payments'[id].amount = payments[id].amount
                  /\ payments'[id].refunded >= payments[id].refunded
                  /\ payments'[id].version >= payments[id].version
    <3>1. CASE req[w].id # id BY <2>4, <3>1 DEF RefundRecord, TypeInv, TypeOK
    <3>2. CASE req[w].id = id
      <4>1. req[w] \in Session /\ PaymentSnapshot(req[w])
        BY DEF TypeInv, TypeOK, Inv, SessionInv
      <4>2. req[w].pay = payments[id]
        BY <2>4, <3>2, <4>1 DEF RefundRecord, PaymentFresh, PaymentSnapshot
      <4>3. payments'[id] = Returned(payments[id], req[w].amount)
        BY <2>4, <3>2, <4>2 DEF RefundRecord, TypeInv, TypeOK
      <4>4. req[w].amount \in Nat BY <4>1 DEF Session
      <4> QED BY <2>1, <4>3, <4>4 DEF Returned, PaymentRow
    <3> QED BY <3>1, <3>2
  <2> QED BY <2>1, <2>2, <2>3, <2>4, WhoWritesLedger DEF PaymentRow
<1> QED BY <1>1, Invariance, PTL DEF Spec, LedgerIsAppendOnly
-----------------------------------------------------------------------------
(* What is left of the payments of an invoice, and the sum of it. *)
Ids(i) == {id \in PaymentIds : id.invoice = i}
Net(rows, i) == [id \in Ids(i) |-> rows[id].amount - rows[id].refunded]

(* Collected is that sum. *)
LEMMA CollectedIsSum ==
    ASSUME NEW rows, NEW i, IsFiniteSet(Ids(i)), Net(rows, i) \in [Ids(i) -> Nat]
    PROVE  \E g \in [SUBSET Ids(i) -> Nat] :
               IsSum(g, Net(rows, i), Ids(i)) /\ Collected(rows, i) = g[Ids(i)]
<1> DEFINE S == Ids(i)
           Adds(g) == g = [s \in SUBSET S |->
                             IF s = {} THEN 0
                             ELSE LET x == CHOOSE x \in s : TRUE
                                  IN  (rows[x].amount - rows[x].refunded) + g[s \ {x}]]
           iter == CHOOSE g : Adds(g)
<1>1. PICK g \in [SUBSET S -> Nat] : IsSum(g, Net(rows, i), S)
  BY SumExists
<1>2. ASSUME NEW h, NEW s \in SUBSET S
      PROVE  SumStep(Net(rows, i), h, s) =
                IF s = {} THEN 0
                ELSE LET x == CHOOSE x \in s : TRUE
                     IN  (rows[x].amount - rows[x].refunded) + h[s \ {x}]
  <2>1. s # {} => (CHOOSE x \in s : TRUE) \in s
    OBVIOUS
  <2> QED BY <2>1 DEF SumStep, Chosen, Net
<1>3. Adds(g)
  BY <1>1, <1>2 DEF IsSum
<1>4. Adds(iter)
  BY <1>3
<1>5. Collected(rows, i) = iter[S]
  BY DEF Collected, MapThenSumSet, MapThenFoldSet, Ids
<1> HIDE DEF iter
<1>6. IsSum(iter, Net(rows, i), S)
  <2>1. /\ iter = [s \in SUBSET S |-> iter[s]]
        /\ \A s \in SUBSET S :
             iter[s] = IF s = {} THEN 0
                       ELSE LET x == CHOOSE x \in s : TRUE
                            IN  (rows[x].amount - rows[x].refunded) + iter[s \ {x}]
    BY <1>4
  <2>2. \A s \in SUBSET S : iter[s] = SumStep(Net(rows, i), iter, s)
    BY <1>2, <2>1
  <2>3. iter = [s \in SUBSET S |-> SumStep(Net(rows, i), iter, s)]
    BY <2>1, <2>2
  <2> QED BY <2>3 DEF IsSum
<1>7. iter \in [SUBSET S -> Nat]
  <2>1. ASSUME NEW T \in SUBSET S PROVE iter[T] = g[T]
    BY <1>1, <1>6, SumLocal
  <2>2. iter = [s \in SUBSET S |-> iter[s]]
    BY <1>4
  <2> QED BY <2>1, <2>2
<1> QED BY <1>5, <1>6, <1>7

(* What an invoice collected does not change when its payments do not. *)
LEMMA CollectedSame ==
    ASSUME NEW rows, NEW next, NEW i, IsFiniteSet(Ids(i)),
           Net(rows, i) \in [Ids(i) -> Nat],
           \A x \in Ids(i) : next[x] = rows[x]
    PROVE  Collected(next, i) = Collected(rows, i)
<1>1. Net(next, i) = Net(rows, i)
  BY DEF Net
<1>2. PICK g \in [SUBSET Ids(i) -> Nat] :
        IsSum(g, Net(rows, i), Ids(i)) /\ Collected(rows, i) = g[Ids(i)]
  BY CollectedIsSum
<1>3. PICK h \in [SUBSET Ids(i) -> Nat] :
        IsSum(h, Net(rows, i), Ids(i)) /\ Collected(next, i) = h[Ids(i)]
  BY <1>1, CollectedIsSum
<1>4. g[Ids(i)] = h[Ids(i)]
  BY <1>2, <1>3, SumLocal
<1> QED BY <1>2, <1>3, <1>4

(* When one payment of an invoice changes, what it collected changes by    *)
(* as much.                                                                *)
LEMMA CollectedMoves ==
    ASSUME NEW rows, NEW next, NEW i, IsFiniteSet(Ids(i)),
           Net(rows, i) \in [Ids(i) -> Nat], Net(next, i) \in [Ids(i) -> Nat],
           NEW y \in Ids(i), \A x \in Ids(i) \ {y} : next[x] = rows[x]
    PROVE  \E r \in Nat : /\ Collected(rows, i) = Net(rows, i)[y] + r
                          /\ Collected(next, i) = Net(next, i)[y] + r
<1>1. PICK g \in [SUBSET Ids(i) -> Nat] :
        IsSum(g, Net(rows, i), Ids(i)) /\ Collected(rows, i) = g[Ids(i)]
  BY CollectedIsSum
<1>2. PICK h \in [SUBSET Ids(i) -> Nat] :
        IsSum(h, Net(next, i), Ids(i)) /\ Collected(next, i) = h[Ids(i)]
  BY CollectedIsSum
<1>3. \A x \in Ids(i) \ {y} : Net(rows, i)[x] = Net(next, i)[x]
  BY DEF Net
<1>4. Shifts(g, Net(rows, i), h, Net(next, i), Ids(i), y)
  BY <1>1, <1>2, <1>3, SumShifts, Zenon
<1> QED BY <1>1, <1>2, <1>4 DEF Shifts

(* An invoice without payments has collected nothing. *)
LEMMA CollectedNothing ==
    ASSUME NEW rows, NEW i, IsFiniteSet(Ids(i)),
           \A x \in Ids(i) : rows[x].amount - rows[x].refunded = 0
    PROVE  Collected(rows, i) = 0
<1> DEFINE zero == [s \in SUBSET Ids(i) |-> 0]
<1>1. Net(rows, i) \in [Ids(i) -> Nat] /\ \A x \in Ids(i) : Net(rows, i)[x] = 0
  BY DEF Net
<1>2. PICK g \in [SUBSET Ids(i) -> Nat] :
        IsSum(g, Net(rows, i), Ids(i)) /\ Collected(rows, i) = g[Ids(i)]
  BY <1>1, CollectedIsSum
<1>3. ASSUME NEW s \in SUBSET Ids(i) PROVE SumStep(Net(rows, i), zero, s) = 0
  <2>1. CASE s = {}
    BY <2>1 DEF SumStep
  <2>2. CASE s # {}
    <3>1. Chosen(s) \in Ids(i)
      BY <2>2, ChosenMember
    <3>2. Net(rows, i)[Chosen(s)] = 0
      BY <1>1, <3>1
    <3>3. zero[s \ {Chosen(s)}] = 0
      OBVIOUS
    <3> HIDE DEF zero
    <3> QED BY <2>2, <3>2, <3>3 DEF SumStep
  <2> QED BY <2>1, <2>2
<1>4. IsSum(zero, Net(rows, i), Ids(i))
  BY <1>3 DEF IsSum
<1>5. zero[Ids(i)] = 0
  OBVIOUS
<1> HIDE DEF zero
<1>6. g[Ids(i)] = zero[Ids(i)]
  BY <1>1, <1>2, <1>4, SumLocal
<1> QED BY <1>2, <1>5, <1>6

(* An invoice has finitely many payments: one for each amount a provider   *)
(* can settle and one for each request.                                    *)
LEMMA FinitelyManyIds == ASSUME NEW i \in Invoices PROVE IsFiniteSet(Ids(i))
<1> DEFINE R == Cents \cup Requests
           f == [r \in R |-> [invoice |-> i, ref |-> r]]
<1>1. IsFiniteSet(R)
  <2>1. IsFiniteSet(Cents)
    BY CentsAssumption, FS_Interval DEF Cents
  <2> QED BY <2>1, WorkersAssumption, FS_Union
<1>2. \A id \in Ids(i) : id.ref \in R /\ id = f[id.ref]
  BY DEF Ids, PaymentIds
<1>3. \A r \in R : f[r] \in Ids(i)
  BY DEF Ids, PaymentIds
<1>4. f \in Surjection(R, Ids(i))
  BY <1>2, <1>3 DEF Surjection
<1> HIDE DEF f
<1> QED BY <1>1, <1>4, FS_Surjection
-----------------------------------------------------------------------------
(* A row that is not there counts for nothing. *)
BlankRows ==
    \A id \in PaymentIds :
        ~Recorded(id) => payments[id].amount = 0 /\ payments[id].refunded = 0

BalanceInv == BlankRows /\ BalanceIsSumOfPayments

(* What is left of every payment is a number of cents. *)
LEMMA NetIsNat ==
    ASSUME NEW rows \in [PaymentIds -> PaymentRow],
           \A id \in PaymentIds : rows[id].refunded <= rows[id].amount,
           NEW i
    PROVE  Net(rows, i) \in [Ids(i) -> Nat]
<1>1. ASSUME NEW id \in Ids(i) PROVE rows[id].amount - rows[id].refunded \in Nat
  <2>1. id \in PaymentIds
    BY DEF Ids
  <2>2. rows[id].amount \in Nat /\ rows[id].refunded \in Nat
    BY <2>1 DEF PaymentRow
  <2> QED BY <2>1, <2>2
<1> QED BY <1>1 DEF Net

(* Nothing is paid and no payment is recorded. *)
LEMMA BalanceInit == Init => BalanceInv
<1> SUFFICES ASSUME Init PROVE BalanceInv
  OBVIOUS
<1>1. \A id \in PaymentIds : payments[id].amount = 0 /\ payments[id].refunded = 0
  BY DEF Init, NoPayment
<1>2. ASSUME NEW i \in Invoices PROVE invoices[i].paid = Collected(payments, i)
  <2>1. \A x \in Ids(i) : payments[x].amount - payments[x].refunded = 0
    BY <1>1 DEF Ids
  <2>2. Collected(payments, i) = 0
    BY <2>1, FinitelyManyIds, CollectedNothing
  <2> QED BY <2>2 DEF Init, IssuedInvoice
<1> QED BY <1>1, <1>2 DEF BalanceInv, BlankRows, BalanceIsSumOfPayments

(* A commit that changes one payment and the balance of its invoice by as  *)
(* much keeps every balance.                                               *)
LEMMA WriteKeepsBalance ==
    ASSUME TypeInv, TypeInv', Inv, Inv', BalanceIsSumOfPayments,
           NEW id \in PaymentIds, NEW old \in Nat, NEW new \in Nat,
           payments[id].amount - payments[id].refunded = old,
           payments'[id].amount - payments'[id].refunded = new,
           \A x \in PaymentIds : x # id => payments'[x] = payments[x],
           \A j \in Invoices : j # id.invoice => invoices'[j] = invoices[j],
           \A r \in Nat : invoices[id.invoice].paid = old + r
                            => invoices'[id.invoice].paid = new + r
    PROVE  BalanceIsSumOfPayments'
<1>1. ASSUME NEW i \in Invoices PROVE invoices'[i].paid = Collected(payments', i)
  <2>1. IsFiniteSet(Ids(i))
    BY FinitelyManyIds
  <2>2. Net(payments, i) \in [Ids(i) -> Nat]
    <3>1. \A x \in PaymentIds : payments[x].refunded <= payments[x].amount
      BY DEF Inv, PaymentInv
    <3>2. payments \in [PaymentIds -> PaymentRow]
      BY DEF TypeInv, TypeOK
    <3> QED BY <3>1, <3>2, NetIsNat
  <2>3. Net(payments', i) \in [Ids(i) -> Nat]
    <3>1. \A x \in PaymentIds : payments'[x].refunded <= payments'[x].amount
      BY DEF Inv, PaymentInv
    <3>2. payments' \in [PaymentIds -> PaymentRow]
      BY DEF TypeInv, TypeOK
    <3> QED BY <3>1, <3>2, NetIsNat
  <2>4. invoices[i].paid = Collected(payments, i)
    BY DEF BalanceIsSumOfPayments
  <2>5. CASE i # id.invoice
    <3>1. \A x \in Ids(i) : payments'[x] = payments[x]
      BY <2>5 DEF Ids
    <3>2. Collected(payments', i) = Collected(payments, i)
      BY <2>1, <2>2, <3>1, CollectedSame
    <3> QED BY <2>4, <2>5, <3>2
  <2>6. CASE i = id.invoice
    <3>1. id \in Ids(i)
      BY <2>6 DEF Ids
    <3>2. \A x \in Ids(i) \ {id} : payments'[x] = payments[x]
      BY DEF Ids
    <3>3. PICK r \in Nat : /\ Collected(payments, i) = Net(payments, i)[id] + r
                           /\ Collected(payments', i) = Net(payments', i)[id] + r
      BY <2>1, <2>2, <2>3, <3>1, <3>2, CollectedMoves
    <3>4. Net(payments, i)[id] = old /\ Net(payments', i)[id] = new
      BY <3>1 DEF Net
    <3> QED BY <2>4, <2>6, <3>3, <3>4
  <2> QED BY <2>5, <2>6
<1> QED BY <1>1 DEF BalanceIsSumOfPayments

(* INSERT payment, UPDATE invoice: both grow by the amount. *)
LEMMA RecordKeepsBalance ==
    ASSUME TypeInv, TypeInv', Inv, Inv', BalanceInv, NEW w \in Workers, Record(w)
    PROVE  BalanceInv'
<1> DEFINE id == req[w].id
           i == id.invoice
           a == req[w].amount
<1>1. /\ req[w].pc = "record" /\ ~Recorded(id)
      /\ req[w].inv.version = invoices[i].version
      /\ payments' = [payments EXCEPT ![id] =
              [amount |-> a, refunded |-> 0, status |-> "succeeded", version |-> 1]]
      /\ invoices' = [invoices EXCEPT ![i] = Credited(req[w].inv, i, a)]
  BY DEF Record, InvoiceFresh
<1>2. req[w] \in Session /\ WellFormed(req[w]) /\ SessionInv(req[w])
  BY DEF TypeInv, TypeOK, Inv
<1>3. id \in PaymentIds /\ i \in Invoices /\ a \in Nat
  BY <1>1, <1>2 DEF WellFormed, Running, Cents, PaymentIds
<1>4. req[w].inv = invoices[i]
  BY <1>1, <1>2 DEF SessionInv, InvoiceSnapshot
<1>5. /\ invoices'[i].paid = invoices[i].paid + a
      /\ \A j \in Invoices : j # i => invoices'[j] = invoices[j]
  BY <1>1, <1>3, <1>4 DEF Credited, TypeInv, TypeOK
<1>6. /\ payments'[id].amount = a /\ payments'[id].refunded = 0
      /\ payments'[id].version = 1
      /\ \A x \in PaymentIds : x # id => payments'[x] = payments[x]
  BY <1>1, <1>3 DEF TypeInv, TypeOK
<1>7. payments[id].amount = 0 /\ payments[id].refunded = 0
  BY <1>1, <1>3 DEF BalanceInv, BlankRows
<1>8. BalanceIsSumOfPayments
  BY DEF BalanceInv
<1> HIDE DEF id, a
<1>9. /\ payments[id].amount - payments[id].refunded = 0
      /\ payments'[id].amount - payments'[id].refunded = a
      /\ \A r \in Nat : invoices[i].paid = 0 + r => invoices'[i].paid = a + r
  BY <1>3, <1>5, <1>6, <1>7
<1>10. BalanceIsSumOfPayments'
  BY <1>3, <1>5, <1>6, <1>8, <1>9, WriteKeepsBalance
<1>11. BlankRows'
  BY <1>6 DEF BalanceInv, BlankRows, Recorded
<1> QED BY <1>10, <1>11 DEF BalanceInv

(* UPDATE payment, UPDATE invoice: what is left of both falls by the       *)
(* amount, since an invoice holds at least what is left of each payment.   *)
LEMMA RefundRecordKeepsBalance ==
    ASSUME TypeInv, TypeInv', Inv, Inv', BalanceInv, NEW w \in Workers, RefundRecord(w)
    PROVE  BalanceInv'
<1> DEFINE id == req[w].id
           i == id.invoice
           a == req[w].amount
           old == payments[id].amount - payments[id].refunded
<1>1. /\ req[w].pc = "return"
      /\ req[w].pay.version = payments[id].version
      /\ req[w].inv.version = invoices[i].version
      /\ payments' = [payments EXCEPT ![id] = Returned(req[w].pay, a)]
      /\ invoices' = [invoices EXCEPT ![i] = Debited(req[w].inv, i, a)]
  BY DEF RefundRecord, InvoiceFresh, PaymentFresh
<1>2. req[w] \in Session /\ WellFormed(req[w]) /\ SessionInv(req[w])
  BY DEF TypeInv, TypeOK, Inv
<1>3. id \in PaymentIds /\ i \in Invoices /\ a \in Nat
  BY <1>1, <1>2 DEF WellFormed, Running, Cents, PaymentIds
<1>4. req[w].inv = invoices[i]
  BY <1>1, <1>2 DEF SessionInv, InvoiceSnapshot
<1>5. /\ req[w].pay = payments[id] /\ Recorded(id)
      /\ payments[id].refunded + a <= payments[id].amount
  BY <1>1, <1>2 DEF SessionInv, PaymentSnapshot
<1>6. /\ payments[id].amount \in Nat /\ payments[id].refunded \in Nat
      /\ payments[id].version \in Nat /\ invoices[i].paid \in Nat
  BY <1>3 DEF TypeInv, TypeOK, PaymentRow, InvoiceRow
<1>7. /\ invoices'[i].paid = IF invoices[i].paid > a THEN invoices[i].paid - a ELSE 0
      /\ \A j \in Invoices : j # i => invoices'[j] = invoices[j]
  BY <1>1, <1>3, <1>4 DEF Debited, TypeInv, TypeOK
<1>8. /\ payments'[id].amount = payments[id].amount
      /\ payments'[id].refunded = payments[id].refunded + a
      /\ payments'[id].version = payments[id].version + 1
      /\ \A x \in PaymentIds : x # id => payments'[x] = payments[x]
  BY <1>1, <1>3, <1>5 DEF Returned, TypeInv, TypeOK
<1>9. BalanceIsSumOfPayments
  BY DEF BalanceInv
<1>10. old \in Nat /\ old - a \in Nat /\ payments[id].amount - payments[id].refunded = old
  BY <1>3, <1>5, <1>6
<1>11. payments'[id].amount - payments'[id].refunded = old - a
  BY <1>3, <1>6, <1>8
<1> HIDE DEF id, a, old
<1>12. ASSUME NEW r \in Nat, invoices[i].paid = old + r
       PROVE  invoices'[i].paid = (old - a) + r
  BY <1>3, <1>7, <1>10, <1>12
<1>13. BalanceIsSumOfPayments'
  <2> DEFINE new == old - a
  <2>1. /\ new \in Nat /\ payments'[id].amount - payments'[id].refunded = new
        /\ \A r \in Nat : invoices[i].paid = old + r => invoices'[i].paid = new + r
    BY <1>10, <1>11, <1>12
  <2> HIDE DEF new
  <2> QED BY <1>3, <1>7, <1>8, <1>9, <1>10, <2>1, WriteKeepsBalance
<1>14. BlankRows'
  <2>1. payments'[id].version > 0
    BY <1>6, <1>8
  <2> QED BY <1>8, <2>1 DEF BalanceInv, BlankRows, Recorded
<1> QED BY <1>13, <1>14 DEF BalanceInv

(* Every step keeps the balances. *)
LEMMA BalanceStep ==
    TypeInv /\ TypeInv' /\ Inv /\ Inv' /\ BalanceInv /\ [Next]_vars => BalanceInv'
<1> SUFFICES ASSUME TypeInv, TypeInv', Inv, Inv', BalanceInv, [Next]_vars
             PROVE  BalanceInv'
  OBVIOUS
<1>1. CASE payments' = payments /\ invoices' = invoices
  BY <1>1 DEF BalanceInv, BlankRows, Recorded, BalanceIsSumOfPayments
<1>2. ASSUME NEW w \in Workers, Record(w) PROVE BalanceInv'
  BY <1>2, RecordKeepsBalance
<1>3. ASSUME NEW w \in Workers, RefundRecord(w) PROVE BalanceInv'
  BY <1>3, RefundRecordKeepsBalance
<1> QED BY <1>1, <1>2, <1>3, WhoWritesLedger

(* The balance of an invoice is what its payments brought less what was    *)
(* refunded, however many sessions record and refund at once: no update of *)
(* amount_paid_cents is lost and the clamp at zero in refund hides none.   *)
THEOREM BalanceCorrect == Spec => []BalanceIsSumOfPayments
<1>1. BalanceInv => BalanceIsSumOfPayments
  BY DEF BalanceInv
<1> QED BY <1>1, Invariance, BalanceInit, BalanceStep, PTL DEF Spec

-----------------------------------------------------------------------------
(***************************************************************************)
(* The closing of periods (Invoicing) for any number of organizations,     *)
(* plans, subscriptions, usage rows and overlapping closings.              *)
(***************************************************************************)

(* A closing has read usage rows that exist, and a number that is at most  *)
(* the next one: invoices are only ever added.                             *)
Pending(r) ==
    /\ session[r].pc \in {"number", "close"} => session[r].rows \subseteq DOMAIN usage
    /\ session[r].pc = "close" => session[r].seq \in Nat /\ session[r].seq <= Len(issued) + 1

(* An invoice is made of usage rows that exist and has a number that is    *)
(* not ahead of the count.                                                 *)
Issued(k) ==
    /\ issued[k].rows \subseteq DOMAIN usage
    /\ issued[k].seq \in Nat /\ issued[k].seq <= Len(issued)

(* The values of an overage are sums of quantities, whose type takes an    *)
(* induction; nothing here depends on them.                                *)
Shapes ==
    /\ usage \in Seq(IV!UsageRow)
    /\ \E S : issued \in Seq(S)
    /\ session = [r \in Sessions |-> session[r]]

ClosingInv ==
    /\ Shapes
    /\ \A r \in Sessions : Pending(r)
    /\ \A k \in DOMAIN issued : Issued(k)
    /\ UsageBilledOnce

-----------------------------------------------------------------------------
(* The invariant holds of empty tables. *)
LEMMA ClosingInitInv == IV!Init => ClosingInv
<1> SUFFICES ASSUME IV!Init PROVE ClosingInv
  OBVIOUS
<1>1. usage = <<>> /\ issued = <<>> /\ session = [r \in Sessions |-> [pc |-> "new"]]
  BY DEF IV!Init
<1>2. usage \in Seq(IV!UsageRow) /\ issued \in Seq(IV!UsageRow)
  BY <1>1
<1>3. Shapes
  BY <1>1, <1>2 DEF Shapes
<1>4. \A r \in Sessions : Pending(r)
  BY <1>1 DEF Pending
<1>5. (\A k \in DOMAIN issued : Issued(k)) /\ UsageBilledOnce
  BY <1>1 DEF UsageBilledOnce
<1> QED BY <1>3, <1>4, <1>5 DEF ClosingInv

(* A session that steps while the usage and the invoices stay, and has     *)
(* what it needs.                                                          *)
LEMMA SessionSteps ==
    ASSUME ClosingInv, NEW r \in Sessions, NEW x, session' = [session EXCEPT ![r] = x],
           UNCHANGED <<usage, issued>>,
           x.pc \in {"number", "close"} => x.rows \subseteq DOMAIN usage,
           x.pc = "close" => x.seq \in Nat /\ x.seq <= Len(issued) + 1
    PROVE  ClosingInv'
<1>1. session = [q \in Sessions |-> session[q]]
  BY DEF ClosingInv, Shapes
<1>2. session' = [q \in Sessions |-> session'[q]] /\ session'[r] = x
      /\ \A q \in Sessions \ {r} : session'[q] = session[q]
  BY <1>1
<1>3. \A q \in Sessions : Pending(q)'
  BY <1>2 DEF ClosingInv, Pending
<1> QED BY <1>2, <1>3 DEF ClosingInv, Shapes, Issued, UsageBilledOnce

(* Subscribing and cancelling bill nothing. *)
LEMMA SubscriptionsKeep ==
    ASSUME ClosingInv, NEW r \in Sessions,
           \/ \E org \in Orgs, plan \in Plans : IV!SubscribeRead(r, org, plan)
           \/ IV!SubscribeInsert(r)
           \/ \E org \in Orgs, atEnd \in BOOLEAN : IV!CancelRead(r, org, atEnd)
           \/ IV!CancelWrite(r)
    PROVE  ClosingInv'
<1>1. UNCHANGED <<usage, issued>>
  BY DEF IV!SubscribeRead, IV!SubscribeInsert, IV!CancelRead, IV!CancelWrite, IV!tables
<1>2. \E x : /\ session' = [session EXCEPT ![r] = x]
             /\ x.pc \notin {"number", "close"}
  <2>1. ASSUME NEW outcome \in IV!Outcomes, IV!End(r, outcome)
        PROVE  \E x : session' = [session EXCEPT ![r] = x] /\ x.pc \notin {"number", "close"}
    <3> DEFINE x == [pc |-> outcome]
    <3>1. session' = [session EXCEPT ![r] = x]
      BY <2>1 DEF IV!End
    <3>2. x.pc \notin {"number", "close"}
      BY DEF IV!Outcomes
    <3> QED BY <3>1, <3>2
  <2>2. CASE \E org \in Orgs, plan \in Plans : IV!SubscribeRead(r, org, plan)
    <3>1. PICK org \in Orgs, plan \in Plans : IV!SubscribeRead(r, org, plan)
      BY <2>2
    <3> DEFINE x == [pc |-> "insert", org |-> org, plan |-> plan]
    <3>2. IV!End(r, "conflict") \/ session' = [session EXCEPT ![r] = x]
      BY <3>1 DEF IV!SubscribeRead
    <3>3. x.pc = "insert"
      OBVIOUS
    <3> QED BY <2>1, <3>2, <3>3 DEF IV!Outcomes
  <2>3. CASE IV!SubscribeInsert(r)
    BY <2>1, <2>3 DEF IV!SubscribeInsert, IV!Outcomes
  <2>4. CASE \E org \in Orgs, atEnd \in BOOLEAN : IV!CancelRead(r, org, atEnd)
    <3>1. PICK org \in Orgs, atEnd \in BOOLEAN : IV!CancelRead(r, org, atEnd)
      BY <2>4
    <3> DEFINE s == IV!GetActive(org)
               x == [pc |-> "cancel", sub |-> s, ending |-> atEnd,
                     version |-> subscriptions[s].version]
    <3>2. IV!End(r, "missing") \/ session' = [session EXCEPT ![r] = x]
      BY <3>1 DEF IV!CancelRead
    <3>3. x.pc = "cancel"
      OBVIOUS
    <3> QED BY <2>1, <3>2, <3>3 DEF IV!Outcomes
  <2>5. CASE IV!CancelWrite(r)
    BY <2>1, <2>5 DEF IV!CancelWrite, IV!Outcomes
  <2> QED BY <2>2, <2>3, <2>4, <2>5
<1>3. PICK x : session' = [session EXCEPT ![r] = x] /\ x.pc \notin {"number", "close"}
  BY <1>2
<1> QED BY <1>1, <1>3, SessionSteps

(* Metering adds a row that no invoice knows. *)
LEMMA RecordKeeps ==
    ASSUME ClosingInv, NEW org \in Orgs, NEW m \in Metrics, NEW quantity \in Nat, NEW day \in Nat,
           IV!RecordUsage(org, m, quantity, day)
    PROVE  ClosingInv'
<1> DEFINE row == [org |-> org, metric |-> m, quantity |-> quantity, day |-> day,
                   invoiced |-> FALSE]
<1>1. usage' = Append(usage, row) /\ UNCHANGED <<issued, session>> /\ usage \in Seq(IV!UsageRow)
  BY DEF IV!RecordUsage, ClosingInv, Shapes
<1>2. row \in IV!UsageRow /\ ~row.invoiced
  BY DEF IV!UsageRow
<1> HIDE DEF row
<1>3. /\ usage' \in Seq(IV!UsageRow) /\ DOMAIN usage' = DOMAIN usage \cup {Len(usage) + 1}
      /\ Len(usage) + 1 \notin DOMAIN usage
      /\ usage'[Len(usage) + 1] = row
      /\ \A u \in DOMAIN usage : usage'[u] = usage[u]
  BY <1>1, <1>2
<1>4. Shapes'
  BY <1>1, <1>3 DEF ClosingInv, Shapes
<1>5. \A r \in Sessions : Pending(r)'
  BY <1>1, <1>3 DEF ClosingInv, Pending
<1>6. \A k \in DOMAIN issued' : Issued(k)'
  BY <1>1, <1>3 DEF ClosingInv, Issued
<1>7. UsageBilledOnce'
  BY <1>1, <1>2, <1>3 DEF ClosingInv, Issued, UsageBilledOnce
<1> QED BY <1>4, <1>5, <1>6, <1>7 DEF ClosingInv

(* Closing, up to its writes. *)
LEMMA ClosingReads ==
    ASSUME ClosingInv, NEW r \in Sessions,
           (\E s \in DOMAIN subscriptions : IV!CloseRead(r, s)) \/ IV!CloseNumber(r)
    PROVE  ClosingInv'
<1>1. CASE \E s \in DOMAIN subscriptions : IV!CloseRead(r, s)
  <2>1. PICK s \in DOMAIN subscriptions : IV!CloseRead(r, s)
    BY <1>1
  <2> DEFINE R == IV!Uninvoiced(subscriptions[s].org, subscriptions[s].end)
             x == [pc |-> "number", sub |-> s, rows |-> R]
  <2>2. session' = [session EXCEPT ![r] = x] /\ UNCHANGED <<usage, issued>>
    BY <2>1 DEF IV!CloseRead, IV!tables
  <2>3. R \subseteq DOMAIN usage
    BY DEF IV!Uninvoiced
  <2>4. x.pc = "number" /\ x.rows = R
    OBVIOUS
  <2> HIDE DEF R, x
  <2> QED BY <2>2, <2>3, <2>4, SessionSteps
<1>2. CASE IV!CloseNumber(r)
  <2> DEFINE x == [pc |-> "close", sub |-> session[r].sub, rows |-> session[r].rows,
                   month |-> IV!Month(today), seq |-> IV!NextSeq]
  <2>1. session' = [session EXCEPT ![r] = x] /\ UNCHANGED <<usage, issued>> /\ session[r].pc = "number"
    BY <1>2 DEF IV!CloseNumber, IV!tables
  <2>2. session[r].rows \subseteq DOMAIN usage
    BY <2>1 DEF ClosingInv, Pending
  <2>3. x.pc = "close" /\ x.rows = session[r].rows /\ x.seq = Len(issued) + 1
    BY DEF IV!NextSeq
  <2>4. Len(issued) \in Nat
    BY DEF ClosingInv, Shapes
  <2> HIDE DEF x
  <2>5. x.seq \in Nat /\ x.seq <= Len(issued) + 1
    BY <2>3, <2>4
  <2>6. x.rows \subseteq DOMAIN usage
    BY <2>2, <2>3
  <2> QED BY <2>1, <2>5, <2>6, SessionSteps
<1> QED BY <1>1, <1>2

(* The commit of a closing: none of the rows it stamps was billed before. *)
LEMMA ClosingWrites ==
    ASSUME ClosingInv, NEW r \in Sessions, IV!CloseWrite(r)
    PROVE  ClosingInv'
<1> DEFINE R == session[r].rows
           row == [sub |-> session[r].sub, month |-> session[r].month, seq |-> session[r].seq,
                   rows |-> R, over |-> IV!Overage(R)]
<1>1. CASE \E outcome \in {"close integrity", "stale"} : IV!End(r, outcome) /\ UNCHANGED IV!tables
  <2>1. PICK outcome \in {"close integrity", "stale"} : IV!End(r, outcome) /\ UNCHANGED IV!tables
    BY <1>1
  <2> DEFINE x == [pc |-> outcome]
  <2>2. session' = [session EXCEPT ![r] = x] /\ UNCHANGED <<usage, issued>>
    BY <2>1 DEF IV!End, IV!tables
  <2>3. x.pc \notin {"number", "close"}
    OBVIOUS
  <2> HIDE DEF x
  <2> QED BY <2>2, <2>3, SessionSteps
<1>2. CASE /\ IV!UsageFresh(r) /\ IV!End(r, "done") /\ issued' = Append(issued, row)
           /\ usage' = [u \in DOMAIN usage |->
                IF u \in R THEN [usage[u] EXCEPT !.invoiced = TRUE] ELSE usage[u]]
  <2>1. session[r].pc = "close" /\ R \subseteq DOMAIN usage
        /\ session[r].seq \in Nat /\ session[r].seq <= Len(issued) + 1
    BY DEF IV!CloseWrite, ClosingInv, Pending
  <2>2. row.rows = R /\ row.seq = session[r].seq
    OBVIOUS
  <2>3. \A u \in R : ~usage[u].invoiced
    BY <1>2 DEF IV!UsageFresh
  <2>4. PICK S : issued \in Seq(S)
    BY DEF ClosingInv, Shapes
  <2> HIDE DEF R, row
  <2>5. issued \in Seq(S \cup {row}) /\ row \in S \cup {row}
    BY <2>4
  <2>6. /\ issued' \in Seq(S \cup {row}) /\ Len(issued') = Len(issued) + 1
        /\ Len(issued) \in Nat /\ DOMAIN issued = 1 .. Len(issued)
        /\ DOMAIN issued' = 1 .. Len(issued) + 1
        /\ issued'[Len(issued) + 1] = row
        /\ \A k \in DOMAIN issued : issued'[k] = issued[k]
    BY <1>2, <2>5
  <2>7. usage \in Seq(IV!UsageRow)
    BY DEF ClosingInv, Shapes
  <2>8. /\ usage' \in Seq(IV!UsageRow) /\ DOMAIN usage' = DOMAIN usage
        /\ \A u \in DOMAIN usage : usage'[u].invoiced <=> (u \in R \/ usage[u].invoiced)
    <3>1. \A u \in DOMAIN usage :
            /\ usage[u] \in IV!UsageRow
            /\ [usage[u] EXCEPT !.invoiced = TRUE] \in IV!UsageRow
            /\ [usage[u] EXCEPT !.invoiced = TRUE].invoiced
      <4>1. \A x \in IV!UsageRow : /\ [x EXCEPT !.invoiced = TRUE] \in IV!UsageRow
                                /\ [x EXCEPT !.invoiced = TRUE].invoiced
        BY DEF IV!UsageRow
      <4>2. \A u \in DOMAIN usage : usage[u] \in IV!UsageRow
        BY <2>7
      <4> QED BY <4>1, <4>2
    <3>2. DOMAIN usage' = DOMAIN usage /\ \A u \in DOMAIN usage :
            usage'[u] \in IV!UsageRow /\ (usage'[u].invoiced <=> (u \in R \/ usage[u].invoiced))
      BY <1>2, <3>1
    <3>3. usage' \in Seq(IV!UsageRow)
      <4>1. DOMAIN usage = 1 .. Len(usage) /\ Len(usage) \in Nat
        BY <2>7
      <4>2. usage' \in [1 .. Len(usage) -> IV!UsageRow]
        BY <1>2, <3>2, <4>1
      <4> QED BY <4>1, <4>2
    <3> QED BY <3>2, <3>3
  <2>9. Shapes' /\ \A q \in Sessions : Pending(q)'
    <3>1. /\ session = [q \in Sessions |-> session[q]]
          /\ session' = [session EXCEPT ![r] = [pc |-> "done"]]
      BY <1>2 DEF ClosingInv, Shapes, IV!End
    <3>2. Shapes'
      BY <2>6, <2>8, <3>1 DEF Shapes
    <3>3. ASSUME NEW q \in Sessions PROVE Pending(q)'
      <4>1. CASE q = r
        BY <3>1, <4>1 DEF Pending
      <4>2. CASE q # r
        <5>1. session'[q] = session[q]
          BY <3>1, <4>2
        <5>2. Pending(q)
          BY DEF ClosingInv
        <5> QED BY <2>6, <2>8, <5>1, <5>2 DEF Pending
      <4> QED BY <4>1, <4>2
    <3> QED BY <3>2, <3>3
  <2>10. \A k \in DOMAIN issued' : Issued(k)'
    <3> SUFFICES ASSUME NEW k \in DOMAIN issued' PROVE Issued(k)'
      OBVIOUS
    <3>1. CASE k = Len(issued) + 1
      BY <2>1, <2>2, <2>6, <2>8, <3>1 DEF Issued
    <3>2. CASE k \in DOMAIN issued
      BY <2>6, <2>8, <3>2 DEF ClosingInv, Issued
    <3> QED BY <2>6, <3>1, <3>2
  <2>11. UsageBilledOnce'
    <3> SUFFICES ASSUME NEW u \in DOMAIN usage
                 PROVE  /\ usage'[u].invoiced <=> \E k \in DOMAIN issued' : u \in issued'[k].rows
                        /\ \A k, l \in DOMAIN issued' :
                             u \in issued'[k].rows /\ u \in issued'[l].rows => k = l
      BY <2>8 DEF UsageBilledOnce
    <3>1. /\ usage[u].invoiced <=> \E k \in DOMAIN issued : u \in issued[k].rows
          /\ \A k, l \in DOMAIN issued :
                u \in issued[k].rows /\ u \in issued[l].rows => k = l
      BY DEF ClosingInv, UsageBilledOnce
    <3>2. \A k \in DOMAIN issued' : k \in DOMAIN issued \/ k = Len(issued) + 1
      BY <2>6
    <3>3. CASE u \in R
      <4>1. ~usage[u].invoiced /\ \A k \in DOMAIN issued : u \notin issued'[k].rows
        BY <2>3, <2>6, <3>1, <3>3
      <4>2. Len(issued) + 1 \in DOMAIN issued'
        BY <2>6
      <4> QED BY <2>2, <2>6, <2>8, <3>2, <3>3, <4>1, <4>2
    <3>4. CASE u \notin R
      <4>1. DOMAIN issued \subseteq DOMAIN issued'
        BY <2>6
      <4> QED BY <2>2, <2>6, <2>8, <3>1, <3>2, <3>4, <4>1
    <3> QED BY <3>3, <3>4
  <2> QED BY <2>9, <2>10, <2>11 DEF ClosingInv
<1> QED BY <1>1, <1>2 DEF IV!CloseWrite

(* Inv is inductive. *)
THEOREM ClosingInvariance == IV!Spec => []ClosingInv
<1>1. ClosingInv /\ [IV!Next]_IV!vars => ClosingInv'
  <2> SUFFICES ASSUME ClosingInv, [IV!Next]_IV!vars PROVE ClosingInv'
    OBVIOUS
  <2>1. CASE UNCHANGED <<usage, issued, session>>
    BY <2>1 DEF ClosingInv, Shapes, Pending, Issued, UsageBilledOnce
  <2>2. CASE IV!NextDay \/ UNCHANGED IV!vars
    BY <2>1, <2>2 DEF IV!NextDay, IV!vars, IV!tables
  <2>3. CASE \E org \in Orgs, m \in Metrics, quantity \in 0..MaxQuantity, day \in 0..MaxDay :
               IV!RecordUsage(org, m, quantity, day)
    BY <2>3, RecordKeeps, InvoicingAssumption
  <2> QED BY <2>2, <2>3, SubscriptionsKeep, ClosingReads, ClosingWrites DEF IV!Next
<1> QED BY <1>1, ClosingInitInv, PTL DEF IV!Spec

(* close_period: however many closings overlap, usage that is stamped is   *)
(* on one invoice and usage that is not is on none.                        *)
THEOREM UsageCorrect == IV!Spec => []UsageBilledOnce
<1>1. ClosingInv => UsageBilledOnce
  BY DEF ClosingInv
<1> QED BY <1>1, ClosingInvariance, PTL

(* _next_number: the number of a closing that starts now is free, for any  *)
(* length of a month and however many closings have failed.                *)
THEOREM NumberCorrect == IV!Spec => []NextNumberIsFree
<1>1. ClosingInv => NextNumberIsFree
  <2> SUFFICES ASSUME ClosingInv PROVE NextNumberIsFree
    OBVIOUS
  <2>1. Len(issued) \in Nat
    BY DEF ClosingInv, Shapes
  <2>2. \A k \in DOMAIN issued : issued[k].seq < IV!NextSeq
    BY <2>1 DEF ClosingInv, Issued, IV!NextSeq
  <2>3. ~IV!NumberTaken(IV!Month(today), IV!NextSeq)
    BY <2>1, <2>2 DEF IV!NumberTaken, IV!NextSeq
  <2> QED BY <2>2, <2>3 DEF NextNumberIsFree
<1> QED BY <1>1, ClosingInvariance, PTL

(* What is proved of Invoicing holds of the specification of the runs. *)
THEOREM MovesInvoicing == InvoicingSpec => IV!Spec
<1>1. [IV!Next /\ UNCHANGED vars]_<<vars, invoicing>> => [IV!Next]_IV!vars
  BY DEF invoicing, IV!vars
<1> QED BY <1>1, PTL DEF InvoicingSpec, IV!Spec
=============================================================================
