------------------------------ MODULE Billing ------------------------------
(***************************************************************************)
(* The financial record of the platform, at the grain of its database      *)
(* transactions: what one committed request of the API may do to the       *)
(* tables invoices, payments, refunds, payment_webhook_receipts,           *)
(* idempotency_records, outbox_events and audit_events.                    *)
(*                                                                         *)
(* Every operation is one action: InvoiceService.create and .transition,   *)
(* and PaymentService.handleWebhook with .capture or .refund inside.  A    *)
(* request the code answers with an error, a replay or a duplicate commits *)
(* nothing, so it is a stuttering step and has no action here.             *)
(* WebhookTx and CreateTx open the transactions up, statement by           *)
(* statement, and are checked to implement this module.                    *)
(*                                                                         *)
(* An operator introduced as "Seeded fault" is not part of the model: it   *)
(* is the definition after it with a plausible bug, and some invariant     *)
(* must notice when the one is used for the other.                         *)
(***************************************************************************)
EXTENDS Sequences, MinorSums

CONSTANTS
    Invoices,    \* invoice ids: what randomUUID() may return
    Payments,    \* provider payment ids
    Refunds,     \* provider refund ids
    Events,      \* provider event ids
    Keys,        \* idempotency keys, each with the merchant that sent it
    Orders,      \* create requests: [key, hash, total]
    Callbacks,   \* signed, well-formed webhook bodies
    MaxVersion,  \* bound: no row is changed beyond this version
    None         \* SQL NULL, or a row that does not exist

-----------------------------------------------------------------------------
Statuses == {"ISSUED", "PARTIALLY_PAID", "PAID",
             "PARTIALLY_REFUNDED", "REFUNDED", "CANCELLED"}

\* UpdateInvoiceStatusDto admits two targets only.
ManualStatuses == {"PAID", "CANCELLED"}

\* The table of packages/domain, DRAFT included: no code path creates a
\* DRAFT invoice, so its row is never used.
invoiceTransitions ==
    [DRAFT              |-> {"ISSUED", "CANCELLED"},
     ISSUED             |-> {"PARTIALLY_PAID", "PAID", "CANCELLED"},
     PARTIALLY_PAID     |-> {"PAID"},
     PAID               |-> {"PARTIALLY_REFUNDED", "REFUNDED"},
     PARTIALLY_REFUNDED |-> {"REFUNDED"},
     REFUNDED           |-> {},
     CANCELLED          |-> {}]

assertInvoiceTransition(current, next) == next \in invoiceTransitions[current]

PaymentStatuses == {"CAPTURED", "PARTIALLY_REFUNDED", "REFUNDED"}

EventTypes == {"payment.captured", "payment.refunded"}

Callback == [event : Events, hash : Nat, type : EventTypes,
             payment : Payments, refund : Refunds \cup {None},
             invoice : Invoices, amount : Nat \ {0}]

Order == [key : Keys, hash : Nat, total : Nat]

\* The bounds the DTOs put on a request; the sha256 that stands for a body
\* is not assumed to be injective.
ASSUME RequestsAssumption ==
    /\ Callbacks \subseteq Callback
    /\ Orders \subseteq Order

ASSUME FiniteAssumption ==
    IsFiniteSet(Payments) /\ IsFiniteSet(Refunds) /\ IsFiniteSet(Events)

ASSUME MaxVersionAssumption == MaxVersion \in Nat

-----------------------------------------------------------------------------
VARIABLES
    invoices,     \* invoice id -> [total, status, version] or None
    payments,     \* payment id -> [invoice, amount, refunded, status, version] or None
    refunds,      \* refund id -> [payment, amount] or None
    receipts,     \* event id -> payload hash or None
    idempotency,  \* key -> [hash, invoice] or None
    outbox,       \* invoice id -> its outbox events, oldest first
    audit         \* invoice id -> its audit events, oldest first

vars == <<invoices, payments, refunds, receipts, idempotency, outbox, audit>>

InvoiceRow == [total : Nat, status : Statuses, version : Nat]
PaymentRow == [invoice : Invoices, amount : Nat, refunded : Nat,
               status : PaymentStatuses, version : Nat]
RefundRow  == [payment : Payments, amount : Nat]
KeyRow     == [hash : Nat, invoice : Invoices]

OutboxTypes == {"invoice.issued.v1", "invoice.status-changed.v1",
                "payment.captured.v1", "payment.refunded.v1"}
OutboxRow == [type : OutboxTypes, status : Statuses, event : Events \cup {None}]

AuditActions == {"invoice.created", "invoice.status_changed",
                 "payment.captured", "payment.refunded"}
AuditRow == [action : AuditActions, event : Events \cup {None}]

\* None is no id and no row.
ASSUME NoneAssumption ==
    None \notin Refunds \cup Events \cup Nat \cup InvoiceRow \cup PaymentRow
               \cup RefundRow \cup KeyRow

TypeOK ==
    /\ invoices \in [Invoices -> InvoiceRow \cup {None}]
    /\ payments \in [Payments -> PaymentRow \cup {None}]
    /\ refunds \in [Refunds -> RefundRow \cup {None}]
    /\ receipts \in [Events -> Nat \cup {None}]
    /\ idempotency \in [Keys -> KeyRow \cup {None}]
    /\ outbox \in [Invoices -> Seq(OutboxRow)]
    /\ audit \in [Invoices -> Seq(AuditRow)]

-----------------------------------------------------------------------------
(* Reading the tables                                                      *)

\* The payments of an invoice in a payments table.
PaymentsOf(table, i) == {p \in Payments : table[p] # None /\ table[p].invoice = i}

AmountsOf(table, i) == [p \in PaymentsOf(table, i) |-> table[p].amount]
RefundedOf(table, i) == [p \in PaymentsOf(table, i) |-> table[p].refunded]

capturedTotal(table, i) == SumMinor(AmountsOf(table, i))
refundedTotal(table, i) == SumMinor(RefundedOf(table, i))

-----------------------------------------------------------------------------
(* Writing them                                                            *)

\* emit: the outbox event of a change, with the status the change sets.
emit(i, type, status, event) ==
    outbox' = [outbox EXCEPT ![i] =
                  Append(@, [type |-> type, status |-> status, event |-> event])]

\* Seeded fault: only operators are audited, not the provider.
recordOperatorsOnly(i, action, event) ==
    audit' = IF event = None
             THEN [audit EXCEPT ![i] = Append(@, [action |-> action, event |-> event])]
             ELSE audit

\* AuditService.record, filed here under the invoice the change is about.
record(i, action, event) ==
    audit' = [audit EXCEPT ![i] = Append(@, [action |-> action, event |-> event])]

\* UPDATE invoices SET status, version = version + 1 WHERE id.
SetInvoice(i, status) ==
    invoices' = [invoices EXCEPT ![i].status = status, ![i].version = @ + 1]

-----------------------------------------------------------------------------
Init ==
    /\ invoices = [i \in Invoices |-> None]
    /\ payments = [p \in Payments |-> None]
    /\ refunds = [r \in Refunds |-> None]
    /\ receipts = [e \in Events |-> None]
    /\ idempotency = [k \in Keys |-> None]
    /\ outbox = [i \in Invoices |-> <<>>]
    /\ audit = [i \in Invoices |-> <<>>]

\* Seeded fault: a key sent with another body counts as a new key.
KeyIsNewForBody(o) ==
    idempotency[o.key] # None => idempotency[o.key].hash # o.hash

\* findIdempotency found no record.
KeyIsNew(o) == idempotency[o.key] = None

\* InvoiceService.create for a key with no record: invoice, outbox event,
\* idempotency record and audit event in one transaction.
CreateInvoice(o, i) ==
    /\ KeyIsNew(o)
    /\ invoices[i] = None
    /\ invoices' = [invoices EXCEPT ![i] =
                       [total |-> o.total, status |-> "ISSUED", version |-> 1]]
    /\ idempotency' = [idempotency EXCEPT ![o.key] = [hash |-> o.hash, invoice |-> i]]
    /\ emit(i, "invoice.issued.v1", "ISSUED", None)
    /\ record(i, "invoice.created", None)
    /\ UNCHANGED <<payments, refunds, receipts>>

\* InvoiceService.transition: an operator marks an invoice PAID or CANCELLED.
Transition(i, next, expectedVersion) ==
    /\ invoices[i] # None
    /\ assertInvoiceTransition(invoices[i].status, next)
    /\ invoices[i].version = expectedVersion
    /\ expectedVersion < MaxVersion
    /\ SetInvoice(i, next)
    /\ emit(i, "invoice.status-changed.v1", next, None)
    /\ record(i, "invoice.status_changed", None)
    /\ UNCHANGED <<payments, refunds, receipts, idempotency>>

-----------------------------------------------------------------------------
\* Seeded fault: only captures leave a receipt.
AcceptReceiptOfCapture(cb) ==
    receipts' = IF cb.type = "payment.captured"
                THEN [receipts EXCEPT ![cb.event] = cb.hash] ELSE receipts

\* PaymentWebhookReceipt: what makes an event id known.
AcceptReceipt(cb) == receipts' = [receipts EXCEPT ![cb.event] = cb.hash]

\* Seeded fault: whatever is not paid may be.
AcceptsCaptureUnlessPaid(status) == status # "PAID"

AcceptsCapture(status) == status \in {"ISSUED", "PARTIALLY_PAID"}

\* Seeded fault: a part payment may be refunded.
AcceptsRefundOfPart(status) == status \in {"PARTIALLY_PAID", "PAID", "PARTIALLY_REFUNDED"}

AcceptsRefund(status) == status \in {"PAID", "PARTIALLY_REFUNDED"}

\* Seeded fault: earlier captures are not counted.
WithinTotalAlone(i, amount) == amount <= invoices[i].total

WithinTotal(i, amount) == capturedTotal(payments, i) + amount <= invoices[i].total

\* Seeded fault: earlier refunds are not counted.
WithinPaymentAlone(p, amount) == amount <= payments[p].amount

WithinPayment(p, amount) == payments[p].refunded + amount <= payments[p].amount

StatusAfterCapture(i, amount) ==
    IF capturedTotal(payments, i) + amount = invoices[i].total
    THEN "PAID" ELSE "PARTIALLY_PAID"

\* The payment row after `amount' more of it has been refunded.
PaymentStatusAfter(row, amount) ==
    IF row.refunded + amount = row.amount THEN "REFUNDED" ELSE "PARTIALLY_REFUNDED"

RefundedPayment(row, amount) ==
    [row EXCEPT !.refunded = @ + amount,
                !.status = PaymentStatusAfter(row, amount),
                !.version = @ + 1]

\* Computed after the payment's update, from a table that has it.
StatusAfterRefund(table, i) ==
    IF refundedTotal(table, i) = capturedTotal(table, i)
    THEN "REFUNDED" ELSE "PARTIALLY_REFUNDED"

\* handleWebhook with a payment.captured body nobody has sent before.
Capture(cb) ==
    LET i == cb.invoice
        p == cb.payment
        status == StatusAfterCapture(i, cb.amount)
    IN  /\ cb.type = "payment.captured"
        /\ receipts[cb.event] = None
        /\ invoices[i] # None
        /\ AcceptsCapture(invoices[i].status)
        /\ payments[p] = None
        /\ WithinTotal(i, cb.amount)
        /\ invoices[i].version < MaxVersion
        /\ payments' = [payments EXCEPT ![p] =
                           [invoice |-> i, amount |-> cb.amount, refunded |-> 0,
                            status |-> "CAPTURED", version |-> 1]]
        /\ SetInvoice(i, status)
        /\ emit(i, "payment.captured.v1", status, cb.event)
        /\ record(i, "payment.captured", cb.event)
        /\ AcceptReceipt(cb)
        /\ UNCHANGED <<refunds, idempotency>>

\* handleWebhook with a payment.refunded body nobody has sent before.
Refund(cb) ==
    LET i == cb.invoice
        p == cb.payment
    IN  /\ cb.type = "payment.refunded"
        /\ receipts[cb.event] = None
        /\ cb.refund # None
        /\ payments[p] # None
        /\ invoices[i] # None
        /\ payments[p].invoice = i
        /\ AcceptsRefund(invoices[i].status)
        /\ WithinPayment(p, cb.amount)
        /\ refunds[cb.refund] = None
        /\ invoices[i].version < MaxVersion
        /\ refunds' = [refunds EXCEPT ![cb.refund] = [payment |-> p, amount |-> cb.amount]]
        /\ payments' = [payments EXCEPT ![p] = RefundedPayment(@, cb.amount)]
        /\ LET status == StatusAfterRefund(payments', i)
           IN  /\ SetInvoice(i, status)
               /\ emit(i, "payment.refunded.v1", status, cb.event)
        /\ record(i, "payment.refunded", cb.event)
        /\ AcceptReceipt(cb)
        /\ UNCHANGED idempotency

-----------------------------------------------------------------------------
Next ==
    \/ \E o \in Orders, i \in Invoices : CreateInvoice(o, i)
    \/ \E i \in Invoices, next \in ManualStatuses, v \in 1 .. MaxVersion :
           Transition(i, next, v)
    \/ \E cb \in Callbacks : Capture(cb)
    \/ \E cb \in Callbacks : Refund(cb)

Spec == Init /\ [][Next]_vars
-----------------------------------------------------------------------------
(* What the record must always say                                         *)

captured(i) == capturedTotal(payments, i)
refunded(i) == refundedTotal(payments, i)

\* SLO.md: captured amounts cannot exceed the invoice total.  However many
\* callbacks name an invoice, and whatever operators do to it in between,
\* the rows of its payments never add up to more than it asks for.
CapturedWithinTotal ==
    \A i \in Invoices : invoices[i] # None => captured(i) <= invoices[i].total

RefundsOf(p) == {r \in Refunds : refunds[r] # None /\ refunds[r].payment = p}

\* SLO.md: refunds cannot exceed their payment.  The running total kept in a
\* payment row is the sum of the refund rows that name it, it stays within
\* the captured amount, and the payment's status says which of none, part
\* or all of it went back.
RefundLedger ==
    /\ \A p \in Payments : payments[p] # None =>
          LET row == payments[p] IN
          /\ row.refunded = SumMinor([r \in RefundsOf(p) |-> refunds[r].amount])
          /\ row.refunded <= row.amount
          /\ row.status = "CAPTURED" <=> row.refunded = 0
          /\ row.status = "REFUNDED" <=> row.refunded = row.amount
    /\ \A r \in Refunds : refunds[r] # None => payments[refunds[r].payment] # None

\* An operator, not the provider, set the invoice to PAID.
MarkedPaid(i) ==
    \E k \in DOMAIN outbox[i] :
        outbox[i][k].type = "invoice.status-changed.v1" /\ outbox[i][k].status = "PAID"

\* The status column, which three handlers write, agrees with the money in
\* the payments table, which only two of them look at: an invoice is PAID
\* with less than its total captured only if an operator marked it so, money
\* never stays on a CANCELLED invoice, REFUNDED means every captured unit
\* went back and PARTIALLY_REFUNDED that some did and some did not.
MoneyFor(i, status) ==
    /\ status \in {"ISSUED", "CANCELLED"} => captured(i) = 0
    /\ status = "PARTIALLY_PAID" => /\ 0 < captured(i)
                                    /\ captured(i) < invoices[i].total
                                    /\ refunded(i) = 0
    /\ status = "PAID" => /\ captured(i) = invoices[i].total \/ MarkedPaid(i)
                          /\ refunded(i) = 0
    /\ status = "PARTIALLY_REFUNDED" => 0 < refunded(i) /\ refunded(i) < captured(i)
    /\ status = "REFUNDED" => 0 < refunded(i) /\ refunded(i) = captured(i)

StatusMatchesMoney ==
    \A i \in Invoices : invoices[i] # None => MoneyFor(i, invoices[i].status)

\* The audit action and the outbox event of one change go by these names.
SameChange(o, a) ==
    /\ o.event = a.event
    /\ <<o.type, a.action>> \in {<<"invoice.issued.v1", "invoice.created">>,
                                 <<"invoice.status-changed.v1", "invoice.status_changed">>,
                                 <<"payment.captured.v1", "payment.captured">>,
                                 <<"payment.refunded.v1", "payment.refunded">>}

\* SLO.md: every accepted change commits its audit and outbox records
\* atomically.  An invoice at version n has exactly n outbox events and n
\* audit events, pairwise of the same change, and the last notification that
\* will go out carries the status the invoice has.
TrailMatches ==
    \A i \in Invoices :
        IF invoices[i] = None
        THEN outbox[i] = <<>> /\ audit[i] = <<>>
        ELSE /\ Len(outbox[i]) = invoices[i].version
             /\ Len(audit[i]) = invoices[i].version
             /\ \A k \in 1 .. invoices[i].version : SameChange(outbox[i][k], audit[i][k])
             /\ outbox[i][invoices[i].version].status = invoices[i].status

\* The places where a provider event left its mark.
EffectsOf(e) ==
    UNION {{i} \X {k \in DOMAIN outbox[i] : outbox[i][k].event = e} : i \in Invoices}

\* An event with a receipt changed exactly one invoice exactly once, and an
\* event without one changed nothing: the receipt is neither lost nor early.
EventEffectsOnce ==
    \A e \in Events :
        Cardinality(EffectsOf(e)) = IF receipts[e] = None THEN 0 ELSE 1

KeysOf(i) == {k \in Keys : idempotency[k] # None /\ idempotency[k].invoice = i}

\* SLO.md: an accepted invoice has exactly one committed financial record;
\* retries may not create another.  Records and invoices correspond one to
\* one: no invoice without its key, no key that answers with a missing
\* invoice, no two keys or two invoices that share.
OneInvoicePerKey ==
    \A i \in Invoices :
        Cardinality(KeysOf(i)) = IF invoices[i] = None THEN 0 ELSE 1

-----------------------------------------------------------------------------
(* What a step may never do                                                *)

\* The payment service writes the status without assertInvoiceTransition, yet
\* every change of status it makes is one the domain table allows.
StatusFollowsTable ==
    [][\A i \in Invoices :
          invoices[i] # None /\ invoices'[i].status # invoices[i].status
              => assertInvoiceTransition(invoices[i].status, invoices'[i].status)]_vars
=============================================================================
