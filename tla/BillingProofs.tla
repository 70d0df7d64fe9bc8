--------------------------- MODULE BillingProofs ---------------------------
(***************************************************************************)
(* Theorems about the financial record, for every set of ids, every total  *)
(* and every history of requests.                                          *)
(***************************************************************************)
EXTENDS Billing, MinorSumTheorems

-----------------------------------------------------------------------------
(* The two sums over a payments table                                      *)

PaymentTable == [Payments -> PaymentRow \cup {None}]

\* The payments of an invoice are finitely many, and exist.
LEMMA PaymentsOfFinite ==
    ASSUME NEW table \in PaymentTable, NEW i \in Invoices
    PROVE  /\ IsFiniteSet(PaymentsOf(table, i))
           /\ \A p \in PaymentsOf(table, i) : table[p] \in PaymentRow
<1>1. PaymentsOf(table, i) \in SUBSET Payments
  BY DEF PaymentsOf
<1>2. IsFiniteSet(PaymentsOf(table, i))
  BY <1>1, FiniteAssumption, FS_Subset
<1>3. \A p \in PaymentsOf(table, i) : table[p] \in PaymentRow
  BY DEF PaymentsOf, PaymentTable
<1> QED
  BY <1>2, <1>3

\* Both columns are natural numbers.
LEMMA ColumnTypes ==
    ASSUME NEW table \in PaymentTable, NEW i \in Invoices
    PROVE  /\ AmountsOf(table, i) \in [PaymentsOf(table, i) -> Nat]
           /\ RefundedOf(table, i) \in [PaymentsOf(table, i) -> Nat]
BY PaymentsOfFinite DEF PaymentRow, AmountsOf, RefundedOf

\* So are the totals.
LEMMA TotalsType ==
    ASSUME NEW table \in PaymentTable, NEW i \in Invoices
    PROVE  capturedTotal(table, i) \in Nat /\ refundedTotal(table, i) \in Nat
BY PaymentsOfFinite, ColumnTypes, SumMinorType DEF capturedTotal, refundedTotal

\* If no payment is refunded beyond its amount, neither is the invoice.
LEMMA TotalsOrdered ==
    ASSUME NEW table \in PaymentTable, NEW i \in Invoices,
           \A p \in Payments : table[p] # None => table[p].refunded <= table[p].amount
    PROVE  refundedTotal(table, i) <= capturedTotal(table, i)
<1> DEFINE S == PaymentsOf(table, i)
           f == RefundedOf(table, i)
           g == AmountsOf(table, i)
<1>1. IsFiniteSet(S) /\ f \in [S -> Nat] /\ g \in [S -> Nat]
  BY PaymentsOfFinite, ColumnTypes
<1>2. \A p \in S : f[p] <= g[p]
  BY DEF PaymentsOf, RefundedOf, AmountsOf
<1>3. refundedTotal(table, i) = SumMinor(f) /\ capturedTotal(table, i) = SumMinor(g)
  BY DEF refundedTotal, capturedTotal
<1> HIDE DEF S, f, g
<1> QED
  BY <1>1, <1>2, <1>3, SumMinorMonotone

\* A payment's amount is part of its invoice's total.
LEMMA TotalsCover ==
    ASSUME NEW table \in PaymentTable, NEW p \in Payments, table[p] # None
    PROVE  /\ table[p].amount <= capturedTotal(table, table[p].invoice)
           /\ table[p].refunded <= refundedTotal(table, table[p].invoice)
<1> DEFINE i == table[p].invoice
           S == PaymentsOf(table, i)
           f == RefundedOf(table, i)
           g == AmountsOf(table, i)
<1>1. i \in Invoices
  BY DEF PaymentTable, PaymentRow
<1>2. IsFiniteSet(S) /\ f \in [S -> Nat] /\ g \in [S -> Nat]
  BY <1>1, PaymentsOfFinite, ColumnTypes
<1>3. p \in S
  BY DEF PaymentsOf
<1>4. f[p] = table[p].refunded /\ g[p] = table[p].amount
  BY <1>3 DEF RefundedOf, AmountsOf
<1>5. refundedTotal(table, i) = SumMinor(f) /\ capturedTotal(table, i) = SumMinor(g)
  BY DEF refundedTotal, capturedTotal
<1> HIDE DEF S, f, g
<1>6. f[p] <= SumMinor(f) /\ g[p] <= SumMinor(g)
  BY <1>2, <1>3, SumMinorCovers
<1> QED
  BY <1>4, <1>5, <1>6

\* The two writes, by name.
AddsPayment(table, new, p, row) ==
    /\ table[p] = None
    /\ row.refunded = 0
    /\ new = [table EXCEPT ![p] = row]

RefundsPayment(table, new, p, row, n) ==
    /\ table[p] # None
    /\ row.invoice = table[p].invoice
    /\ row.amount = table[p].amount
    /\ row.refunded = table[p].refunded + n
    /\ new = [table EXCEPT ![p] = row]

\* Inserting a payment adds its amount to its own invoice's total only.
LEMMA TotalsInsert ==
    ASSUME NEW table \in PaymentTable, NEW p \in Payments, NEW row \in PaymentRow,
           NEW new, AddsPayment(table, new, p, row)
    PROVE  /\ new \in PaymentTable
           /\ capturedTotal(new, row.invoice) = capturedTotal(table, row.invoice) + row.amount
           /\ refundedTotal(new, row.invoice) = refundedTotal(table, row.invoice)
           /\ \A j \in Invoices \ {row.invoice} :
                 /\ capturedTotal(new, j) = capturedTotal(table, j)
                 /\ refundedTotal(new, j) = refundedTotal(table, j)
<1> USE DEF AddsPayment
<1> DEFINE i == row.invoice
           S == PaymentsOf(table, i)
           a0 == AmountsOf(table, i)
           a1 == AmountsOf(new, i)
           r0 == RefundedOf(table, i)
           r1 == RefundedOf(new, i)
<1>1. new \in PaymentTable
  BY DEF PaymentTable
<1>2. i \in Invoices /\ row.amount \in Nat /\ row # None
  BY NoneAssumption DEF PaymentRow
<1>3. PaymentsOf(new, i) = S \cup {p} /\ p \notin S
  BY <1>2 DEF PaymentsOf, PaymentTable
<1>4. \A j \in Invoices \ {i} : PaymentsOf(new, j) = PaymentsOf(table, j)
  BY <1>2 DEF PaymentsOf, PaymentTable
<1>5. \A j \in Invoices \ {i} : AmountsOf(new, j) = AmountsOf(table, j) /\ RefundedOf(new, j) = RefundedOf(table, j)
  <2> SUFFICES ASSUME NEW j \in Invoices \ {i}
               PROVE  AmountsOf(new, j) = AmountsOf(table, j) /\ RefundedOf(new, j) = RefundedOf(table, j)
    OBVIOUS
  <2>1. \A q \in PaymentsOf(table, j) : /\ new[q].amount = table[q].amount
                                       /\ new[q].refunded = table[q].refunded
    BY DEF PaymentsOf, PaymentTable
  <2> QED
    BY <1>4, <2>1 DEF AmountsOf, RefundedOf
<1>6. IsFiniteSet(S)
  BY <1>2, PaymentsOfFinite
<1>7. /\ a0 \in [S -> Nat] /\ a1 \in [S \cup {p} -> Nat]
      /\ r0 \in [S -> Nat] /\ r1 \in [S \cup {p} -> Nat]
  BY <1>1, <1>2, <1>3, ColumnTypes
<1>8. /\ a1[p] = row.amount /\ r1[p] = 0
      /\ \A q \in S : a1[q] = a0[q] /\ r1[q] = r0[q]
  BY <1>3 DEF PaymentsOf, PaymentTable, AmountsOf, RefundedOf
<1>9. /\ capturedTotal(new, i) = SumMinor(a1) /\ capturedTotal(table, i) = SumMinor(a0)
      /\ refundedTotal(new, i) = SumMinor(r1) /\ refundedTotal(table, i) = SumMinor(r0)
  BY DEF capturedTotal, refundedTotal
<1> HIDE DEF S, a0, a1, r0, r1
<1>10. SumMinor(a1) = SumMinor(a0) + row.amount
  BY <1>2, <1>3, <1>6, <1>7, <1>8, SumMinorAdd
<1>11. SumMinor(r1) = SumMinor(r0) + 0
  BY <1>2, <1>3, <1>6, <1>7, <1>8, SumMinorAdd
<1>12. SumMinor(r0) \in Nat
  BY <1>6, <1>7, SumMinorType
<1>13. \A j \in Invoices \ {i} : /\ capturedTotal(new, j) = capturedTotal(table, j)
                                /\ refundedTotal(new, j) = refundedTotal(table, j)
  BY <1>5 DEF capturedTotal, refundedTotal
<1>14. capturedTotal(new, i) = capturedTotal(table, i) + row.amount
  BY <1>9, <1>10
<1>15. refundedTotal(new, i) = refundedTotal(table, i)
  BY <1>9, <1>11, <1>12
<1> QED
  BY <1>1, <1>13, <1>14, <1>15

\* Refunding n more of a payment adds n to its own invoice's refunded total
\* and leaves every captured total alone.
LEMMA TotalsRefund ==
    ASSUME NEW table \in PaymentTable, NEW p \in Payments, NEW row \in PaymentRow,
           NEW n \in Nat, NEW new, RefundsPayment(table, new, p, row, n)
    PROVE  /\ new \in PaymentTable
           /\ \A j \in Invoices : capturedTotal(new, j) = capturedTotal(table, j)
           /\ refundedTotal(new, row.invoice) = refundedTotal(table, row.invoice) + n
           /\ \A j \in Invoices \ {row.invoice} :
                 refundedTotal(new, j) = refundedTotal(table, j)
<1> USE DEF RefundsPayment
<1> DEFINE i == row.invoice
           S == PaymentsOf(table, i)
           r0 == RefundedOf(table, i)
           r1 == RefundedOf(new, i)
<1>1. new \in PaymentTable
  BY DEF PaymentTable
<1>2. i \in Invoices /\ row # None /\ table[p] \in PaymentRow
  BY NoneAssumption DEF PaymentRow, PaymentTable
<1>3. \A j \in Invoices : PaymentsOf(new, j) = PaymentsOf(table, j)
  BY <1>2 DEF PaymentsOf, PaymentTable
<1>4. p \in S
  BY DEF PaymentsOf
<1>5. \A j \in Invoices : AmountsOf(new, j) = AmountsOf(table, j)
  <2> SUFFICES ASSUME NEW j \in Invoices PROVE AmountsOf(new, j) = AmountsOf(table, j)
    OBVIOUS
  <2>1. \A q \in PaymentsOf(table, j) : new[q].amount = table[q].amount
    BY DEF PaymentsOf, PaymentTable
  <2> QED
    BY <1>3, <2>1 DEF AmountsOf, RefundedOf
<1>6. \A j \in Invoices \ {i} : RefundedOf(new, j) = RefundedOf(table, j)
  <2> SUFFICES ASSUME NEW j \in Invoices \ {i} PROVE RefundedOf(new, j) = RefundedOf(table, j)
    OBVIOUS
  <2>1. \A q \in PaymentsOf(table, j) : new[q].refunded = table[q].refunded
    BY DEF PaymentsOf, PaymentTable
  <2> QED
    BY <1>3, <2>1 DEF AmountsOf, RefundedOf
<1>7. IsFiniteSet(S)
  BY <1>2, PaymentsOfFinite
<1>8. r0 \in [S -> Nat] /\ r1 \in [S -> Nat]
  BY <1>1, <1>2, <1>3, ColumnTypes
<1>9. /\ r1[p] = r0[p] + n
      /\ \A q \in S \ {p} : r1[q] = r0[q]
  BY <1>2, <1>3, <1>4 DEF PaymentsOf, PaymentTable, RefundedOf
<1>10. refundedTotal(new, i) = SumMinor(r1) /\ refundedTotal(table, i) = SumMinor(r0)
  BY DEF refundedTotal
<1> HIDE DEF S, r0, r1
<1>11. SumMinor(r1) + r0[p] = SumMinor(r0) + r1[p]
  BY <1>4, <1>7, <1>8, <1>9, SumMinorUpdate
<1>12. SumMinor(r0) \in Nat /\ SumMinor(r1) \in Nat /\ r0[p] \in Nat
  BY <1>4, <1>7, <1>8, SumMinorType
<1>13. SumMinor(r1) = SumMinor(r0) + n
  BY <1>9, <1>11, <1>12
<1> QED
  BY <1>1, <1>5, <1>6, <1>10, <1>13 DEF capturedTotal, refundedTotal
\* What each does to the totals, one invoice at a time.
LEMMA InsertAt ==
    ASSUME NEW table \in PaymentTable, NEW p \in Payments, NEW row \in PaymentRow,
           NEW new, AddsPayment(table, new, p, row), NEW j \in Invoices
    PROVE  /\ capturedTotal(new, j) = IF j = row.invoice
                                      THEN capturedTotal(table, j) + row.amount
                                      ELSE capturedTotal(table, j)
           /\ refundedTotal(new, j) = refundedTotal(table, j)
BY TotalsInsert

LEMMA RefundAt ==
    ASSUME NEW table \in PaymentTable, NEW p \in Payments, NEW row \in PaymentRow,
           NEW n \in Nat, NEW new, RefundsPayment(table, new, p, row, n), NEW j \in Invoices
    PROVE  /\ new \in PaymentTable
           /\ capturedTotal(new, j) = capturedTotal(table, j)
           /\ refundedTotal(new, j) = IF j = row.invoice
                                      THEN refundedTotal(table, j) + n
                                      ELSE refundedTotal(table, j)
BY TotalsRefund

-----------------------------------------------------------------------------
(* Types                                                                   *)

\* What a request contains, from the assumptions on the constants.
LEMMA RequestTypes ==
    /\ \A o \in Orders : o.key \in Keys /\ o.hash \in Nat /\ o.total \in Nat
    /\ \A cb \in Callbacks :
          /\ cb.event \in Events /\ cb.hash \in Nat /\ cb.payment \in Payments
          /\ cb.refund \in Refunds \cup {None} /\ cb.invoice \in Invoices
          /\ cb.amount \in Nat /\ 0 < cb.amount
BY RequestsAssumption DEF Callback, Order

\* The writes of one change keep the trail well-typed.
LEMMA TrailTypes ==
    ASSUME TypeOK, NEW i \in Invoices, NEW type \in OutboxTypes, NEW status \in Statuses,
           NEW action \in AuditActions, NEW event \in Events \cup {None},
           emit(i, type, status, event), record(i, action, event)
    PROVE  /\ outbox' \in [Invoices -> Seq(OutboxRow)]
           /\ audit' \in [Invoices -> Seq(AuditRow)]
<1>1. [type |-> type, status |-> status, event |-> event] \in OutboxRow
  BY DEF OutboxRow
<1>2. [action |-> action, event |-> event] \in AuditRow
  BY DEF AuditRow
<1> QED
  BY <1>1, <1>2 DEF TypeOK, emit, record

\* Setting the status of an existing invoice keeps the table well-typed.
LEMMA SetInvoiceTypes ==
    ASSUME TypeOK, NEW i \in Invoices, invoices[i] # None, NEW status \in Statuses,
           SetInvoice(i, status)
    PROVE  /\ invoices' \in [Invoices -> InvoiceRow \cup {None}]
           /\ invoices'[i] # None
           /\ invoices'[i].status = status
           /\ invoices'[i].total = invoices[i].total
           /\ invoices'[i].version = invoices[i].version + 1
           /\ \A j \in Invoices \ {i} : invoices'[j] = invoices[j]
<1>1. invoices[i] \in InvoiceRow
  BY DEF TypeOK
<1>2. invoices'[i] = [total |-> invoices[i].total, status |-> status,
                      version |-> invoices[i].version + 1]
  BY <1>1 DEF TypeOK, SetInvoice, InvoiceRow
<1>3. \A j \in Invoices \ {i} : invoices'[j] = invoices[j]
  BY DEF TypeOK, SetInvoice
<1>4. invoices'[i] \in InvoiceRow
  BY <1>1, <1>2 DEF InvoiceRow
<1>5. DOMAIN invoices' = Invoices /\ invoices' = [j \in Invoices |-> invoices'[j]]
  BY DEF TypeOK, SetInvoice
<1>6. invoices'[i] # None
  BY <1>4, NoneAssumption
<1>7. /\ invoices'[i].status = status
      /\ invoices'[i].total = invoices[i].total
      /\ invoices'[i].version = invoices[i].version + 1
  BY <1>2
<1>8. invoices' \in [Invoices -> InvoiceRow \cup {None}]
  BY <1>3, <1>4, <1>5 DEF TypeOK
<1> QED
  BY <1>3, <1>6, <1>7, <1>8

\* The status a handler computes is a status.
LEMMA ComputedStatuses ==
    ASSUME NEW i, NEW amount, NEW table
    PROVE  /\ StatusAfterCapture(i, amount) \in Statuses
           /\ StatusAfterRefund(table, i) \in Statuses
BY DEF StatusAfterCapture, StatusAfterRefund, Statuses

\* Refunding more of a payment gives a payment row.
LEMMA RefundedPaymentType ==
    ASSUME NEW row \in PaymentRow, NEW amount \in Nat
    PROVE  /\ RefundedPayment(row, amount) \in PaymentRow
           /\ RefundedPayment(row, amount).invoice = row.invoice
           /\ RefundedPayment(row, amount).amount = row.amount
           /\ RefundedPayment(row, amount).refunded = row.refunded + amount
<1>1. PaymentStatusAfter(row, amount) \in PaymentStatuses
  BY DEF PaymentStatusAfter, PaymentStatuses
<1>2. RefundedPayment(row, amount) \in PaymentRow
  <2>1. ASSUME NEW n \in Nat, NEW s \in PaymentStatuses, NEW v \in Nat
        PROVE  [row EXCEPT !.refunded = n, !.status = s, !.version = v] \in PaymentRow
    BY DEF PaymentRow
  <2>2. row.refunded + amount \in Nat /\ row.version + 1 \in Nat
    BY DEF PaymentRow
  <2> QED
    BY <1>1, <2>1, <2>2, Zenon DEF RefundedPayment
<1>3. DOMAIN row = {"invoice", "amount", "refunded", "status", "version"}
  BY DEF PaymentRow
<1>4. /\ RefundedPayment(row, amount).invoice = row.invoice
      /\ RefundedPayment(row, amount).amount = row.amount
  BY <1>3 DEF RefundedPayment
<1>5. RefundedPayment(row, amount).refunded = row.refunded + amount
  BY <1>3 DEF RefundedPayment
<1> QED
  BY <1>2, <1>4, <1>5

\* Every action keeps every column of every table in its type.
LEMMA TypeOKStep == TypeOK /\ [Next]_vars => TypeOK'
<1> SUFFICES ASSUME TypeOK, [Next]_vars PROVE TypeOK'
  OBVIOUS
<1>1. ASSUME NEW o \in Orders, NEW i \in Invoices, CreateInvoice(o, i)
      PROVE  TypeOK'
  <2>1. /\ [total |-> o.total, status |-> "ISSUED", version |-> 1] \in InvoiceRow
        /\ [hash |-> o.hash, invoice |-> i] \in KeyRow
    BY RequestTypes DEF InvoiceRow, KeyRow, Statuses
  <2>2. /\ invoices' \in [Invoices -> InvoiceRow \cup {None}]
        /\ idempotency' \in [Keys -> KeyRow \cup {None}]
    BY <1>1, <2>1 DEF CreateInvoice, TypeOK
  <2>3. /\ outbox' \in [Invoices -> Seq(OutboxRow)]
        /\ audit' \in [Invoices -> Seq(AuditRow)]
    BY <1>1, TrailTypes DEF CreateInvoice, OutboxTypes, AuditActions, Statuses
  <2> QED
    BY <1>1, <2>2, <2>3 DEF CreateInvoice, TypeOK
<1>2. ASSUME NEW i \in Invoices, NEW next \in ManualStatuses, NEW v \in 1 .. MaxVersion,
             Transition(i, next, v)
      PROVE  TypeOK'
  <2>1. next \in Statuses
    BY DEF ManualStatuses, Statuses
  <2>2. invoices' \in [Invoices -> InvoiceRow \cup {None}]
    BY <1>2, <2>1, SetInvoiceTypes DEF Transition
  <2>3. /\ outbox' \in [Invoices -> Seq(OutboxRow)]
        /\ audit' \in [Invoices -> Seq(AuditRow)]
    BY <1>2, <2>1, TrailTypes DEF Transition, OutboxTypes, AuditActions
  <2> QED
    BY <1>2, <2>2, <2>3 DEF Transition, TypeOK
<1>3. ASSUME NEW cb \in Callbacks, Capture(cb)
      PROVE  TypeOK'
  <2> DEFINE i == cb.invoice
             status == StatusAfterCapture(i, cb.amount)
  <2>1. i \in Invoices /\ status \in Statuses /\ cb.event \in Events
    BY RequestTypes, ComputedStatuses
  <2>2. [invoice |-> i, amount |-> cb.amount, refunded |-> 0,
         status |-> "CAPTURED", version |-> 1] \in PaymentRow
    BY RequestTypes DEF PaymentRow, PaymentStatuses
  <2>3. payments' \in [Payments -> PaymentRow \cup {None}]
    BY <1>3, <2>2, RequestTypes DEF Capture, TypeOK
  <2>4. /\ invoices[i] # None
        /\ SetInvoice(i, status)
        /\ emit(i, "payment.captured.v1", status, cb.event)
        /\ record(i, "payment.captured", cb.event)
    BY <1>3 DEF Capture
  <2> HIDE DEF i, status
  <2>5. invoices' \in [Invoices -> InvoiceRow \cup {None}]
    BY <2>1, <2>4, SetInvoiceTypes
  <2>6. /\ outbox' \in [Invoices -> Seq(OutboxRow)]
        /\ audit' \in [Invoices -> Seq(AuditRow)]
    BY <2>1, <2>4, TrailTypes DEF OutboxTypes, AuditActions
  <2>7. receipts' \in [Events -> Nat \cup {None}]
    BY <1>3, RequestTypes DEF Capture, AcceptReceipt, TypeOK
  <2> QED
    BY <1>3, <2>3, <2>5, <2>6, <2>7 DEF Capture, TypeOK
<1>4. ASSUME NEW cb \in Callbacks, Refund(cb)
      PROVE  TypeOK'
  <2> DEFINE i == cb.invoice
             status == StatusAfterRefund(payments', i)
  <2>1. i \in Invoices /\ status \in Statuses /\ cb.event \in Events
    BY RequestTypes, ComputedStatuses
  <2>2. [payment |-> cb.payment, amount |-> cb.amount] \in RefundRow
    BY RequestTypes DEF RefundRow
  <2>3. refunds' \in [Refunds -> RefundRow \cup {None}]
    BY <1>4, <2>2, RequestTypes DEF Refund, TypeOK
  <2>4. payments[cb.payment] \in PaymentRow
    BY <1>4, RequestTypes DEF Refund, TypeOK
  <2>5. payments' \in [Payments -> PaymentRow \cup {None}]
    BY <1>4, <2>4, RefundedPaymentType, RequestTypes DEF Refund, TypeOK
  <2>6. /\ invoices[i] # None
        /\ SetInvoice(i, status)
        /\ emit(i, "payment.refunded.v1", status, cb.event)
        /\ record(i, "payment.refunded", cb.event)
    BY <1>4 DEF Refund
  <2> HIDE DEF i, status
  <2>7. invoices' \in [Invoices -> InvoiceRow \cup {None}]
    BY <2>1, <2>6, SetInvoiceTypes
  <2>8. /\ outbox' \in [Invoices -> Seq(OutboxRow)]
        /\ audit' \in [Invoices -> Seq(AuditRow)]
    BY <2>1, <2>6, TrailTypes DEF OutboxTypes, AuditActions
  <2>9. receipts' \in [Events -> Nat \cup {None}]
    BY <1>4, RequestTypes DEF Refund, AcceptReceipt, TypeOK
  <2> QED
    BY <1>4, <2>3, <2>5, <2>7, <2>8, <2>9 DEF Refund, TypeOK
<1>5. CASE UNCHANGED vars
  BY <1>5 DEF vars, TypeOK
<1> QED
  BY <1>1, <1>2, <1>3, <1>4, <1>5 DEF Next

\* The empty database is well-typed.
LEMMA TypeOKInit == Init => TypeOK
BY DEF Init, TypeOK

\* Every reachable database is well-typed, whatever requests arrive.
THEOREM TypeCorrect == Spec => []TypeOK
BY TypeOKInit, TypeOKStep, PTL DEF Spec

-----------------------------------------------------------------------------
(* The money                                                               *)

\* What the ledger needs of single rows: no payment is refunded beyond its
\* amount, and every payment belongs to an invoice (the foreign key).
RefundsWithinPayments ==
    \A p \in Payments : payments[p] # None => payments[p].refunded <= payments[p].amount

PaymentsHaveInvoices ==
    \A p \in Payments : payments[p] # None => invoices[payments[p].invoice] # None

\* What it says of one invoice.
InvoiceMoney(i) ==
    invoices[i] # None => /\ captured(i) <= invoices[i].total
                          /\ MoneyFor(i, invoices[i].status)

\* The inductive invariant.  Neither half is inductive alone: whether a
\* capture may complete an invoice depends on the status, and which status a
\* refund sets depends on the money.
MoneyInv ==
    /\ TypeOK
    /\ RefundsWithinPayments
    /\ PaymentsHaveInvoices
    /\ \A i \in Invoices : InvoiceMoney(i)

\* A mark an operator left is never erased: outboxes only grow.
LEMMA MarkedPaidStays ==
    ASSUME TypeOK, NEW i \in Invoices, NEW type, NEW status, NEW event,
           emit(i, type, status, event)
    PROVE  /\ \A j \in Invoices : MarkedPaid(j) => MarkedPaid(j)'
           /\ type = "invoice.status-changed.v1" /\ status = "PAID" => MarkedPaid(i)'
<1> DEFINE e == [type |-> type, status |-> status, event |-> event]
<1>1. outbox'[i] = Append(outbox[i], e)
  BY DEF emit, TypeOK
<1>2. \A j \in Invoices \ {i} : outbox'[j] = outbox[j]
  BY DEF emit, TypeOK
<1>3. outbox[i] \in Seq(OutboxRow)
  BY DEF TypeOK
<1>4. \A k \in DOMAIN outbox[i] : k \in DOMAIN outbox'[i] /\ outbox'[i][k] = outbox[i][k]
  BY <1>1, <1>3
<1>5. Len(outbox[i]) + 1 \in DOMAIN outbox'[i] /\ outbox'[i][Len(outbox[i]) + 1] = e
  BY <1>1, <1>3
<1>6. \A j \in Invoices : MarkedPaid(j) => MarkedPaid(j)'
  BY <1>2, <1>4 DEF MarkedPaid
<1>7. type = "invoice.status-changed.v1" /\ status = "PAID" => MarkedPaid(i)'
  BY <1>5 DEF MarkedPaid
<1> QED
  BY <1>6, <1>7

\* An invoice no request touches keeps its money.
LEMMA MoneyFrame ==
    ASSUME NEW j \in Invoices, InvoiceMoney(j), invoices'[j] = invoices[j],
           capturedTotal(payments', j) = capturedTotal(payments, j),
           refundedTotal(payments', j) = refundedTotal(payments, j),
           MarkedPaid(j) => MarkedPaid(j)'
    PROVE  InvoiceMoney(j)'
BY DEF InvoiceMoney, MoneyFor, captured, refunded

\* An invoice nobody has paid holds nothing.
LEMMA NoPaymentsNoMoney ==
    ASSUME NEW table \in PaymentTable, NEW i \in Invoices, PaymentsOf(table, i) = {}
    PROVE  capturedTotal(table, i) = 0 /\ refundedTotal(table, i) = 0
<1>1. AmountsOf(table, i) \in [{} -> Nat] /\ RefundedOf(table, i) \in [{} -> Nat]
  BY ColumnTypes
<1> QED
  BY <1>1, SumMinorZero DEF capturedTotal, refundedTotal

\* The empty database owes nothing.
LEMMA MoneyInit == Init => MoneyInv
BY TypeOKInit DEF Init, MoneyInv, RefundsWithinPayments, PaymentsHaveInvoices, InvoiceMoney

\* A new invoice holds nothing, and no other is touched.
LEMMA CreateMoney ==
    ASSUME MoneyInv, TypeOK', NEW o \in Orders, NEW i \in Invoices, CreateInvoice(o, i)
    PROVE  MoneyInv'
<1>1. payments' = payments /\ payments \in PaymentTable
  BY DEF CreateInvoice, MoneyInv, TypeOK, PaymentTable
<1>2. /\ invoices'[i] = [total |-> o.total, status |-> "ISSUED", version |-> 1]
      /\ \A j \in Invoices \ {i} : invoices'[j] = invoices[j]
      /\ invoices[i] = None
  BY DEF CreateInvoice, MoneyInv, TypeOK
<1>3. invoices'[i] # None
  <2>1. [total |-> o.total, status |-> "ISSUED", version |-> 1] \in InvoiceRow
    BY RequestTypes DEF InvoiceRow, Statuses
  <2> QED
    BY <1>2, <2>1, NoneAssumption
<1>4. capturedTotal(payments, i) = 0
  <2>1. PaymentsOf(payments, i) = {}
    BY <1>2 DEF MoneyInv, PaymentsHaveInvoices, PaymentsOf
  <2> QED
    BY <1>1, <2>1, NoPaymentsNoMoney
<1>5. InvoiceMoney(i)'
  BY <1>1, <1>2, <1>4, RequestTypes DEF InvoiceMoney, MoneyFor, captured
<1>6. \A j \in Invoices : MarkedPaid(j) => MarkedPaid(j)'
  BY MarkedPaidStays DEF CreateInvoice, MoneyInv
<1>7. \A j \in Invoices \ {i} : InvoiceMoney(j)'
  BY <1>1, <1>2, <1>6, MoneyFrame DEF MoneyInv
<1>8. RefundsWithinPayments' /\ PaymentsHaveInvoices'
  BY <1>1, <1>2, <1>3 DEF MoneyInv, RefundsWithinPayments, PaymentsHaveInvoices, PaymentTable, PaymentRow
<1> QED
  BY <1>5, <1>7, <1>8 DEF MoneyInv

\* An operator moves an invoice to PAID, leaving the mark, or cancels one
\* that holds nothing.
LEMMA TransitionMoney ==
    ASSUME MoneyInv, TypeOK', NEW i \in Invoices, NEW next \in ManualStatuses,
           NEW v \in 1 .. MaxVersion, Transition(i, next, v)
    PROVE  MoneyInv'
<1>1. payments' = payments /\ payments \in PaymentTable
  BY DEF Transition, MoneyInv, TypeOK, PaymentTable
<1>2. TypeOK /\ invoices[i] # None /\ SetInvoice(i, next) /\ next \in Statuses
  BY DEF Transition, MoneyInv, ManualStatuses, Statuses
<1>3. /\ invoices'[i] # None
      /\ invoices'[i].status = next /\ invoices'[i].total = invoices[i].total
      /\ \A j \in Invoices \ {i} : invoices'[j] = invoices[j]
  BY <1>2, SetInvoiceTypes
<1>4. /\ \A j \in Invoices : MarkedPaid(j) => MarkedPaid(j)'
      /\ next = "PAID" => MarkedPaid(i)'
  BY <1>2, MarkedPaidStays DEF Transition
<1>5. \/ next = "PAID" /\ invoices[i].status \in {"ISSUED", "PARTIALLY_PAID"}
      \/ next = "CANCELLED" /\ invoices[i].status = "ISSUED"
  <2>1. next \in invoiceTransitions[invoices[i].status]
    BY DEF Transition, assertInvoiceTransition
  <2>2. invoices[i].status \in Statuses
    BY <1>2 DEF TypeOK, InvoiceRow
  <2> QED
    BY <2>1, <2>2 DEF ManualStatuses, invoiceTransitions, Statuses
<1>6. InvoiceMoney(i)'
  <2>1. captured(i) <= invoices[i].total /\ MoneyFor(i, invoices[i].status)
    BY <1>2 DEF MoneyInv, InvoiceMoney
  <2>2. refunded(i) = 0 /\ (invoices[i].status = "ISSUED" => captured(i) = 0)
    <3>1. captured(i) \in Nat /\ refunded(i) \in Nat /\ refunded(i) <= captured(i)
      BY <1>1, TotalsType, TotalsOrdered DEF MoneyInv, RefundsWithinPayments, captured, refunded
    <3> QED
      BY <1>5, <2>1, <3>1 DEF MoneyFor
  <2>3. captured(i)' = captured(i) /\ refunded(i)' = refunded(i)
    BY <1>1 DEF captured, refunded
  <2>4. MoneyFor(i, next)'
    BY <1>4, <1>5, <2>2, <2>3 DEF MoneyFor
  <2> QED
    BY <1>3, <2>1, <2>3, <2>4 DEF InvoiceMoney
<1>7. \A j \in Invoices \ {i} : InvoiceMoney(j)'
  BY <1>1, <1>3, <1>4, MoneyFrame DEF MoneyInv
<1>8. RefundsWithinPayments' /\ PaymentsHaveInvoices'
  BY <1>1, <1>3 DEF MoneyInv, RefundsWithinPayments, PaymentsHaveInvoices,
                          PaymentTable, PaymentRow
<1> QED
  BY <1>6, <1>7, <1>8 DEF MoneyInv

\* A capture adds its amount to one invoice, within the total, and sets PAID
\* exactly when it completes it.
LEMMA CaptureMoney ==
    ASSUME MoneyInv, TypeOK', NEW cb \in Callbacks, Capture(cb)
    PROVE  MoneyInv'
<1>1. PICK i \in Invoices, p \in Payments, status \in Statuses, row \in PaymentRow :
         /\ i = cb.invoice /\ p = cb.payment
         /\ status = StatusAfterCapture(i, cb.amount)
         /\ row = [invoice |-> i, amount |-> cb.amount, refunded |-> 0,
                   status |-> "CAPTURED", version |-> 1]
  <2>1. [invoice |-> cb.invoice, amount |-> cb.amount, refunded |-> 0,
         status |-> "CAPTURED", version |-> 1] \in PaymentRow
    BY RequestTypes DEF PaymentRow, PaymentStatuses
  <2> QED
    BY <2>1, RequestTypes, ComputedStatuses
<1>2. /\ TypeOK /\ payments \in PaymentTable /\ cb.amount \in Nat /\ 0 < cb.amount
      /\ row.refunded = 0 /\ row.invoice = i /\ row.amount = cb.amount
  BY <1>1, RequestTypes DEF MoneyInv, TypeOK, PaymentTable
<1>3. /\ invoices[i] # None /\ payments[p] = None /\ AcceptsCapture(invoices[i].status)
      /\ WithinTotal(i, cb.amount) /\ SetInvoice(i, status)
      /\ emit(i, "payment.captured.v1", status, cb.event)
      /\ payments' = [payments EXCEPT ![p] = row]
  BY <1>1 DEF Capture
<1>4. /\ captured(i)' = captured(i) + cb.amount /\ refunded(i)' = refunded(i)
      /\ \A j \in Invoices \ {i} : /\ capturedTotal(payments', j) = capturedTotal(payments, j)
                                   /\ refundedTotal(payments', j) = refundedTotal(payments, j)
  <2>1. payments \in PaymentTable /\ AddsPayment(payments, payments', p, row)
    BY <1>2, <1>3 DEF AddsPayment
  <2>2. ASSUME NEW j \in Invoices
        PROVE  capturedTotal(payments', j) = IF j = row.invoice
                                             THEN capturedTotal(payments, j) + row.amount
                                             ELSE capturedTotal(payments, j)
    BY <2>1, InsertAt
  <2>3. ASSUME NEW j \in Invoices
        PROVE  refundedTotal(payments', j) = refundedTotal(payments, j)
    BY <2>1, InsertAt
  <2> QED
    BY <1>2, <2>2, <2>3 DEF captured, refunded
<1>5. captured(i) \in Nat /\ refunded(i) \in Nat /\ refunded(i) <= captured(i)
  BY <1>2, TotalsType, TotalsOrdered DEF MoneyInv, RefundsWithinPayments, captured, refunded
<1>6. /\ invoices'[i] # None
      /\ invoices'[i].status = status /\ invoices'[i].total = invoices[i].total
      /\ \A j \in Invoices \ {i} : invoices'[j] = invoices[j]
  BY <1>2, <1>3, SetInvoiceTypes
<1>7. \A j \in Invoices : MarkedPaid(j) => MarkedPaid(j)'
  BY <1>2, <1>3, MarkedPaidStays
<1>8. InvoiceMoney(i)'
  <2>1. captured(i) <= invoices[i].total /\ MoneyFor(i, invoices[i].status)
    BY <1>3 DEF MoneyInv, InvoiceMoney
  <2>2. refunded(i) = 0
    BY <1>3, <1>5, <2>1 DEF AcceptsCapture, MoneyFor
  <2>3. captured(i)' <= invoices'[i].total
    BY <1>3, <1>4, <1>6 DEF WithinTotal, captured
  <2>4. /\ captured(i)' = invoices'[i].total => status = "PAID"
        /\ captured(i)' # invoices'[i].total => status = "PARTIALLY_PAID"
    BY <1>1, <1>4, <1>6 DEF StatusAfterCapture, captured
  <2>5. invoices[i].total \in Nat
    BY <1>2, <1>3 DEF TypeOK, InvoiceRow
  <2>6. MoneyFor(i, status)'
    BY <1>2, <1>4, <1>5, <1>6, <2>2, <2>3, <2>4, <2>5 DEF MoneyFor
  <2> QED
    BY <1>6, <2>3, <2>6 DEF InvoiceMoney
<1>9. \A j \in Invoices \ {i} : InvoiceMoney(j)'
  BY <1>4, <1>6, <1>7, MoneyFrame DEF MoneyInv
<1>10. RefundsWithinPayments' /\ PaymentsHaveInvoices'
  BY <1>2, <1>3, <1>6 DEF MoneyInv, RefundsWithinPayments, PaymentsHaveInvoices,
                          PaymentTable, PaymentRow
<1> QED
  BY <1>8, <1>9, <1>10 DEF MoneyInv

\* A refund takes its amount from what one invoice holds and sets REFUNDED
\* exactly when nothing is left.
LEMMA RefundMoney ==
    ASSUME MoneyInv, TypeOK', NEW cb \in Callbacks, Refund(cb)
    PROVE  MoneyInv'
<1>1. PICK i \in Invoices, p \in Payments, status \in Statuses :
         /\ i = cb.invoice /\ p = cb.payment
         /\ status = StatusAfterRefund(payments', i)
  BY RequestTypes, ComputedStatuses
<1>2. /\ TypeOK /\ payments \in PaymentTable /\ cb.amount \in Nat /\ 0 < cb.amount
  BY RequestTypes DEF MoneyInv, TypeOK, PaymentTable
<1>3. /\ invoices[i] # None /\ payments[p] # None /\ payments[p].invoice = i
      /\ AcceptsRefund(invoices[i].status) /\ WithinPayment(p, cb.amount)
      /\ SetInvoice(i, status)
      /\ emit(i, "payment.refunded.v1", status, cb.event)
      /\ payments' = [payments EXCEPT ![p] = RefundedPayment(payments[p], cb.amount)]
  BY <1>1 DEF Refund
<1>4. PICK row \in PaymentRow :
         /\ row = RefundedPayment(payments[p], cb.amount)
         /\ row.invoice = i /\ row.amount = payments[p].amount
         /\ row.refunded = payments[p].refunded + cb.amount
  <2>1. payments[p] \in PaymentRow
    BY <1>2, <1>3 DEF PaymentTable
  <2> QED
    BY <1>2, <1>3, <2>1, RefundedPaymentType
<1>5. /\ payments' \in PaymentTable
      /\ \A j \in Invoices : capturedTotal(payments', j) = capturedTotal(payments, j)
      /\ refundedTotal(payments', i) = refundedTotal(payments, i) + cb.amount
      /\ \A j \in Invoices \ {i} : refundedTotal(payments', j) = refundedTotal(payments, j)
  <2>1. /\ payments \in PaymentTable /\ cb.amount \in Nat
        /\ RefundsPayment(payments, payments', p, row, cb.amount)
    BY <1>2, <1>3, <1>4 DEF RefundsPayment
  <2>2. payments' \in PaymentTable
    BY <2>1, RefundAt
  <2>3. ASSUME NEW j \in Invoices
        PROVE  capturedTotal(payments', j) = capturedTotal(payments, j)
    BY <2>1, RefundAt
  <2>4. ASSUME NEW j \in Invoices
        PROVE  refundedTotal(payments', j) = IF j = row.invoice
                                             THEN refundedTotal(payments, j) + cb.amount
                                             ELSE refundedTotal(payments, j)
    BY <2>1, RefundAt
  <2> QED
    BY <1>4, <2>2, <2>3, <2>4
<1>6. /\ invoices'[i] # None
      /\ invoices'[i].status = status /\ invoices'[i].total = invoices[i].total
      /\ \A j \in Invoices \ {i} : invoices'[j] = invoices[j]
  BY <1>2, <1>3, SetInvoiceTypes
<1>7. \A j \in Invoices : MarkedPaid(j) => MarkedPaid(j)'
  BY <1>2, <1>3, MarkedPaidStays
<1>8. RefundsWithinPayments'
  <2>1. row.refunded <= row.amount
    BY <1>3, <1>4 DEF WithinPayment
  <2> QED
    BY <1>2, <1>3, <1>4, <2>1 DEF MoneyInv, RefundsWithinPayments, PaymentTable
<1>9. InvoiceMoney(i)'
  <2>1. captured(i)' = captured(i) /\ refunded(i)' = refunded(i) + cb.amount
    BY <1>5 DEF captured, refunded
  <2>2. captured(i) \in Nat /\ refunded(i) \in Nat
    BY <1>2, TotalsType DEF captured, refunded
  <2>3. refunded(i)' <= captured(i)'
    BY <1>5, <1>8, TotalsOrdered DEF RefundsWithinPayments, captured, refunded
  <2>4. /\ refunded(i)' = captured(i)' => status = "REFUNDED"
        /\ refunded(i)' # captured(i)' => status = "PARTIALLY_REFUNDED"
    BY <1>1 DEF StatusAfterRefund, captured, refunded
  <2>5. MoneyFor(i, status)'
    BY <1>2, <2>1, <2>2, <2>3, <2>4 DEF MoneyFor
  <2>6. captured(i) <= invoices[i].total
    BY <1>3 DEF MoneyInv, InvoiceMoney
  <2> QED
    BY <1>6, <2>1, <2>5, <2>6 DEF InvoiceMoney
<1>10. \A j \in Invoices \ {i} : InvoiceMoney(j)'
  BY <1>5, <1>6, <1>7, MoneyFrame DEF MoneyInv
<1>11. PaymentsHaveInvoices'
  BY <1>2, <1>3, <1>4, <1>6 DEF MoneyInv, PaymentsHaveInvoices, PaymentTable, PaymentRow
<1> QED
  BY <1>8, <1>9, <1>10, <1>11 DEF MoneyInv

\* The invariant is inductive.
LEMMA MoneyStep == MoneyInv /\ [Next]_vars => MoneyInv'
<1> SUFFICES ASSUME MoneyInv, [Next]_vars PROVE MoneyInv'
  OBVIOUS
<1>1. TypeOK'
  BY TypeOKStep DEF MoneyInv
<1>2. CASE UNCHANGED vars
  BY <1>1, <1>2 DEF vars, MoneyInv, RefundsWithinPayments, PaymentsHaveInvoices,
                    InvoiceMoney, MoneyFor, MarkedPaid, captured, refunded
<1> QED
  BY <1>1, <1>2, CreateMoney, TransitionMoney, CaptureMoney, RefundMoney DEF Next

\* What it says, in the words of the checked invariants.
LEMMA MoneyImplies == MoneyInv => CapturedWithinTotal /\ StatusMatchesMoney
BY DEF MoneyInv, InvoiceMoney, CapturedWithinTotal, StatusMatchesMoney

LEMMA MoneyAlways == Spec => []MoneyInv
BY MoneyInit, MoneyStep, PTL DEF Spec

\* No invoice is ever captured beyond its total: for any number of invoices,
\* payments and callbacks, in any order, with operators in between.
THEOREM CaptureSafety == Spec => []CapturedWithinTotal
BY MoneyAlways, MoneyImplies, PTL

\* The status of every invoice tells the truth about its money, always.
THEOREM StatusTruth == Spec => []StatusMatchesMoney
BY MoneyAlways, MoneyImplies, PTL

=============================================================================
