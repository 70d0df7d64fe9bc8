---------------------------- MODULE TrailProofs ----------------------------
(***************************************************************************)
(* Theorems about how the tables of the record tell one story: statuses    *)
(* move along the domain's table, every change leaves one outbox event and *)
(* one audit event, an event of the provider takes effect once, and a key  *)
(* has one invoice.  They hold for every set of ids and requests.          *)
(***************************************************************************)
EXTENDS BillingProofs

-----------------------------------------------------------------------------
(* One change                                                              *)

\* What every transaction that is committed does to an invoice: it inserts it
\* or raises its version, and leaves an outbox event and an audit event.
Changes(i, type, action, event) ==
    /\ invoices'[i] # None
    /\ invoices'[i].version = IF invoices[i] = None THEN 1 ELSE invoices[i].version + 1
    /\ \A j \in Invoices \ {i} : invoices'[j] = invoices[j]
    /\ emit(i, type, invoices'[i].status, event)
    /\ record(i, action, event)

Pairs == {<<"invoice.issued.v1", "invoice.created">>,
          <<"invoice.status-changed.v1", "invoice.status_changed">>,
          <<"payment.captured.v1", "payment.captured">>,
          <<"payment.refunded.v1", "payment.refunded">>}

LEMMA CreateChanges ==
    ASSUME TypeOK, NEW o \in Orders, NEW i \in Invoices, CreateInvoice(o, i)
    PROVE  Changes(i, "invoice.issued.v1", "invoice.created", None)
<1>1. /\ invoices[i] = None
      /\ invoices' = [invoices EXCEPT ![i] =
                         [total |-> o.total, status |-> "ISSUED", version |-> 1]]
      /\ emit(i, "invoice.issued.v1", "ISSUED", None)
      /\ record(i, "invoice.created", None)
  BY DEF CreateInvoice
<1>2. /\ invoices'[i] = [total |-> o.total, status |-> "ISSUED", version |-> 1]
      /\ \A j \in Invoices \ {i} : invoices'[j] = invoices[j]
  BY <1>1 DEF TypeOK
<1>3. invoices'[i] \in InvoiceRow
  BY <1>2, RequestTypes DEF InvoiceRow, Statuses
<1>4. invoices'[i] # None
  BY <1>3, NoneAssumption
<1> QED
  BY <1>1, <1>2, <1>4 DEF Changes

\* So do the three others, which set the status of an invoice that is there.
LEMMA SetInvoiceChanges ==
    ASSUME TypeOK, NEW i \in Invoices, invoices[i] # None, NEW status \in Statuses,
           NEW type, NEW action, NEW event,
           SetInvoice(i, status), emit(i, type, status, event), record(i, action, event)
    PROVE  Changes(i, type, action, event) /\ invoices'[i].status = status
BY SetInvoiceTypes DEF Changes

LEMMA TransitionChanges ==
    ASSUME TypeOK, NEW i \in Invoices, NEW next \in ManualStatuses, NEW v,
           Transition(i, next, v)
    PROVE  /\ Changes(i, "invoice.status-changed.v1", "invoice.status_changed", None)
           /\ invoices[i] # None
           /\ invoices'[i].status = next
<1>1. next \in Statuses
  BY DEF ManualStatuses, Statuses
<1> QED
  BY <1>1, SetInvoiceChanges DEF Transition

LEMMA CaptureChanges ==
    ASSUME TypeOK, NEW cb \in Callbacks, Capture(cb)
    PROVE  /\ Changes(cb.invoice, "payment.captured.v1", "payment.captured", cb.event)
           /\ invoices[cb.invoice] # None
           /\ invoices'[cb.invoice].status = StatusAfterCapture(cb.invoice, cb.amount)
<1>1. cb.invoice \in Invoices /\ StatusAfterCapture(cb.invoice, cb.amount) \in Statuses
  BY RequestTypes, ComputedStatuses
<1> QED
  BY <1>1, SetInvoiceChanges DEF Capture

LEMMA RefundChanges ==
    ASSUME TypeOK, NEW cb \in Callbacks, Refund(cb)
    PROVE  /\ Changes(cb.invoice, "payment.refunded.v1", "payment.refunded", cb.event)
           /\ invoices[cb.invoice] # None
           /\ invoices'[cb.invoice].status = StatusAfterRefund(payments', cb.invoice)
<1>1. cb.invoice \in Invoices /\ StatusAfterRefund(payments', cb.invoice) \in Statuses
  BY RequestTypes, ComputedStatuses
<1> QED
  BY <1>1, SetInvoiceChanges DEF Refund

-----------------------------------------------------------------------------
(* The status                                                              *)

StatusStep ==
    \A i \in Invoices :
        invoices[i] # None /\ invoices'[i].status # invoices[i].status
            => assertInvoiceTransition(invoices[i].status, invoices'[i].status)

LEMMA StatusAtEachStep == ASSUME TypeOK, [Next]_vars PROVE StatusStep
<1>1. ASSUME NEW o \in Orders, NEW i \in Invoices, CreateInvoice(o, i) PROVE StatusStep
  <2>1. invoices[i] = None /\ \A j \in Invoices \ {i} : invoices'[j] = invoices[j]
    BY <1>1, CreateChanges DEF CreateInvoice, Changes
  <2> QED
    BY <2>1 DEF StatusStep
<1>2. ASSUME NEW i \in Invoices, NEW next \in ManualStatuses, NEW v \in 1 .. MaxVersion,
             Transition(i, next, v)
      PROVE  StatusStep
  <2>1. /\ \A j \in Invoices \ {i} : invoices'[j] = invoices[j]
        /\ invoices'[i].status = next
        /\ assertInvoiceTransition(invoices[i].status, next)
    BY <1>2, TransitionChanges DEF Transition, Changes
  <2> QED
    BY <2>1 DEF StatusStep
<1>3. ASSUME NEW cb \in Callbacks, Capture(cb) PROVE StatusStep
  <2> DEFINE i == cb.invoice
  <2>1. /\ \A j \in Invoices \ {i} : invoices'[j] = invoices[j]
        /\ invoices'[i].status \in {"PAID", "PARTIALLY_PAID"}
        /\ invoices[i].status \in {"ISSUED", "PARTIALLY_PAID"}
    BY <1>3, CaptureChanges DEF Capture, Changes, AcceptsCapture, StatusAfterCapture
  <2> QED
    BY <2>1 DEF StatusStep, assertInvoiceTransition, invoiceTransitions
<1>4. ASSUME NEW cb \in Callbacks, Refund(cb) PROVE StatusStep
  <2> DEFINE i == cb.invoice
  <2>1. /\ \A j \in Invoices \ {i} : invoices'[j] = invoices[j]
        /\ invoices'[i].status \in {"REFUNDED", "PARTIALLY_REFUNDED"}
        /\ invoices[i].status \in {"PAID", "PARTIALLY_REFUNDED"}
    BY <1>4, RefundChanges DEF Refund, Changes, AcceptsRefund, StatusAfterRefund
  <2> QED
    BY <2>1 DEF StatusStep, assertInvoiceTransition, invoiceTransitions
<1>5. CASE UNCHANGED vars
  BY <1>5 DEF vars, StatusStep
<1> QED
  BY <1>1, <1>2, <1>3, <1>4, <1>5 DEF Next

\* Every change of an invoice's status, those included that handleWebhook
\* makes without asking assertInvoiceTransition, is one the domain allows.
THEOREM StatusMoves == Spec => StatusFollowsTable
<1>1. TypeOK /\ [Next]_vars => TypeOK' /\ StatusStep
  BY TypeOKStep, StatusAtEachStep
<1>2. StatusStep => [StatusStep]_vars
  OBVIOUS
<1> QED
  BY <1>1, <1>2, TypeOKInit, PTL DEF Spec, StatusFollowsTable, StatusStep

-----------------------------------------------------------------------------
(* The trail                                                               *)

\* Of one invoice.
TrailOf(i) ==
    IF invoices[i] = None
    THEN outbox[i] = <<>> /\ audit[i] = <<>>
    ELSE /\ Len(outbox[i]) = invoices[i].version
         /\ Len(audit[i]) = invoices[i].version
         /\ \A k \in 1 .. invoices[i].version : SameChange(outbox[i][k], audit[i][k])
         /\ outbox[i][invoices[i].version].status = invoices[i].status

TrailInv == TypeOK /\ \A i \in Invoices : TrailOf(i)

LEMMA ChangeKeepsTrail ==
    ASSUME TypeOK, \A j \in Invoices : TrailOf(j), NEW i \in Invoices,
           NEW type, NEW action, <<type, action>> \in Pairs, NEW event,
           Changes(i, type, action, event)
    PROVE  \A j \in Invoices : TrailOf(j)'
<1> DEFINE o == [type |-> type, status |-> invoices'[i].status, event |-> event]
           a == [action |-> action, event |-> event]
           n == invoices'[i].version
<1>1. outbox[i] \in Seq(OutboxRow) /\ audit[i] \in Seq(AuditRow)
  BY DEF TypeOK
<1>2. outbox'[i] = Append(outbox[i], o) /\ audit'[i] = Append(audit[i], a)
  BY DEF Changes, emit, record, TypeOK
<1>3. \A j \in Invoices \ {i} : outbox'[j] = outbox[j] /\ audit'[j] = audit[j]
  BY DEF Changes, emit, record, TypeOK
<1>4. invoices[i] # None => invoices[i].version \in Nat
  BY DEF TypeOK, InvoiceRow
<1>5. /\ Len(outbox[i]) = n - 1 /\ Len(audit[i]) = n - 1 /\ n \in Nat /\ n >= 1
      /\ \A k \in 1 .. n - 1 : SameChange(outbox[i][k], audit[i][k])
  <2>1. CASE invoices[i] = None
    BY <2>1 DEF TrailOf, Changes
  <2>2. CASE invoices[i] # None
    BY <1>4, <2>2 DEF TrailOf, Changes
  <2> QED
    BY <2>1, <2>2
<1>6. SameChange(o, a)
  BY DEF SameChange, Pairs
<1> HIDE DEF o, a, n
<1>7. /\ Len(outbox'[i]) = n /\ Len(audit'[i]) = n
      /\ outbox'[i][n] = o /\ audit'[i][n] = a
      /\ \A k \in 1 .. n - 1 : outbox'[i][k] = outbox[i][k] /\ audit'[i][k] = audit[i][k]
  BY <1>1, <1>2, <1>5
<1>8. \A k \in 1 .. n : SameChange(outbox'[i][k], audit'[i][k])
  BY <1>5, <1>6, <1>7
<1>9. TrailOf(i)'
  <2>1. o.status = invoices'[i].status /\ invoices'[i] # None
    BY DEF o, Changes
  <2> QED
    BY <1>7, <1>8, <2>1 DEF TrailOf, n, SameChange
<1>10. ASSUME NEW j \in Invoices \ {i} PROVE TrailOf(j)'
  BY <1>3 DEF TrailOf, Changes, SameChange
<1> QED
  BY <1>9, <1>10

LEMMA TrailPreserved ==
    ASSUME TypeOK, \A j \in Invoices : TrailOf(j), [Next]_vars
    PROVE  \A j \in Invoices : TrailOf(j)'
<1>1. ASSUME NEW o \in Orders, NEW i \in Invoices, CreateInvoice(o, i)
      PROVE  \A j \in Invoices : TrailOf(j)'
  BY <1>1, CreateChanges, ChangeKeepsTrail DEF Pairs
<1>2. ASSUME NEW i \in Invoices, NEW next \in ManualStatuses, NEW v \in 1 .. MaxVersion,
             Transition(i, next, v)
      PROVE  \A j \in Invoices : TrailOf(j)'
  BY <1>2, TransitionChanges, ChangeKeepsTrail DEF Pairs
<1>3. ASSUME NEW cb \in Callbacks, Capture(cb) PROVE \A j \in Invoices : TrailOf(j)'
  BY <1>3, RequestTypes, CaptureChanges, ChangeKeepsTrail DEF Pairs
<1>4. ASSUME NEW cb \in Callbacks, Refund(cb) PROVE \A j \in Invoices : TrailOf(j)'
  BY <1>4, RequestTypes, RefundChanges, ChangeKeepsTrail DEF Pairs
<1>5. CASE UNCHANGED vars
  BY <1>5 DEF vars, TrailOf, SameChange
<1> QED
  BY <1>1, <1>2, <1>3, <1>4, <1>5 DEF Next

\* An invoice at version n has n outbox events and n audit events, in pairs,
\* and the last one tells its status: whatever InvoiceService and
\* PaymentService commit, in any order.
THEOREM TrailComplete == Spec => []TrailMatches
<1>1. Init => TrailInv
  BY TypeOKInit DEF Init, TrailInv, TrailOf
<1>2. TrailInv => TrailMatches
  BY DEF TrailInv, TrailOf, TrailMatches
<1>3. TrailInv /\ [Next]_vars => TrailInv'
  BY TypeOKStep, TrailPreserved DEF TrailInv
<1> QED
  BY <1>1, <1>2, <1>3, PTL DEF Spec

-----------------------------------------------------------------------------
(* The keys                                                                *)

KeyOf(i) == IF invoices[i] = None THEN KeysOf(i) = {} ELSE \E k : KeysOf(i) = {k}

KeyedInv == TypeOK /\ \A i \in Invoices : KeyOf(i)

LEMMA CreateTakesKey ==
    ASSUME KeyedInv, NEW o \in Orders, NEW i \in Invoices, CreateInvoice(o, i)
    PROVE  \A j \in Invoices : KeyOf(j)'
<1>1. o.key \in Keys /\ idempotency[o.key] = None /\ invoices[i] = None
  BY RequestTypes DEF CreateInvoice, KeyIsNew
<1>2. /\ idempotency'[o.key] = [hash |-> o.hash, invoice |-> i]
      /\ \A k \in Keys \ {o.key} : idempotency'[k] = idempotency[k]
  BY <1>1 DEF CreateInvoice, KeyedInv, TypeOK
<1>3. idempotency'[o.key] # None
  <2>1. [hash |-> o.hash, invoice |-> i] \in KeyRow
    BY RequestTypes DEF KeyRow
  <2> QED
    BY <1>2, <2>1, NoneAssumption
<1>4. invoices'[i] # None /\ \A j \in Invoices \ {i} : invoices'[j] = invoices[j]
  BY CreateChanges DEF Changes, KeyedInv
<1>5. KeysOf(i)' = {o.key}
  <2>1. KeysOf(i) = {}
    BY <1>1 DEF KeyedInv, KeyOf
  <2> QED
    BY <1>1, <1>2, <1>3, <2>1 DEF KeysOf
<1>6. ASSUME NEW j \in Invoices \ {i} PROVE KeysOf(j)' = KeysOf(j)
  BY <1>1, <1>2, <1>3 DEF KeysOf
<1>7. KeyOf(i)'
  BY <1>4, <1>5 DEF KeyOf
<1>8. ASSUME NEW j \in Invoices \ {i} PROVE KeyOf(j)'
  BY <1>4, <1>6 DEF KeyOf, KeyedInv
<1> QED
  BY <1>7, <1>8

LEMMA KeysStay ==
    ASSUME KeyedInv, idempotency' = idempotency,
           \A j \in Invoices : invoices'[j] = None <=> invoices[j] = None
    PROVE  \A j \in Invoices : KeyOf(j)'
<1>1. \A j \in Invoices : KeysOf(j)' = KeysOf(j)
  BY DEF KeysOf
<1> QED
  BY <1>1 DEF KeyedInv, KeyOf

LEMMA KeyedInvPreserved == ASSUME KeyedInv, [Next]_vars PROVE KeyedInv'
<1>1. TypeOK /\ TypeOK'
  BY TypeOKStep DEF KeyedInv
<1>2. ASSUME NEW i \in Invoices, NEW next \in ManualStatuses, NEW v \in 1 .. MaxVersion,
             Transition(i, next, v)
      PROVE  KeyedInv'
  <2>1. idempotency' = idempotency /\ \A j \in Invoices : invoices'[j] = None <=> invoices[j] = None
    BY <1>1, <1>2, TransitionChanges DEF Transition, Changes
  <2> QED
    BY <1>1, <2>1, KeysStay DEF KeyedInv
<1>3. ASSUME NEW cb \in Callbacks, Capture(cb) PROVE KeyedInv'
  <2>1. idempotency' = idempotency /\ \A j \in Invoices : invoices'[j] = None <=> invoices[j] = None
    BY <1>1, <1>3, CaptureChanges DEF Capture, Changes
  <2> QED
    BY <1>1, <2>1, KeysStay DEF KeyedInv
<1>4. ASSUME NEW cb \in Callbacks, Refund(cb) PROVE KeyedInv'
  <2>1. idempotency' = idempotency /\ \A j \in Invoices : invoices'[j] = None <=> invoices[j] = None
    BY <1>1, <1>4, RefundChanges DEF Refund, Changes
  <2> QED
    BY <1>1, <2>1, KeysStay DEF KeyedInv
<1>5. CASE UNCHANGED vars
  BY <1>1, <1>5, KeysStay DEF vars, KeyedInv
<1> QED
  BY <1>1, <1>2, <1>3, <1>4, <1>5, CreateTakesKey DEF Next, KeyedInv

\* An invoice has the one key it was created under, and a key one invoice
\* (InvoiceService.create and the unique index of idempotency_records).
THEOREM OneKeyEach == Spec => []OneInvoicePerKey
<1>1. Init => KeyedInv
  BY TypeOKInit DEF Init, KeyedInv, KeyOf, KeysOf
<1>2. KeyedInv => OneInvoicePerKey
  <2> SUFFICES ASSUME KeyedInv, NEW i \in Invoices
               PROVE  Cardinality(KeysOf(i)) = IF invoices[i] = None THEN 0 ELSE 1
    BY DEF OneInvoicePerKey
  <2>1. CASE invoices[i] = None
    BY <2>1, FS_EmptySet DEF KeyedInv, KeyOf
  <2>2. CASE invoices[i] # None
    <3>1. PICK k : KeysOf(i) = {k}
      BY <2>2 DEF KeyedInv, KeyOf
    <3> QED
      BY <2>2, <3>1, FS_Singleton
  <2> QED
    BY <2>1, <2>2
<1> QED
  BY <1>1, <1>2, KeyedInvPreserved, PTL DEF Spec

-----------------------------------------------------------------------------
(* The events                                                              *)

MarkOf(e) == IF receipts[e] = None THEN EffectsOf(e) = {} ELSE \E x : EffectsOf(e) = {x}

MarkedInv == TypeOK /\ \A e \in Events : MarkOf(e)

\* An outbox event is appended: it is an effect of its provider event alone.
LEMMA EffectAppended ==
    ASSUME TypeOK, NEW i \in Invoices, NEW type, NEW status, NEW event,
           emit(i, type, status, event), NEW e \in Events
    PROVE  EffectsOf(e)' = IF e = event THEN EffectsOf(e) \cup {<<i, Len(outbox[i]) + 1>>}
                                        ELSE EffectsOf(e)
<1> DEFINE row == [type |-> type, status |-> status, event |-> event]
           n == Len(outbox[i]) + 1
<1>1. outbox[i] \in Seq(OutboxRow) /\ outbox'[i] = Append(outbox[i], row)
  BY DEF TypeOK, emit
<1>2. /\ n \in Nat /\ n >= 1 /\ DOMAIN outbox[i] = 1 .. n - 1 /\ DOMAIN outbox'[i] = 1 .. n
      /\ outbox'[i][n] = row
      /\ \A k \in 1 .. n - 1 : outbox'[i][k] = outbox[i][k]
  BY <1>1
<1>3. \A j \in Invoices \ {i} : outbox'[j] = outbox[j]
  BY DEF TypeOK, emit
<1>4. row.event = event
  OBVIOUS
<1> HIDE DEF row, n
<1> DEFINE Marks(j) == {k \in DOMAIN outbox[j] : outbox[j][k].event = e}
<1>5. \A j \in Invoices \ {i} : Marks(j)' = Marks(j)
  BY <1>3
<1>6. Marks(i)' = IF e = event THEN Marks(i) \cup {n} ELSE Marks(i)
  <2>1. /\ \A k \in 1 .. n : k \in 1 .. n - 1 \/ k = n
        /\ \A k \in 1 .. n - 1 : k \in 1 .. n
        /\ n \in 1 .. n
        /\ n \notin 1 .. n - 1
    BY <1>2
  <2>2. Marks(i) = {k \in 1 .. n - 1 : outbox[i][k].event = e}
    BY <1>2
  <2>3. Marks(i)' = {k \in 1 .. n : outbox'[i][k].event = e}
    BY <1>2
  <2>4. outbox'[i][n].event = event
    BY <1>2, <1>4
  <2>5. ASSUME NEW k \in 1 .. n - 1
        PROVE  k \in Marks(i)' <=> k \in Marks(i)
    BY <1>2, <2>1, <2>2, <2>3
  <2>6. n \in Marks(i)' <=> e = event
    BY <2>1, <2>3, <2>4
  <2>7. Marks(i) \subseteq 1 .. n - 1 /\ Marks(i)' \subseteq (1 .. n - 1) \cup {n}
    BY <2>1, <2>2, <2>3
  <2> HIDE DEF Marks
  <2>8. CASE e = event
    BY <2>5, <2>6, <2>7, <2>8
  <2>9. CASE e # event
    BY <2>5, <2>6, <2>7, <2>9
  <2> QED
    BY <2>8, <2>9
<1>7. EffectsOf(e) = UNION {{j} \X Marks(j) : j \in Invoices}
  BY DEF EffectsOf
<1>8. EffectsOf(e)' = UNION {{j} \X Marks(j)' : j \in Invoices}
  BY DEF EffectsOf
<1> HIDE DEF Marks
<1>9. CASE e = event
  <2>1. {i} \X Marks(i)' = ({i} \X Marks(i)) \cup {<<i, n>>}
    BY <1>6, <1>9
  <2>2. ASSUME NEW x
        PROVE  x \in EffectsOf(e)' <=> x \in EffectsOf(e) \cup {<<i, n>>}
    <3>1. x \in EffectsOf(e)' <=> \E j \in Invoices : x \in {j} \X Marks(j)'
      BY <1>8
    <3>2. x \in EffectsOf(e) <=> \E j \in Invoices : x \in {j} \X Marks(j)
      BY <1>7
    <3>3. x \in {i} \X Marks(i)' <=> x \in ({i} \X Marks(i)) \cup {<<i, n>>}
      BY <2>1
    <3>4. \A j \in Invoices \ {i} : {j} \X Marks(j)' = {j} \X Marks(j)
      BY <1>5
    <3> QED
      BY <3>1, <3>2, <3>3, <3>4
  <2> QED
    BY <1>9, <2>2 DEF n
<1>10. CASE e # event
  BY <1>5, <1>6, <1>7, <1>8, <1>10
<1> QED
  BY <1>9, <1>10

\* A transaction of the provider's: its event had no receipt and no effect.
LEMMA AcceptedMarks ==
    ASSUME MarkedInv, NEW cb \in Callbacks, NEW i \in Invoices, NEW type, NEW status,
           receipts[cb.event] = None, AcceptReceipt(cb), emit(i, type, status, cb.event)
    PROVE  \A e \in Events : MarkOf(e)'
<1>1. cb.event \in Events /\ cb.hash \in Nat /\ cb.hash # None
  BY RequestTypes, NoneAssumption
<1>2. /\ receipts'[cb.event] = cb.hash
      /\ \A e \in Events \ {cb.event} : receipts'[e] = receipts[e]
  BY <1>1 DEF AcceptReceipt, MarkedInv, TypeOK
<1>3. MarkOf(cb.event)'
  <2>1. EffectsOf(cb.event) = {}
    BY <1>1 DEF MarkedInv, MarkOf
  <2>2. EffectsOf(cb.event)' = {<<i, Len(outbox[i]) + 1>>}
    BY <1>1, <2>1, EffectAppended DEF MarkedInv
  <2> QED
    BY <1>1, <1>2, <2>2 DEF MarkOf
<1>4. ASSUME NEW e \in Events, e # cb.event PROVE MarkOf(e)'
  <2>1. EffectsOf(e)' = EffectsOf(e)
    BY <1>4, EffectAppended DEF MarkedInv
  <2> QED
    BY <1>2, <1>4, <2>1 DEF MarkedInv, MarkOf
<1> QED
  BY <1>3, <1>4

\* A client's or an operator's: no provider event has to do with it.
LEMMA OthersMarkNothing ==
    ASSUME MarkedInv, NEW i \in Invoices, NEW type, NEW status, receipts' = receipts,
           emit(i, type, status, None)
    PROVE  \A e \in Events : MarkOf(e)'
<1>1. ASSUME NEW e \in Events PROVE EffectsOf(e)' = EffectsOf(e)
  BY EffectAppended, NoneAssumption DEF MarkedInv
<1> QED
  BY <1>1 DEF MarkedInv, MarkOf

LEMMA MarkedInvPreserved == ASSUME MarkedInv, [Next]_vars PROVE MarkedInv'
<1>1. TypeOK'
  BY TypeOKStep DEF MarkedInv
<1>2. ASSUME NEW o \in Orders, NEW i \in Invoices, CreateInvoice(o, i) PROVE MarkedInv'
  BY <1>1, <1>2, OthersMarkNothing DEF CreateInvoice, MarkedInv
<1>3. ASSUME NEW i \in Invoices, NEW next \in ManualStatuses, NEW v \in 1 .. MaxVersion,
             Transition(i, next, v)
      PROVE  MarkedInv'
  BY <1>1, <1>3, OthersMarkNothing DEF Transition, MarkedInv
<1>4. ASSUME NEW cb \in Callbacks, Capture(cb) PROVE MarkedInv'
  BY <1>1, <1>4, RequestTypes, AcceptedMarks DEF Capture, MarkedInv
<1>5. ASSUME NEW cb \in Callbacks, Refund(cb) PROVE MarkedInv'
  BY <1>1, <1>5, RequestTypes, AcceptedMarks DEF Refund, MarkedInv
<1>6. CASE UNCHANGED vars
  <2>1. \A e \in Events : EffectsOf(e)' = EffectsOf(e)
    BY <1>6 DEF vars, EffectsOf
  <2> QED
    BY <1>1, <1>6, <2>1 DEF vars, MarkedInv, MarkOf
<1> QED
  BY <1>2, <1>3, <1>4, <1>5, <1>6 DEF Next

\* A provider event that was accepted has one effect, and no other has any:
\* the receipt of handleWebhook is neither lost nor early.
THEOREM OneEffectEach == Spec => []EventEffectsOnce
<1>1. Init => MarkedInv
  <2> SUFFICES ASSUME Init PROVE \A e \in Events : MarkOf(e)
    BY TypeOKInit DEF MarkedInv
  <2>1. \A i \in Invoices : DOMAIN outbox[i] = {}
    BY DEF Init
  <2> QED
    BY <2>1 DEF Init, MarkOf, EffectsOf
<1>2. MarkedInv => EventEffectsOnce
  <2> SUFFICES ASSUME MarkedInv, NEW e \in Events
               PROVE  Cardinality(EffectsOf(e)) = IF receipts[e] = None THEN 0 ELSE 1
    BY DEF EventEffectsOnce
  <2>1. CASE receipts[e] = None
    BY <2>1, FS_EmptySet DEF MarkedInv, MarkOf
  <2>2. CASE receipts[e] # None
    <3>1. PICK x : EffectsOf(e) = {x}
      BY <2>2 DEF MarkedInv, MarkOf
    <3> QED
      BY <2>2, <3>1, FS_Singleton
  <2> QED
    BY <2>1, <2>2
<1> QED
  BY <1>1, <1>2, MarkedInvPreserved, PTL DEF Spec

-----------------------------------------------------------------------------
(* The refunds                                                             *)

RefundAmounts(p) == [r \in RefundsOf(p) |-> refunds[r].amount]

\* What RefundLedger says of one payment; a payment of nothing could be none
\* and all refunded at once.
LedgerOf(p) ==
    payments[p] # None =>
        /\ 0 < payments[p].amount
        /\ payments[p].refunded = SumMinor(RefundAmounts(p))
        /\ payments[p].refunded <= payments[p].amount
        /\ payments[p].status = "CAPTURED" <=> payments[p].refunded = 0
        /\ payments[p].status = "REFUNDED" <=> payments[p].refunded = payments[p].amount

LedgerInv ==
    /\ TypeOK
    /\ \A p \in Payments : LedgerOf(p)
    /\ \A r \in Refunds : refunds[r] # None => payments[refunds[r].payment] # None

\* The refunds of a payment are finitely many amounts.
LEMMA RefundsOfFinite ==
    ASSUME TypeOK, NEW p \in Payments
    PROVE  /\ IsFiniteSet(RefundsOf(p))
           /\ RefundAmounts(p) \in [RefundsOf(p) -> Nat]
<1>1. RefundsOf(p) \in SUBSET Refunds
  BY DEF RefundsOf
<1>2. \A r \in RefundsOf(p) : refunds[r].amount \in Nat
  BY DEF RefundsOf, TypeOK, RefundRow
<1> QED
  BY <1>1, <1>2, FiniteAssumption, FS_Subset DEF RefundAmounts

LEMMA LedgerFrame ==
    ASSUME LedgerInv, TypeOK', UNCHANGED <<payments, refunds>>
    PROVE  LedgerInv'
BY DEF LedgerInv, LedgerOf, RefundAmounts, RefundsOf

\* No refund names a payment that is not there yet.
LEMMA CaptureLedger ==
    ASSUME LedgerInv, TypeOK', NEW cb \in Callbacks, Capture(cb)
    PROVE  LedgerInv'
<1> DEFINE p == cb.payment
<1>1. /\ p \in Payments /\ cb.amount \in Nat /\ 0 < cb.amount
      /\ payments[p] = None /\ refunds' = refunds
  BY RequestTypes DEF Capture
<1>2. /\ payments'[p].amount = cb.amount /\ payments'[p].refunded = 0
      /\ payments'[p].status = "CAPTURED" /\ payments'[p] # None
      /\ \A q \in Payments \ {p} : payments'[q] = payments[q]
  <2>1. [invoice |-> cb.invoice, amount |-> cb.amount, refunded |-> 0,
         status |-> "CAPTURED", version |-> 1] \in PaymentRow
    BY RequestTypes DEF PaymentRow, PaymentStatuses
  <2> QED
    BY <1>1, <2>1, NoneAssumption DEF Capture, LedgerInv, TypeOK
<1>3. LedgerOf(p)'
  <2>1. RefundsOf(p) = {}
    BY <1>1 DEF LedgerInv, RefundsOf
  <2>2. SumMinor(RefundAmounts(p)) = 0
    BY <1>1, <2>1, RefundsOfFinite, SumMinorZero DEF LedgerInv
  <2>3. RefundAmounts(p)' = RefundAmounts(p)
    BY <1>1 DEF RefundAmounts, RefundsOf
  <2> QED
    BY <1>1, <1>2, <2>2, <2>3 DEF LedgerOf
<1>4. ASSUME NEW q \in Payments \ {p} PROVE LedgerOf(q)'
  BY <1>1, <1>2 DEF LedgerInv, LedgerOf, RefundAmounts, RefundsOf
<1>5. ASSUME NEW r \in Refunds, refunds[r] # None PROVE payments'[refunds[r].payment] # None
  <2>1. refunds[r].payment \in Payments
    BY <1>5 DEF LedgerInv, TypeOK, RefundRow
  <2> QED
    BY <1>2, <1>5, <2>1 DEF LedgerInv
<1> QED
  BY <1>1, <1>3, <1>4, <1>5 DEF LedgerInv

\* A refund adds its row to those of its payment, and as much to the payment's
\* running total.
LEMMA RefundLedgerStep ==
    ASSUME LedgerInv, TypeOK', NEW cb \in Callbacks, Refund(cb)
    PROVE  LedgerInv'
<1> DEFINE p == cb.payment
           s == cb.refund
<1>1. /\ p \in Payments /\ s \in Refunds /\ cb.amount \in Nat /\ 0 < cb.amount
      /\ payments[p] # None /\ payments[p] \in PaymentRow /\ refunds[s] = None
      /\ payments[p].refunded + cb.amount <= payments[p].amount
  BY RequestTypes DEF Refund, WithinPayment, LedgerInv, TypeOK
<1>2. /\ payments'[p] = RefundedPayment(payments[p], cb.amount)
      /\ \A q \in Payments \ {p} : payments'[q] = payments[q]
      /\ refunds'[s] = [payment |-> p, amount |-> cb.amount]
      /\ \A r \in Refunds \ {s} : refunds'[r] = refunds[r]
  BY <1>1 DEF Refund, LedgerInv, TypeOK
<1>3. /\ payments'[p] # None
      /\ payments'[p].amount = payments[p].amount
      /\ payments'[p].refunded = payments[p].refunded + cb.amount
      /\ payments'[p].status = PaymentStatusAfter(payments[p], cb.amount)
  <2>1. payments'[p].status = PaymentStatusAfter(payments[p], cb.amount)
    BY <1>1, <1>2 DEF RefundedPayment, PaymentRow
  <2> QED
    BY <1>1, <1>2, <2>1, RefundedPaymentType, NoneAssumption
<1>4. refunds'[s] # None
  BY <1>1, <1>2, NoneAssumption DEF RefundRow
<1>5. LedgerOf(p)'
  <2>1. RefundsOf(p)' = RefundsOf(p) \cup {s} /\ s \notin RefundsOf(p)
    BY <1>1, <1>2, <1>4 DEF RefundsOf
  <2>2. /\ RefundAmounts(p)' \in [RefundsOf(p) \cup {s} -> Nat]
        /\ RefundAmounts(p)'[s] = cb.amount
        /\ \A r \in RefundsOf(p) : RefundAmounts(p)'[r] = RefundAmounts(p)[r]
    <3>1. RefundAmounts(p)' \in [RefundsOf(p)' -> Nat]
      BY DEF TypeOK, RefundRow, RefundAmounts, RefundsOf
    <3> QED
      BY <1>1, <1>2, <2>1, <3>1 DEF RefundAmounts, RefundsOf
  <2>3. SumMinor(RefundAmounts(p)') = SumMinor(RefundAmounts(p)) + cb.amount
    <3> HIDE DEF p, s
    <3> QED
      BY <1>1, <2>1, <2>2, RefundsOfFinite, SumMinorAdd DEF LedgerInv
  <2>4. LedgerOf(p) /\ payments[p].refunded \in Nat
    BY <1>1 DEF LedgerInv, PaymentRow
  <2>5. /\ payments'[p].refunded = SumMinor(RefundAmounts(p)')
        /\ 0 < payments'[p].refunded
        /\ payments'[p].refunded <= payments'[p].amount
        /\ 0 < payments'[p].amount
    BY <1>1, <1>3, <2>3, <2>4 DEF LedgerOf
  <2>6. /\ payments'[p].status # "CAPTURED"
        /\ payments'[p].status = "REFUNDED" <=> payments'[p].refunded = payments'[p].amount
    BY <1>3 DEF PaymentStatusAfter
  <2> QED
    BY <2>5, <2>6 DEF LedgerOf
<1>6. ASSUME NEW q \in Payments \ {p} PROVE LedgerOf(q)'
  <2>1. RefundsOf(q)' = RefundsOf(q) /\ s \notin RefundsOf(q)
    BY <1>1, <1>2 DEF RefundsOf
  <2>2. RefundAmounts(q)' = RefundAmounts(q)
    BY <1>2, <2>1 DEF RefundAmounts, RefundsOf
  <2> QED
    BY <1>2, <2>2 DEF LedgerInv, LedgerOf
<1>7. ASSUME NEW r \in Refunds, refunds'[r] # None PROVE payments'[refunds'[r].payment] # None
  <2>1. CASE r = s
    BY <1>2, <1>3, <2>1
  <2>2. CASE r # s
    <3>1. refunds[r].payment \in Payments
      BY <1>2, <1>7, <2>2 DEF LedgerInv, TypeOK, RefundRow
    <3> QED
      BY <1>2, <1>3, <1>7, <2>2, <3>1 DEF LedgerInv
  <2> QED
    BY <2>1, <2>2
<1> QED
  BY <1>5, <1>6, <1>7 DEF LedgerInv

\* The running total in a payment row is the sum of the refund rows that name
\* it, within the captured amount, and its status tells how much of it went
\* back: in whatever order the provider's callbacks are committed.
THEOREM RefundsAddUp == Spec => []RefundLedger
<1>1. Init => LedgerInv
  BY TypeOKInit DEF Init, LedgerInv, LedgerOf
<1>2. LedgerInv /\ [Next]_vars => LedgerInv'
  <2> SUFFICES ASSUME LedgerInv, [Next]_vars PROVE LedgerInv'
    OBVIOUS
  <2>1. TypeOK'
    BY TypeOKStep DEF LedgerInv
  <2>2. ASSUME NEW o \in Orders, NEW i \in Invoices, CreateInvoice(o, i) PROVE LedgerInv'
    BY <2>1, <2>2, LedgerFrame DEF CreateInvoice
  <2>3. ASSUME NEW i \in Invoices, NEW next \in ManualStatuses, NEW v \in 1 .. MaxVersion,
               Transition(i, next, v)
        PROVE  LedgerInv'
    BY <2>1, <2>3, LedgerFrame DEF Transition
  <2>4. CASE UNCHANGED vars
    BY <2>1, <2>4, LedgerFrame DEF vars
  <2> QED
    BY <2>1, <2>2, <2>3, <2>4, CaptureLedger, RefundLedgerStep DEF Next
<1>3. LedgerInv => RefundLedger
  BY DEF LedgerInv, LedgerOf, RefundAmounts, RefundLedger
<1> QED
  BY <1>1, <1>2, <1>3, PTL DEF Spec

=============================================================================
