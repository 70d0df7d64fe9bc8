-------------------------- MODULE WebhookTxProofs --------------------------
(***************************************************************************)
(* Theorems about PaymentService.handleWebhook and                         *)
(* InvoiceService.transition on the same rows: for any handlers, rows,     *)
(* callbacks, status changes and faults, the locks keep what a handler has *)
(* read until it commits, no INSERT finds its id taken, and what the       *)
(* handlers do to the tables is what Billing allows.                       *)
(***************************************************************************)
EXTENDS WebhookTx, BillingProofs

-----------------------------------------------------------------------------
(* The invariant                                                           *)

\* The indexes in which an id has one row; byInvoice is not one.
Unique == {"receipts", "payments", "refunds", "invoices"}

Locks == (Unique \cup {"byInvoice"}) \X Nat \X {"S", "X", "gap"}

OfOperator == {"readInvoice", "casInvoice", "commitChange"}
OfCallback == Statements \ OfOperator
OfCapture == {"findPayment", "sumCaptured", "insertPayment"}
OfRefund == {"lockPayment", "findRefund", "insertRefund", "updatePayment", "sumPayments"}

\* The last ones, which captures and refunds have in common.
Ending == {"insertReceipt", "commit"}

\* The rows a handler works on are not locked yet.
Beginning == {"findReceipt", "lockPayment", "lockInvoice"}

Memory == [invoice : InvoiceRow \cup {None}, payment : PaymentRow \cup {None},
           status : Statuses \cup {None}]

TxTypes ==
    /\ TypeOK
    /\ pc \in [Handlers -> Statements \cup {"idle", "answer"}]
    /\ request \in [Handlers -> Callbacks \cup StatusChanges \cup {None}]
    /\ memory \in [Handlers -> Memory]
    /\ answer \in [Handlers -> Outcomes \cup {None}]
    /\ faults \in 0 .. MaxFaults
    /\ locks \in [Handlers -> SUBSET Locks]

Captures(h) == request[h].type = "payment.captured"
Refunding(h) == request[h].type = "payment.refunded"

Has(h, index, id) == <<index, id, "X">> \in locks[h]
Blocks(h, index, id) == \E mode \in {"S", "X", "gap"} : <<index, id, mode>> \in locks[h]

\* Who is at a statement of a callback works on a callback, and of the kind
\* the statement is for.
RequestOf(h) ==
    /\ pc[h] \in OfCallback => request[h] \in Callbacks
    /\ pc[h] \in OfOperator => request[h] \in StatusChanges
    /\ pc[h] \in OfCapture => Captures(h)
    /\ pc[h] \in OfRefund => Refunding(h)
    /\ pc[h] \in OfCallback \ {"findReceipt"} /\ Refunding(h) => request[h].refund # None

\* Outside of a transaction, and before its first lock, there is nothing.
NothingOf(h) ==
    /\ pc[h] # "answer" => answer[h] = None
    /\ pc[h] \in {"idle", "answer", "findReceipt", "readInvoice"} =>
           locks[h] = {} /\ memory[h] = Nothing
    /\ pc[h] = "casInvoice" => locks[h] = {}

\* Of the event.
ReceiptOf(h) ==
    pc[h] \in OfCallback \ {"findReceipt"} =>
        /\ receipts[request[h].event] = None
        /\ Blocks(h, "receipts", request[h].event)
        /\ pc[h] = "commit" => Has(h, "receipts", request[h].event)

\* Of the payment a refund has locked, and of the one a capture inserts.
PaymentOf(h) ==
    LET p == request[h].payment IN
    /\ pc[h] \in OfCallback /\ Captures(h) =>
           /\ memory[h].payment = None
           /\ pc[h] \in {"sumCaptured", "insertPayment"} \cup Ending =>
                  payments[p] = None /\ Blocks(h, "payments", p)
           /\ pc[h] \in Ending => Has(h, "payments", p)
    /\ pc[h] \in OfCallback \ {"findReceipt", "lockPayment"} /\ Refunding(h) =>
           /\ payments[p] # None
           /\ memory[h].payment = payments[p]
           /\ Has(h, "payments", p)
    /\ pc[h] = "lockPayment" => memory[h].payment = None

\* Of the invoice, once it is locked.
InvoiceOf(h) ==
    LET i == request[h].invoice IN
    /\ pc[h] \in Beginning => memory[h].invoice = None
    /\ pc[h] \in OfCallback \ Beginning =>
           /\ invoices[i] # None
           /\ memory[h].invoice = invoices[i]
           /\ Has(h, "invoices", i)
           /\ Captures(h) => AcceptsCapture(invoices[i].status)
           /\ Refunding(h) => MayRefund(request[h], memory[h].payment, memory[h].invoice)

\* Of the refund row.
RefundOf(h) ==
    LET r == request[h].refund IN
    /\ pc[h] \in {"insertRefund", "updatePayment", "sumPayments"} \cup Ending /\ Refunding(h) =>
           /\ refunds[r] = None
           /\ Blocks(h, "refunds", r)
           /\ pc[h] # "insertRefund" => Has(h, "refunds", r)

\* Of the sums, and the status computed from them.
StatusOf(h) ==
    LET i == request[h].invoice
        summed == \/ pc[h] \in {"insertPayment"} \cup Ending /\ Captures(h)
                  \/ pc[h] \in Ending /\ Refunding(h)
    IN  /\ pc[h] \in OfCallback /\ ~summed => memory[h].status = None
        /\ summed /\ Captures(h) => /\ memory[h].status = StatusAfterCapture(i, request[h].amount)
                                    /\ WithinTotal(i, request[h].amount)
        /\ summed /\ Refunding(h) => memory[h].status = StatusAfterRefund(PaymentsSeen(h), i)

\* Of an operator's change: as long as the version is the one that was read,
\* so is the row.
ChangeOf(h) ==
    LET i == request[h].invoice
        row == memory[h].invoice
    IN  /\ pc[h] \in {"casInvoice", "commitChange"} =>
               /\ invoices[i] # None /\ row \in InvoiceRow
               /\ row.version = request[h].expectedVersion
               /\ row.version <= invoices[i].version
               /\ row.version = invoices[i].version => row = invoices[i]
               /\ assertInvoiceTransition(row.status, request[h].next)
        /\ pc[h] = "commitChange" => row = invoices[i] /\ Has(h, "invoices", i)

\* A callback that was accepted or recognised is on record.
AnswerOf(h) ==
    request[h] \in Callbacks /\ answer[h] \in {"accepted", "duplicate"}
        => receipts[request[h].event] = request[h].hash

HandlerInv(h) ==
    /\ RequestOf(h)
    /\ NothingOf(h)
    /\ ReceiptOf(h)
    /\ PaymentOf(h)
    /\ InvoiceOf(h)
    /\ RefundOf(h)
    /\ StatusOf(h)
    /\ ChangeOf(h)
    /\ AnswerOf(h)

\* Who holds an X lock of a row, or of an entry it has inserted, is alone with
\* it: nobody has locked the row, or the gap the entry went into.
Exclusive ==
    \A g, h \in Handlers : \A index \in Unique, id \in Nat :
        g # h /\ Has(g, index, id) => ~Blocks(h, index, id)

\* Gaps are where no row is; invoices are only locked to be changed.
GapsAreFree ==
    \A h \in Handlers :
        /\ \A p \in Payments : <<"payments", p, "gap">> \in locks[h] => payments[p] = None
        /\ \A i \in Nat : Blocks(h, "invoices", i) => Has(h, "invoices", i)

TxInv ==
    /\ TxTypes
    /\ \A h \in Handlers : HandlerInv(h)
    /\ Exclusive
    /\ GapsAreFree

-----------------------------------------------------------------------------
(* Requests                                                                *)

\* A callback is no status change: it has an event.
LEMMA KindsOfRequest == \A r \in Callbacks : r \notin StatusChanges
<1> SUFFICES ASSUME NEW r \in Callbacks, r \in StatusChanges PROVE FALSE
  OBVIOUS
<1>1. "event" \in DOMAIN r
  BY RequestsAssumption DEF Callback
<1>2. "event" \notin DOMAIN r
  BY ChangesAssumption DEF StatusChange
<1> QED
  BY <1>1, <1>2

\* What a callback contains, which kind it is included.
LEMMA CallbackTypes ==
    ASSUME NEW cb \in Callbacks
    PROVE  /\ cb.event \in Events /\ cb.hash \in Nat /\ cb.payment \in Payments
           /\ cb.refund \in Refunds \cup {None} /\ cb.invoice \in Invoices
           /\ cb.amount \in Nat /\ 0 < cb.amount
           /\ cb.type \in {"payment.captured", "payment.refunded"}
BY RequestsAssumption DEF Callback, EventTypes

LEMMA ChangeTypes ==
    ASSUME NEW change \in StatusChanges
    PROVE  /\ change.invoice \in Invoices /\ change.next \in ManualStatuses
           /\ change.expectedVersion \in 1 .. MaxVersion
BY ChangesAssumption DEF StatusChange

\* Ids are natural numbers.
LEMMA IdTypes ==
    /\ \A x \in Invoices : x \in Nat
    /\ \A x \in Payments : x \in Nat
    /\ \A x \in Refunds : x \in Nat
    /\ \A x \in Events : x \in Nat
BY IdsAssumption

\* A handler that decides about a callback is at one of its statements.
LEMMA DecidingTypes ==
    ASSUME TxTypes, NEW h \in Handlers, RequestOf(h), Deciding(h)
    PROVE  pc[h] \in OfCallback
BY KindsOfRequest DEF Deciding, RequestOf, OfCallback, OfOperator, TxTypes

-----------------------------------------------------------------------------
(* Granting locks                                                          *)

\* What a set of requested locks must be, so that granting it when no other
\* transaction is in the way keeps the two invariants of the locks.
Sound(wanted) ==
    \A w \in wanted :
        /\ w \in (Unique \cup {"byInvoice"}) \X Nat \X {"S", "X", "gap", "insert"}
        /\ w[1] = "invoices" => w[3] = "X"
        /\ w[1] = "payments" => w[2] \in Payments
        /\ w[1] \in Unique /\ w[3] = "gap" =>
               /\ w[2] \notin Pending(w[1])
               /\ w[1] = "payments" => payments[w[2]] = None
        /\ w[3] = "X" => w[1] = "invoices" \/ (w[1] = "payments" /\ payments[w[2]] # None)

\* The granted locks, one by one.
LEMMA GrantedLocks ==
    ASSUME NEW wanted, Sound(wanted), NEW l \in Granted(wanted)
    PROVE  /\ l \in Locks
           /\ l[3] \in {"S", "gap"} => l \in wanted
           /\ l[3] = "X" => \/ l \in wanted
                            \/ l[1] # "invoices" /\ <<l[1], l[2], "insert">> \in wanted
<1>1. PICK w \in wanted : l = IF w[3] = "insert" THEN <<w[1], w[2], "X">> ELSE w
  BY DEF Granted
<1>2. w \in (Unique \cup {"byInvoice"}) \X Nat \X {"S", "X", "gap", "insert"}
  BY DEF Sound
<1>3. w[1] = "invoices" => w[3] = "X"
  BY DEF Sound
<1>4. w = <<w[1], w[2], w[3]>>
  BY <1>2
<1> QED
  BY <1>1, <1>2, <1>3, <1>4 DEF Locks

LEMMA GrantKeeps ==
    ASSUME TxTypes, Exclusive, GapsAreFree, NEW h \in Handlers, NEW wanted, Sound(wanted),
           Holders(h, wanted) = {}, Grant(h, wanted), payments' = payments
    PROVE  /\ locks' \in [Handlers -> SUBSET Locks]
           /\ Exclusive' /\ GapsAreFree'
<1>1. /\ locks'[h] = locks[h] \cup Granted(wanted)
      /\ \A g \in Handlers \ {h} : locks'[g] = locks[g]
  BY DEF Grant, TxTypes
<1>2. locks' \in [Handlers -> SUBSET Locks]
  BY GrantedLocks DEF Grant, TxTypes
<1>3. \A w \in wanted : \A g \in Handlers \ {h} : \A l \in locks[g] : ~Conflict(w, l)
  BY DEF Holders, Handlers
<1>4. ASSUME NEW g \in Handlers \ {h}, NEW index \in Unique, NEW id \in Nat,
             <<index, id, "X">> \in Granted(wanted)
      PROVE  ~Blocks(g, index, id)
  <2> SUFFICES ASSUME NEW mode \in {"S", "X", "gap"}, <<index, id, mode>> \in locks[g]
               PROVE  FALSE
    BY DEF Blocks
  <2>1. CASE <<index, id, "X">> \in wanted
    <3>1. index = "invoices" \/ (index = "payments" /\ id \in Payments /\ payments[id] # None)
      BY <2>1 DEF Sound
    <3>2. mode = "gap"
      BY <1>3, <2>1 DEF Conflict
    <3>3. index = "invoices" => <<index, id, "X">> \in locks[g]
      BY DEF GapsAreFree, Blocks, Has
    <3>4. index # "invoices"
      BY <1>3, <2>1, <3>3 DEF Conflict
    <3> QED
      BY <3>1, <3>2, <3>4 DEF GapsAreFree
  <2>2. CASE <<index, id, "insert">> \in wanted
    BY <1>3, <2>2 DEF Conflict
  <2> QED
    BY <1>4, <2>1, <2>2, GrantedLocks
<1>5. ASSUME NEW g \in Handlers \ {h}, NEW index \in Unique, NEW id \in Nat,
             NEW mode \in {"S", "X", "gap"}, <<index, id, mode>> \in Granted(wanted)
      PROVE  ~Has(g, index, id)
  <2> SUFFICES ASSUME <<index, id, "X">> \in locks[g] PROVE FALSE
    BY DEF Has
  <2>1. CASE mode = "X"
    BY <1>4, <1>5, <2>1 DEF Blocks
  <2>2. CASE mode = "S"
    <3>1. <<index, id, "S">> \in wanted
      BY <1>5, <2>2, GrantedLocks
    <3>2. ~Conflict(<<index, id, "S">>, <<index, id, "X">>)
      BY <1>3, <3>1
    <3> QED
      BY <3>2 DEF Conflict
  <2>3. CASE mode = "gap"
    <3>1. <<index, id, "gap">> \in wanted
      BY <1>5, <2>3, GrantedLocks
    <3>2. id \notin Pending(index)
      BY <3>1 DEF Sound
    <3>3. <<index, id, "X">> \in UNION {locks[t] : t \in Transactions}
      BY DEF Handlers
    <3> QED
      BY <3>2, <3>3 DEF Pending
  <2> QED
    BY <2>1, <2>2, <2>3
<1>6. Exclusive'
  <2> SUFFICES ASSUME NEW f \in Handlers, NEW g \in Handlers, f # g,
                      NEW index \in Unique, NEW id \in Nat, <<index, id, "X">> \in locks'[f],
                      NEW mode \in {"S", "X", "gap"}, <<index, id, mode>> \in locks'[g]
               PROVE  FALSE
    BY DEF Exclusive, Has, Blocks
  <2>1. CASE f = h
    BY <1>1, <1>4, <2>1 DEF Exclusive, Has, Blocks
  <2>2. CASE g = h
    BY <1>1, <1>5, <2>2 DEF Exclusive, Has, Blocks
  <2>3. CASE f # h /\ g # h
    BY <1>1, <2>3 DEF Exclusive, Has, Blocks
  <2> QED
    BY <2>1, <2>2, <2>3
<1>7. ASSUME NEW p \in Payments, <<"payments", p, "gap">> \in locks'[h] PROVE payments[p] = None
  <2>1. CASE <<"payments", p, "gap">> \in locks[h]
    BY <2>1 DEF GapsAreFree
  <2>2. CASE <<"payments", p, "gap">> \in Granted(wanted)
    <3>1. <<"payments", p, "gap">> \in wanted
      BY <2>2, GrantedLocks
    <3> QED
      BY <3>1 DEF Sound, Unique
  <2> QED
    BY <1>1, <1>7, <2>1, <2>2
<1>8. ASSUME NEW i \in Nat, NEW mode \in {"S", "X", "gap"}, <<"invoices", i, mode>> \in locks'[h]
      PROVE  <<"invoices", i, "X">> \in locks'[h]
  <2>1. CASE <<"invoices", i, mode>> \in locks[h]
    BY <1>1, <2>1 DEF GapsAreFree, Blocks, Has
  <2>2. CASE <<"invoices", i, mode>> \in Granted(wanted)
    <3>1. mode \in {"S", "gap"} => <<"invoices", i, mode>> \in wanted
      BY <2>2, GrantedLocks
    <3>2. mode = "X"
      BY <3>1 DEF Sound
    <3> QED
      BY <1>8, <3>2
  <2> QED
    BY <1>1, <1>8, <2>1, <2>2
<1>9. GapsAreFree'
  BY <1>1, <1>7, <1>8 DEF GapsAreFree, Has, Blocks
<1> QED
  BY <1>2, <1>6, <1>9

\* Giving up locks is always sound.
LEMMA ReleaseKeeps ==
    ASSUME TxTypes, Exclusive, GapsAreFree, NEW h \in Handlers, Release(h), payments' = payments
    PROVE  /\ locks' \in [Handlers -> SUBSET Locks]
           /\ locks'[h] = {}
           /\ \A g \in Handlers \ {h} : locks'[g] = locks[g]
           /\ Exclusive' /\ GapsAreFree'
<1>1. /\ locks' \in [Handlers -> SUBSET Locks]
      /\ locks'[h] = {}
      /\ \A g \in Handlers \ {h} : locks'[g] = locks[g]
  BY DEF Release, TxTypes
<1> QED
  BY <1>1 DEF Exclusive, GapsAreFree, Has, Blocks

-----------------------------------------------------------------------------
(* What a statement asks for                                               *)

\* Statement by statement.
LEMMA WantsOfLookups ==
    ASSUME NEW h
    PROVE  LET cb == request[h] IN
           /\ pc[h] = "findReceipt" =>
                 Wants(h) = LocksToShare("receipts", Events, ReceiptEntries, cb.event)
           /\ pc[h] = "lockPayment" =>
                 Wants(h) = LocksForUpdate("payments", Payments, PaymentEntries, cb.payment)
           /\ pc[h] = "lockInvoice" =>
                 Wants(h) = LocksForUpdate("invoices", Invoices, Invoices, cb.invoice)
           /\ pc[h] = "findPayment" =>
                 Wants(h) = LocksToShare("payments", Payments, PaymentEntries, cb.payment)
           /\ pc[h] = "findRefund" =>
                 Wants(h) = LocksToShare("refunds", Refunds, RefundEntries, cb.refund)
BY DEF Wants, Scans

LEMMA WantsOfOthers ==
    ASSUME NEW h
    PROVE  LET cb == request[h] IN
           /\ pc[h] \in Scans => Wants(h) = ScanLocks(cb.invoice)
           /\ pc[h] = "insertPayment" =>
                 Wants(h) = {<<"payments", cb.payment, "insert">>,
                             <<"byInvoice", cb.invoice, "insert">>}
           /\ pc[h] = "insertRefund" => Wants(h) = {<<"refunds", cb.refund, "insert">>}
           /\ pc[h] = "updatePayment" =>
                 Wants(h) = {<<"payments", cb.payment, "X">>,
                             <<"byInvoice", cb.invoice, "insert">>}
           /\ pc[h] = "insertReceipt" => Wants(h) = {<<"receipts", cb.event, "insert">>}
           /\ pc[h] = "casInvoice" => Wants(h) = {<<"invoices", cb.invoice, "X">>}
           /\ pc[h] = "readInvoice" => Wants(h) = {}
BY DEF Wants, Scans

\* The two kinds of lookup of one id: a row that is there, or the gap.
LEMMA ReadLocksSound ==
    ASSUME NEW index \in Unique \ {"invoices"}, NEW ids, NEW rows, NEW id \in ids,
           NEW mode \in {"S", "X"}, ids \subseteq Nat,
           index = "payments" => ids = Payments /\ \A p \in Payments \ rows : payments[p] = None,
           mode = "X" => index = "payments" /\ payments[id] # None
    PROVE  /\ Sound(ReadLocks(index, ids, rows \cup Pending(index), id, mode))
           /\ \/ <<index, id, mode>> \in ReadLocks(index, ids, rows \cup Pending(index), id, mode)
              \/ <<index, id, "gap">> \in ReadLocks(index, ids, rows \cup Pending(index), id, mode)
           /\ id \in rows =>
                 <<index, id, mode>> \in ReadLocks(index, ids, rows \cup Pending(index), id, mode)
<1> DEFINE entries == rows \cup Pending(index)
           wanted == ReadLocks(index, ids, entries, id, mode)
<1>1. CASE id \in entries
  <2>1. wanted = {<<index, id, mode>>}
    BY <1>1 DEF ReadLocks
  <2> QED
    BY <2>1 DEF Sound, Unique
<1>2. CASE id \notin entries
  <2>1. wanted = {<<index, j, "gap">> : j \in Gap(ids, entries, id)}
    BY <1>2 DEF ReadLocks
  <2>2. id \in Gap(ids, entries, id) /\ Gap(ids, entries, id) \subseteq ids \ entries
    BY <1>2 DEF Gap
  <2>3. <<index, id, "gap">> \in wanted
    BY <2>1, <2>2
  <2>4. ASSUME NEW w \in wanted
        PROVE  \E j \in ids \ entries : w = <<index, j, "gap">>
    BY <2>1, <2>2
  <2>5. Sound(wanted)
    BY <2>4 DEF Sound, Unique
  <2> QED
    BY <1>2, <2>3, <2>5
<1> QED
  BY <1>1, <1>2

\* What the five of them ask for.
LEMMA LookupsSound ==
    ASSUME NEW h \in Handlers, request[h] \in Callbacks
    PROVE  LET cb == request[h] IN
           /\ pc[h] = "findReceipt" =>
                 /\ Sound(Wants(h))
                 /\ \E mode \in {"S", "gap"} : <<"receipts", cb.event, mode>> \in Wants(h)
           /\ pc[h] = "lockPayment" /\ payments[cb.payment] # None =>
                 Sound(Wants(h)) /\ <<"payments", cb.payment, "X">> \in Wants(h)
           /\ pc[h] = "lockInvoice" =>
                 Sound(Wants(h)) /\ <<"invoices", cb.invoice, "X">> \in Wants(h)
           /\ pc[h] = "findPayment" =>
                 /\ Sound(Wants(h))
                 /\ \E mode \in {"S", "gap"} : <<"payments", cb.payment, mode>> \in Wants(h)
           /\ pc[h] = "findRefund" /\ cb.refund # None =>
                 /\ Sound(Wants(h))
                 /\ \E mode \in {"S", "gap"} : <<"refunds", cb.refund, mode>> \in Wants(h)
<1> DEFINE cb == request[h]
           wanted == Wants(h)
<1>1. PICK e, p, i, r : e = cb.event /\ p = cb.payment /\ i = cb.invoice /\ r = cb.refund
  OBVIOUS
<1>2. e \in Events /\ p \in Payments /\ i \in Invoices /\ r \in Refunds \cup {None}
  BY <1>1, CallbackTypes
<1>3. /\ Events \subseteq Nat /\ Payments \subseteq Nat /\ Refunds \subseteq Nat
      /\ Invoices \subseteq Nat
  BY IdTypes
<1>4. /\ "receipts" \in Unique \ {"invoices"} /\ "payments" \in Unique \ {"invoices"}
      /\ "refunds" \in Unique \ {"invoices"}
  BY DEF Unique
<1>5. ASSUME NEW rows, \A q \in Payments \ rows : payments[q] = None
      PROVE  /\ Sound(ReadLocks("payments", Payments, rows \cup Pending("payments"), p, "S"))
             /\ \E mode \in {"S", "gap"} : <<"payments", p, mode>>
                   \in ReadLocks("payments", Payments, rows \cup Pending("payments"), p, "S")
             /\ payments[p] # None =>
                /\ Sound(ReadLocks("payments", Payments, rows \cup Pending("payments"), p, "X"))
                /\ <<"payments", p, "X">>
                      \in ReadLocks("payments", Payments, rows \cup Pending("payments"), p, "X")
  BY <1>2, <1>3, <1>4, <1>5, ReadLocksSound
<1>6. ASSUME NEW rows
      PROVE  /\ Sound(ReadLocks("receipts", Events, rows \cup Pending("receipts"), e, "S"))
             /\ \E mode \in {"S", "gap"} : <<"receipts", e, mode>>
                   \in ReadLocks("receipts", Events, rows \cup Pending("receipts"), e, "S")
  BY <1>2, <1>3, <1>4, ReadLocksSound
<1>7. ASSUME NEW rows, r # None
      PROVE  /\ Sound(ReadLocks("refunds", Refunds, rows \cup Pending("refunds"), r, "S"))
             /\ \E mode \in {"S", "gap"} : <<"refunds", r, mode>>
                   \in ReadLocks("refunds", Refunds, rows \cup Pending("refunds"), r, "S")
  BY <1>2, <1>3, <1>4, <1>7, ReadLocksSound
<1>8. ASSUME pc[h] = "lockInvoice" PROVE wanted = {<<"invoices", i, "X">>}
  BY <1>1, <1>2, <1>8, WantsOfLookups DEF LocksForUpdate, ReadLocks
<1>9. ASSUME pc[h] = "lockInvoice" PROVE Sound(wanted) /\ <<"invoices", i, "X">> \in wanted
  <2>1. i \in Nat
    BY <1>2, <1>3
  <2> HIDE DEF wanted
  <2> QED
    BY <1>8, <1>9, <2>1 DEF Sound, Unique
<1>10. PICK ps : /\ \A q \in Payments \ ps : payments[q] = None
                 /\ PaymentEntries = ps \cup Pending("payments")
  BY DEF PaymentEntries
<1>11. PICK es, rs : /\ ReceiptEntries = es \cup Pending("receipts")
                     /\ RefundEntries = rs \cup Pending("refunds")
  BY DEF ReceiptEntries, RefundEntries
<1>12. /\ pc[h] = "lockPayment" =>
             wanted = ReadLocks("payments", Payments, ps \cup Pending("payments"), p, "X")
       /\ pc[h] = "findPayment" =>
             wanted = ReadLocks("payments", Payments, ps \cup Pending("payments"), p, "S")
  BY <1>1, <1>10, WantsOfLookups DEF LocksForUpdate, LocksToShare
<1>13. /\ pc[h] = "findReceipt" =>
             wanted = ReadLocks("receipts", Events, es \cup Pending("receipts"), e, "S")
       /\ pc[h] = "findRefund" =>
             wanted = ReadLocks("refunds", Refunds, rs \cup Pending("refunds"), r, "S")
  BY <1>1, <1>11, WantsOfLookups DEF LocksToShare
<1> HIDE DEF wanted
<1>14. pc[h] = "findReceipt" =>
          Sound(wanted) /\ \E mode \in {"S", "gap"} : <<"receipts", e, mode>> \in wanted
  BY <1>6, <1>13
<1>15. pc[h] = "lockPayment" /\ payments[p] # None =>
          Sound(wanted) /\ <<"payments", p, "X">> \in wanted
  BY <1>5, <1>10, <1>12
<1>16. pc[h] = "findPayment" =>
          Sound(wanted) /\ \E mode \in {"S", "gap"} : <<"payments", p, mode>> \in wanted
  BY <1>5, <1>10, <1>12
<1>17. pc[h] = "findRefund" /\ r # None =>
          Sound(wanted) /\ \E mode \in {"S", "gap"} : <<"refunds", r, mode>> \in wanted
  BY <1>7, <1>13
<1> QED
  BY <1>1, <1>9, <1>14, <1>15, <1>16, <1>17 DEF wanted

LEMMA ScanSound ==
    ASSUME TxTypes, NEW i \in Invoices, NEW border \in BorderGaps(i)
    PROVE  Sound(ScanLocks(i) \cup border)
<1>1. ASSUME NEW w \in ScanLocks(i) \cup border
      PROVE  \/ \E p \in Payments : w = <<"payments", p, "S">>
             \/ \E j \in Invoices \cup InvoiceEntries : w = <<"byInvoice", j, "gap">>
  BY DEF ScanLocks, BorderGaps, PaymentsOf
<1>2. InvoiceEntries \subseteq Nat
  <2>1. \A t \in Transactions : \A m \in locks[t] : m[2] \in Nat
    BY DEF TxTypes, Handlers, Locks
  <2> QED
    BY <2>1, IdTypes DEF InvoiceEntries, Pending
<1>3. ASSUME NEW w \in ScanLocks(i) \cup border
      PROVE  \/ \E p \in Nat : p \in Payments /\ w = <<"payments", p, "S">>
             \/ \E j \in Nat : w = <<"byInvoice", j, "gap">>
  BY <1>1, <1>2, IdTypes
<1> QED
  BY <1>3 DEF Sound, Unique

\* No gap is in the way of a border, nor of anything else but an INSERT.
LEMMA BorderWaitsForNobody ==
    ASSUME NEW h \in Handlers, NEW wanted, Holders(h, wanted) = {},
           NEW i, NEW border \in BorderGaps(i)
    PROVE  Holders(h, wanted \cup border) = {}
<1>1. \A w \in border : w[3] = "gap"
  BY DEF BorderGaps
<1>2. \A w \in border : \A u \in Transactions : \A l \in locks[u] : ~Conflict(w, l)
  BY <1>1 DEF Conflict
<1> QED
  BY <1>2 DEF Holders

-----------------------------------------------------------------------------
(* Steps that leave the tables alone                                       *)

\* A handler that does nothing is left as it was.
LEMMA SameHandler ==
    ASSUME NEW g \in Handlers, HandlerInv(g), UNCHANGED tables,
           pc'[g] = pc[g], request'[g] = request[g], memory'[g] = memory[g],
           answer'[g] = answer[g], locks'[g] = locks[g]
    PROVE  HandlerInv(g)'
<1> USE DEF HandlerInv, tables
<1>1. RequestOf(g)' /\ NothingOf(g)' /\ ReceiptOf(g)' /\ RefundOf(g)' /\ AnswerOf(g)'
  BY DEF RequestOf, NothingOf, ReceiptOf, RefundOf, AnswerOf, Captures, Refunding, Has, Blocks
<1>2. PaymentOf(g)' /\ InvoiceOf(g)' /\ ChangeOf(g)'
  BY DEF PaymentOf, InvoiceOf, ChangeOf, Captures, Refunding, Has, Blocks
<1>3. StatusOf(g)'
  BY DEF StatusOf, Captures, Refunding, StatusAfterCapture, WithinTotal, PaymentsSeen
<1> QED
  BY <1>1, <1>2, <1>3

\* What Continue does, handler by handler.
GoesOn(h, statement, read) ==
    /\ pc'[h] = statement
    /\ memory'[h] = read
    /\ request'[h] = request[h]
    /\ answer'[h] = answer[h]
    /\ locks[h] \cup Granted(Wants(h)) \subseteq locks'[h]
    /\ pc[h] \notin Scans => locks'[h] = locks[h] \cup Granted(Wants(h))

Borders(h) == IF pc[h] \in Scans THEN BorderGaps(request[h].invoice) ELSE {{}}

LEMMA ContinueKeeps ==
    ASSUME TxInv, NEW h \in Handlers, WaitsFor[h] = {}, UNCHANGED tables,
           \A border \in Borders(h) : Sound(Wants(h) \cup border),
           NEW statement \in Statements, NEW read \in Memory, Continue(h, statement, read)
    PROVE  /\ GoesOn(h, statement, read)
           /\ HandlerInv(h)' => TxInv'
<1>1. PICK border \in Borders(h) : Grant(h, Wants(h) \cup border)
  BY DEF Continue, Borders
<1>2. Holders(h, Wants(h)) = {}
  BY DEF WaitsFor
<1>3. Holders(h, Wants(h) \cup border) = {}
  <2>1. CASE pc[h] \in Scans
    BY <1>2, <2>1, BorderWaitsForNobody DEF Borders
  <2>2. CASE pc[h] \notin Scans
    <3>1. Wants(h) \cup border = Wants(h)
      BY <2>2 DEF Borders
    <3> QED
      BY <1>2, <3>1
  <2> QED
    BY <2>1, <2>2
<1>4. /\ locks' \in [Handlers -> SUBSET Locks]
      /\ Exclusive' /\ GapsAreFree'
  <2> DEFINE wanted == Wants(h) \cup border
  <2>1. Sound(wanted) /\ Holders(h, wanted) = {} /\ Grant(h, wanted)
    BY <1>1, <1>3
  <2>2. TxTypes /\ Exclusive /\ GapsAreFree /\ payments' = payments
    BY DEF TxInv, tables
  <2> HIDE DEF wanted
  <2> QED
    BY <2>1, <2>2, GrantKeeps
<1>5. /\ pc' = [pc EXCEPT ![h] = statement]
      /\ memory' = [memory EXCEPT ![h] = read]
      /\ UNCHANGED <<request, answer, faults>>
      /\ TxTypes
  BY DEF Continue, TxInv
<1>6. TxTypes'
  BY <1>4, <1>5 DEF TxTypes, TypeOK, tables
<1>7. locks' = [locks EXCEPT ![h] = @ \cup Granted(Wants(h) \cup border)]
  BY <1>1 DEF Grant
<1>8. GoesOn(h, statement, read)
  <2>1. /\ Granted(Wants(h)) \subseteq Granted(Wants(h) \cup border)
        /\ pc[h] \notin Scans => Wants(h) \cup border = Wants(h)
    BY DEF Granted, Borders
  <2> QED
    BY <1>5, <1>7, <2>1 DEF GoesOn, TxTypes
<1>9. ASSUME NEW g \in Handlers \ {h} PROVE HandlerInv(g)'
  <2>1. /\ pc'[g] = pc[g] /\ request'[g] = request[g] /\ memory'[g] = memory[g]
        /\ answer'[g] = answer[g] /\ locks'[g] = locks[g]
    BY <1>5, <1>7 DEF TxTypes
  <2> QED
    BY <2>1, SameHandler DEF TxInv
<1> QED
  BY <1>4, <1>6, <1>8, <1>9 DEF TxInv

\* Whatever ends a transaction with nothing written: a reply, an error, a fault.
Ends(h, outcome) ==
    /\ Release(h)
    /\ pc' = [pc EXCEPT ![h] = "answer"]
    /\ answer' = [answer EXCEPT ![h] = outcome]
    /\ memory' = [memory EXCEPT ![h] = Nothing]
    /\ request' = request

\* Its handler has nothing then but its answer.
LEMMA AfterReply ==
    ASSUME NEW h \in Handlers, pc'[h] = "answer", locks'[h] = {}, memory'[h] = Nothing,
           (request[h] \in Callbacks /\ answer[h] \in {"accepted", "duplicate"}
               => receipts[request[h].event] = request[h].hash)'
    PROVE  HandlerInv(h)'
BY DEF HandlerInv, RequestOf, NothingOf, ReceiptOf, PaymentOf, InvoiceOf, RefundOf, StatusOf,
       ChangeOf, AnswerOf, OfCallback, OfOperator, OfCapture, OfRefund, Ending, Beginning,
       Statements

LEMMA EndKeeps ==
    ASSUME TxInv, NEW h \in Handlers, UNCHANGED tables, NEW outcome \in Outcomes,
           Ends(h, outcome), faults' \in 0 .. MaxFaults,
           request[h] \in Callbacks /\ outcome \in {"accepted", "duplicate"}
               => receipts[request[h].event] = request[h].hash
    PROVE  TxInv'
<1>1. /\ locks' \in [Handlers -> SUBSET Locks]
      /\ locks'[h] = {}
      /\ \A g \in Handlers \ {h} : locks'[g] = locks[g]
      /\ Exclusive' /\ GapsAreFree'
  BY ReleaseKeeps DEF Ends, TxInv, tables
<1>2. Nothing \in Memory
  BY DEF Nothing, Memory
<1>3. /\ pc'[h] = "answer" /\ answer'[h] = outcome /\ memory'[h] = Nothing
      /\ request'[h] = request[h]
      /\ \A g \in Handlers \ {h} : /\ pc'[g] = pc[g] /\ request'[g] = request[g]
                                   /\ memory'[g] = memory[g] /\ answer'[g] = answer[g]
  BY DEF Ends, TxInv, TxTypes
<1>4. TxTypes'
  BY <1>1, <1>2 DEF Ends, TxInv, TxTypes, TypeOK, tables
<1>5. HandlerInv(h)'
  BY <1>1, <1>3, AfterReply DEF tables
<1>6. ASSUME NEW g \in Handlers \ {h} PROVE HandlerInv(g)'
  BY <1>1, <1>3, SameHandler DEF TxInv
<1> QED
  BY <1>1, <1>4, <1>5, <1>6 DEF TxInv

LEMMA ReplyKeeps ==
    ASSUME TxInv, NEW h \in Handlers, UNCHANGED tables, NEW outcome \in Outcomes,
           Reply(h, outcome),
           request[h] \in Callbacks /\ outcome \in {"accepted", "duplicate"}
               => receipts[request[h].event] = request[h].hash
    PROVE  TxInv'
BY EndKeeps DEF Reply, EndTransaction, Ends, TxInv, TxTypes

-----------------------------------------------------------------------------
(* The statements of a callback                                            *)

\* What a statement of a callback does besides, and what is left to be shown.
Went(h, statement, read) ==
    /\ pc'[h] = statement /\ memory'[h] = read /\ request'[h] = request[h]
    /\ Captures(h)' = Captures(h) /\ Refunding(h)' = Refunding(h)
    /\ locks[h] \subseteq locks'[h]
    /\ \A w \in Wants(h) :
          (IF w[3] = "insert" THEN <<w[1], w[2], "X">> ELSE w) \in locks'[h]

RowsOf(h) == PaymentOf(h) /\ InvoiceOf(h) /\ RefundOf(h) /\ StatusOf(h)

\* What no statement after the first changes about a callback's handler.
LEMMA Onward ==
    ASSUME TxInv, NEW h \in Handlers, pc[h] \in OfCallback \ {"findReceipt"}, WaitsFor[h] = {},
           UNCHANGED tables, \A border \in Borders(h) : Sound(Wants(h) \cup border),
           NEW statement \in OfCallback \ {"findReceipt", "lockPayment"}, NEW read \in Memory,
           Continue(h, statement, read),
           statement \in OfCapture => Captures(h),
           statement \in OfRefund => Refunding(h),
           statement = "commit" => <<"receipts", request[h].event, "insert">> \in Wants(h)
    PROVE  Went(h, statement, read) /\ (RowsOf(h)' => TxInv')
<1> USE DEF OfCallback, OfOperator, OfCapture, OfRefund, Statements
<1>1. GoesOn(h, statement, read) /\ (HandlerInv(h)' => TxInv')
  BY ContinueKeeps
<1>2. /\ pc'[h] = statement /\ request'[h] = request[h] /\ answer'[h] = answer[h]
      /\ locks[h] \subseteq locks'[h] /\ HandlerInv(h)
  BY <1>1 DEF GoesOn, TxInv
<1>3. \A w \in Wants(h) : (IF w[3] = "insert" THEN <<w[1], w[2], "X">> ELSE w) \in locks'[h]
  BY <1>1 DEF GoesOn, Granted
<1>4. Captures(h)' = Captures(h) /\ Refunding(h)' = Refunding(h)
  BY <1>2 DEF Captures, Refunding
<1>5. RequestOf(h)'
  BY <1>2, <1>4 DEF HandlerInv, RequestOf
<1>6. NothingOf(h)'
  BY <1>2 DEF HandlerInv, NothingOf
<1>7. ReceiptOf(h)'
  BY <1>2, <1>3 DEF HandlerInv, ReceiptOf, tables, Has, Blocks
<1>8. ChangeOf(h)' /\ AnswerOf(h)'
  BY <1>2 DEF HandlerInv, ChangeOf, AnswerOf, tables
<1> QED
  BY <1>1, <1>2, <1>3, <1>4, <1>5, <1>6, <1>7, <1>8 DEF GoesOn, HandlerInv, Went, RowsOf

\* A statement that is no sum locks no borders.
LEMMA NoBorders ==
    ASSUME NEW h, pc[h] \notin Scans, Sound(Wants(h))
    PROVE  \A border \in Borders(h) : Sound(Wants(h) \cup border)
<1>1. \A border \in Borders(h) : Wants(h) \cup border = Wants(h)
  BY DEF Borders
<1> QED
  BY <1>1

\* What is known of a handler at a statement after the first.
LEMMA AtCallback ==
    ASSUME TxInv, NEW h \in Handlers, pc[h] \in OfCallback
    PROVE  LET cb == request[h] IN
           /\ cb \in Callbacks /\ cb.event \in Events /\ cb.payment \in Payments
           /\ cb.refund \in Refunds \cup {None} /\ cb.invoice \in Invoices
           /\ cb.amount \in Nat
           /\ memory[h] \in Memory /\ HandlerInv(h) /\ TxTypes
           /\ Captures(h) <=> ~Refunding(h)
<1>1. request[h] \in Callbacks /\ HandlerInv(h) /\ TxTypes
  BY DEF TxInv, HandlerInv, RequestOf
<1>2. memory[h] \in Memory
  BY <1>1 DEF TxTypes
<1> QED
  BY <1>1, <1>2, CallbackTypes DEF Captures, Refunding

LEMMA FindReceiptKeeps ==
    ASSUME TxInv, NEW h \in Handlers, FindReceipt(h)
    PROVE  TxInv'
<1> DEFINE cb == request[h]
<1>1. /\ pc[h] = "findReceipt" /\ WaitsFor[h] = {} /\ UNCHANGED tables
      /\ cb \in Callbacks /\ HandlerInv(h) /\ TxTypes
  BY DEF FindReceipt, At, TxInv, HandlerInv, RequestOf, OfCallback, OfOperator, Statements
<1>2. /\ locks[h] = {} /\ memory[h] = Nothing /\ answer[h] = None
      /\ cb.event \in Events /\ cb.type \in {"payment.captured", "payment.refunded"}
      /\ cb.hash # None
  BY <1>1, CallbackTypes, NoneAssumption DEF HandlerInv, NothingOf
<1>3. ASSUME NEW statement \in {"lockInvoice", "lockPayment"}, receipts[cb.event] = None,
             Continue(h, statement, memory[h]),
             statement = "lockPayment" => Refunding(h),
             statement = "lockInvoice" => Captures(h),
             Refunding(h) => cb.refund # None
      PROVE  TxInv'
  <2>3. /\ Sound(Wants(h))
        /\ \E mode \in {"S", "gap"} : <<"receipts", cb.event, mode>> \in Wants(h)
    BY <1>1, LookupsSound
  <2>4. \A border \in Borders(h) : Sound(Wants(h) \cup border)
    BY <1>1, <2>3, NoBorders DEF Scans
  <2>5. memory[h] \in Memory /\ statement \in Statements
    BY <1>1 DEF TxTypes, Statements
  <2>6. GoesOn(h, statement, memory[h]) /\ (HandlerInv(h)' => TxInv')
    BY <1>1, <1>3, <2>4, <2>5, ContinueKeeps
  <2>7. Blocks(h, "receipts", cb.event)'
    <3>1. PICK mode \in {"S", "gap"} : <<"receipts", cb.event, mode>> \in Granted(Wants(h))
      BY <2>3 DEF Granted
    <3> QED
      BY <2>6, <3>1 DEF GoesOn, Blocks
  <2>8. /\ pc'[h] = statement /\ request'[h] = cb /\ answer'[h] = None
        /\ memory'[h] = Nothing /\ receipts' = receipts
    BY <1>1, <1>2, <2>6 DEF GoesOn, tables
  <2>9. /\ Captures(h)' = Captures(h) /\ Refunding(h)' = Refunding(h)
        /\ Captures(h) <=> ~Refunding(h)
    BY <1>2, <2>8 DEF Captures, Refunding
  <2>10. RequestOf(h)' /\ NothingOf(h)' /\ ReceiptOf(h)' /\ ChangeOf(h)' /\ AnswerOf(h)'
    <3> USE DEF OfCallback, OfOperator, OfCapture, OfRefund, Statements
    <3>1. RequestOf(h)'
      BY <1>1, <1>3, <2>8, <2>9 DEF RequestOf
    <3>2. NothingOf(h)'
      BY <2>8 DEF NothingOf
    <3>3. ReceiptOf(h)'
      BY <1>3, <2>7, <2>8 DEF ReceiptOf
    <3>4. ChangeOf(h)' /\ AnswerOf(h)'
      BY <2>8, OutcomesAssumption DEF ChangeOf, AnswerOf, Outcomes
    <3> QED
      BY <3>1, <3>2, <3>3, <3>4
  <2>11. PaymentOf(h)' /\ InvoiceOf(h)' /\ RefundOf(h)' /\ StatusOf(h)'
    <3> USE <1>3, <2>8, <2>9 DEF Nothing, OfCallback, OfOperator, Ending, Beginning, Statements
    <3>1. PaymentOf(h)'
      BY DEF PaymentOf
    <3>2. InvoiceOf(h)'
      BY DEF InvoiceOf
    <3>3. RefundOf(h)'
      BY DEF RefundOf
    <3>4. StatusOf(h)'
      BY DEF StatusOf
    <3> QED
      BY <3>1, <3>2, <3>3, <3>4
  <2> QED
    BY <2>6, <2>10, <2>11 DEF HandlerInv
<1>4. ASSUME NEW outcome \in {"duplicate", "conflict"}, Reply(h, outcome),
             outcome = "duplicate" => Recognised(cb)
      PROVE  TxInv'
  BY <1>1, <1>4, ReplyKeeps DEF Recognised, Outcomes
<1> QED
  BY <1>2, <1>3, <1>4 DEF FindReceipt, Refunding, Captures

LEMMA LockPaymentKeeps ==
    ASSUME TxInv, NEW h \in Handlers, LockPayment(h)
    PROVE  TxInv'
<1> DEFINE cb == request[h]
           p == cb.payment
<1> USE DEF OfCallback, OfOperator, OfCapture, OfRefund, Statements
<1>1. /\ pc[h] = "lockPayment" /\ WaitsFor[h] = {} /\ UNCHANGED tables
  BY DEF LockPayment, At
<1>2. /\ cb \in Callbacks /\ p \in Payments /\ memory[h] \in Memory /\ HandlerInv(h) /\ TxTypes
      /\ Refunding(h) /\ ~Captures(h) /\ memory[h].invoice = None /\ memory[h].status = None
  <2>1. Refunding(h) /\ memory[h].invoice = None
    BY <1>1, AtCallback DEF HandlerInv, RequestOf, InvoiceOf, Beginning
  <2> QED
    BY <1>1, <2>1, AtCallback DEF HandlerInv, StatusOf, Ending
<1>3. CASE payments[p] = None
  BY <1>1, <1>2, <1>3, ReplyKeeps DEF LockPayment, Outcomes
<1>4. CASE payments[p] # None
  <2> DEFINE read == [memory[h] EXCEPT !.payment = payments[p]]
  <2>2. Sound(Wants(h)) /\ <<"payments", p, "X">> \in Wants(h)
    BY <1>1, <1>2, <1>4, LookupsSound
  <2>3. \A border \in Borders(h) : Sound(Wants(h) \cup border)
    BY <1>1, <2>2, NoBorders DEF Scans
  <2>4. payments[p] \in PaymentRow
    BY <1>2, <1>4 DEF TxTypes, TypeOK
  <2>5. /\ read \in Memory /\ read.payment = payments[p]
        /\ read.invoice = None /\ read.status = None
    BY <1>2, <2>4 DEF Memory
  <2>6. Continue(h, "lockInvoice", read)
    BY <1>4 DEF LockPayment
  <2> HIDE DEF read
  <2>7. Went(h, "lockInvoice", read) /\ (RowsOf(h)' => TxInv')
    BY <1>1, <2>3, <2>5, <2>6, Onward
  <2>8. /\ pc'[h] = "lockInvoice" /\ memory'[h] = read /\ request'[h] = cb
        /\ Refunding(h)' /\ ~Captures(h)' /\ <<"payments", p, "X">> \in locks'[h]
        /\ payments' = payments
    BY <1>1, <1>2, <2>2, <2>7 DEF Went, tables
  <2>9. PaymentOf(h)'
    BY <1>4, <2>5, <2>8 DEF PaymentOf, Has
  <2>10. InvoiceOf(h)' /\ RefundOf(h)' /\ StatusOf(h)'
    BY <2>5, <2>8 DEF InvoiceOf, RefundOf, StatusOf, Beginning, Ending
  <2> QED
    BY <2>7, <2>9, <2>10 DEF RowsOf
<1> QED
  BY <1>3, <1>4

LEMMA LockInvoiceKeeps ==
    ASSUME TxInv, NEW h \in Handlers, LockInvoice(h)
    PROVE  TxInv'
<1> DEFINE cb == request[h]
           i == cb.invoice
           read == [memory[h] EXCEPT !.invoice = invoices[i]]
<1>1. /\ pc[h] = "lockInvoice" /\ WaitsFor[h] = {} /\ UNCHANGED tables
      /\ pc[h] \in OfCallback \ {"findReceipt"}
  BY DEF LockInvoice, At, OfCallback, OfOperator, Statements
<1>2. /\ cb \in Callbacks /\ i \in Invoices /\ memory[h] \in Memory /\ HandlerInv(h) /\ TxTypes
      /\ Captures(h) <=> ~Refunding(h)
  BY <1>1, AtCallback
<1>3. /\ memory[h].status = None
      /\ Captures(h) => memory[h].payment = None
      /\ Refunding(h) => /\ payments[cb.payment] # None
                         /\ memory[h].payment = payments[cb.payment]
                         /\ <<"payments", cb.payment, "X">> \in locks[h]
  BY <1>1, <1>2 DEF HandlerInv, StatusOf, PaymentOf, Ending, OfCallback, OfOperator, Statements, Has
<1>4. /\ <<"invoices", i, "X">> \in Wants(h)
      /\ \A border \in Borders(h) : Sound(Wants(h) \cup border)
  BY <1>1, <1>2, LookupsSound, NoBorders DEF Scans
<1>5. ASSUME NEW outcome \in {"notFound", "conflict"}, Reply(h, outcome)
      PROVE  TxInv'
  BY <1>1, <1>5, ReplyKeeps DEF Outcomes
<1>6. ASSUME invoices[i] # None, NEW statement \in {"findPayment", "findRefund"},
             Continue(h, statement, read),
             statement = "findPayment" => Captures(h) /\ AcceptsCapture(invoices[i].status),
             statement = "findRefund" =>
                 Refunding(h) /\ MayRefund(cb, memory[h].payment, invoices[i])
      PROVE  TxInv'
  <2>1. invoices[i] \in InvoiceRow
    BY <1>2, <1>6 DEF TxTypes, TypeOK
  <2>2. /\ read \in Memory /\ read.invoice = invoices[i]
        /\ read.payment = memory[h].payment /\ read.status = None
    BY <1>2, <1>3, <2>1 DEF Memory
  <2> HIDE DEF read
  <2>3. /\ statement \in OfCallback \ {"findReceipt", "lockPayment"} /\ statement # "commit"
        /\ statement \in OfCapture => Captures(h)
        /\ statement \in OfRefund => Refunding(h)
    BY <1>6 DEF OfCallback, OfOperator, Statements, OfCapture, OfRefund
  <2>4. Went(h, statement, read) /\ (RowsOf(h)' => TxInv')
    BY <1>1, <1>4, <1>6, <2>2, <2>3, Onward
  <2>5. /\ pc'[h] = statement /\ memory'[h] = read /\ request'[h] = cb
        /\ Captures(h)' = Captures(h) /\ Refunding(h)' = Refunding(h)
        /\ locks[h] \subseteq locks'[h]
        /\ <<"invoices", i, "X">> \in locks'[h]
        /\ payments' = payments /\ invoices' = invoices
    BY <1>1, <1>4, <2>4 DEF Went, tables
  <2>6. PaymentOf(h)'
    BY <1>3, <1>6, <2>2, <2>5 DEF PaymentOf, Ending, Has
  <2>7. InvoiceOf(h)'
    BY <1>2, <1>6, <2>2, <2>5 DEF InvoiceOf, Beginning, Has
  <2>8. RefundOf(h)' /\ StatusOf(h)'
    BY <1>6, <2>2, <2>5 DEF RefundOf, StatusOf, Ending
  <2> QED
    BY <2>4, <2>6, <2>7, <2>8 DEF RowsOf
<1>7. cb.type = "payment.captured" <=> Captures(h)
  BY DEF Captures
<1> QED
  BY <1>2, <1>5, <1>6, <1>7 DEF LockInvoice

LEMMA FindPaymentKeeps ==
    ASSUME TxInv, NEW h \in Handlers, FindPayment(h)
    PROVE  TxInv'
<1> DEFINE cb == request[h]
           p == cb.payment
           read == memory[h]
<1>1. /\ pc[h] = "findPayment" /\ WaitsFor[h] = {} /\ UNCHANGED tables
      /\ pc[h] \in OfCallback \ {"findReceipt"}
  BY DEF FindPayment, At, OfCallback, OfOperator, Statements
<1>2. /\ cb \in Callbacks /\ p \in Payments /\ read \in Memory /\ HandlerInv(h) /\ TxTypes
      /\ Captures(h) /\ ~Refunding(h)
  BY <1>1, AtCallback DEF HandlerInv, RequestOf, OfCapture
<1>3. /\ Sound(Wants(h)) /\ \E mode \in {"S", "gap"} : <<"payments", p, mode>> \in Wants(h)
      /\ \A border \in Borders(h) : Sound(Wants(h) \cup border)
  BY <1>1, <1>2, LookupsSound, NoBorders DEF Scans
<1>4. CASE payments[p] # None
  BY <1>1, <1>4, ReplyKeeps DEF FindPayment, Outcomes
<1>5. CASE payments[p] = None
  <2>1. Continue(h, "sumCaptured", read)
    BY <1>5 DEF FindPayment
  <2>2. /\ "sumCaptured" \in OfCallback \ {"findReceipt", "lockPayment"}
        /\ "sumCaptured" \notin OfRefund
    BY DEF OfCallback, OfOperator, Statements, OfRefund
  <2>3. Went(h, "sumCaptured", read) /\ (RowsOf(h)' => TxInv')
    BY <1>1, <1>2, <1>3, <2>1, <2>2, Onward
  <2>4. /\ pc'[h] = "sumCaptured" /\ memory'[h] = read /\ request'[h] = cb
        /\ Captures(h)' /\ ~Refunding(h)' /\ locks[h] \subseteq locks'[h]
        /\ \E mode \in {"S", "gap"} : <<"payments", p, mode>> \in locks'[h]
        /\ payments' = payments /\ invoices' = invoices
    BY <1>1, <1>2, <1>3, <2>3 DEF Went, tables
  <2> USE DEF OfCallback, OfOperator, Statements, Ending, Beginning
  <2>5. PaymentOf(h)'
    BY <1>1, <1>2, <1>5, <2>4 DEF HandlerInv, PaymentOf, Blocks
  <2>6. InvoiceOf(h)'
    BY <1>1, <1>2, <2>4 DEF HandlerInv, InvoiceOf, Has
  <2>7. RefundOf(h)' /\ StatusOf(h)'
    BY <1>1, <1>2, <2>4 DEF HandlerInv, RefundOf, StatusOf
  <2> QED
    BY <2>3, <2>5, <2>6, <2>7 DEF RowsOf
<1> QED
  BY <1>4, <1>5

LEMMA SumCapturedKeeps ==
    ASSUME TxInv, NEW h \in Handlers, SumCaptured(h)
    PROVE  TxInv'
<1> DEFINE cb == request[h]
           i == cb.invoice
           p == cb.payment
           sum == capturedTotal(payments, i) + cb.amount
           status == IF sum = memory[h].invoice.total THEN "PAID" ELSE "PARTIALLY_PAID"
           read == [memory[h] EXCEPT !.status = status]
<1>1. /\ pc[h] = "sumCaptured" /\ WaitsFor[h] = {} /\ UNCHANGED tables
      /\ pc[h] \in OfCallback \ {"findReceipt"}
  BY DEF SumCaptured, At, OfCallback, OfOperator, Statements
<1>2. /\ cb \in Callbacks /\ i \in Invoices /\ cb.amount \in Nat
      /\ memory[h] \in Memory /\ HandlerInv(h) /\ TxTypes
      /\ Captures(h) /\ ~Refunding(h)
  BY <1>1, AtCallback DEF HandlerInv, RequestOf, OfCapture
<1>3. \A border \in Borders(h) : Sound(Wants(h) \cup border)
  BY <1>1, <1>2, WantsOfOthers, ScanSound DEF Borders, Scans
<1>4. /\ invoices[i] # None /\ memory[h].invoice = invoices[i] /\ <<"invoices", i, "X">> \in locks[h]
      /\ AcceptsCapture(invoices[i].status)
      /\ memory[h].payment = None /\ payments[p] = None /\ Blocks(h, "payments", p)
  BY <1>1, <1>2 DEF HandlerInv, InvoiceOf, PaymentOf, Has, Beginning
<1>5. CASE sum > memory[h].invoice.total
  BY <1>1, <1>5, ReplyKeeps DEF SumCaptured, Outcomes
<1>6. CASE ~(sum > memory[h].invoice.total)
  <2>1. Continue(h, "insertPayment", read)
    BY <1>6 DEF SumCaptured
  <2>2. /\ "insertPayment" \in OfCallback \ {"findReceipt", "lockPayment"}
        /\ "insertPayment" \notin OfRefund
    BY DEF OfCallback, OfOperator, Statements, OfRefund
  <2>3. invoices[i].total \in Nat /\ capturedTotal(payments, i) \in Nat
    BY <1>2, <1>4, TotalsType DEF TxTypes, TypeOK, InvoiceRow, PaymentTable
  <2>4. status = StatusAfterCapture(i, cb.amount) /\ WithinTotal(i, cb.amount)
    BY <1>2, <1>4, <1>6, <2>3 DEF StatusAfterCapture, WithinTotal
  <2>5. /\ read \in Memory /\ read.payment = memory[h].payment
        /\ read.invoice = memory[h].invoice /\ read.status = StatusAfterCapture(i, cb.amount)
    BY <1>2, <2>4, ComputedStatuses DEF Memory
  <2> HIDE DEF read
  <2>6. Went(h, "insertPayment", read) /\ (RowsOf(h)' => TxInv')
    BY <1>1, <1>2, <1>3, <2>1, <2>2, <2>5, Onward
  <2>7. /\ pc'[h] = "insertPayment" /\ memory'[h] = read /\ request'[h] = cb
        /\ Captures(h)' /\ ~Refunding(h)' /\ locks[h] \subseteq locks'[h]
        /\ payments' = payments /\ invoices' = invoices
    BY <1>1, <1>2, <2>6 DEF Went, tables
  <2> USE DEF OfCallback, OfOperator, Statements, Ending, Beginning
  <2>8. PaymentOf(h)'
    BY <1>4, <2>5, <2>7 DEF PaymentOf, Blocks
  <2>9. InvoiceOf(h)'
    BY <1>4, <2>5, <2>7 DEF InvoiceOf, Has
  <2>10. RefundOf(h)'
    BY <2>7 DEF RefundOf
  <2>11. StatusOf(h)'
    <3>1. /\ StatusAfterCapture(i, cb.amount)' = StatusAfterCapture(i, cb.amount)
          /\ WithinTotal(i, cb.amount)' = WithinTotal(i, cb.amount)
      BY <2>7 DEF StatusAfterCapture, WithinTotal
    <3> QED
      BY <2>4, <2>5, <2>7, <3>1 DEF StatusOf
  <2> QED
    BY <2>6, <2>8, <2>9, <2>10, <2>11 DEF RowsOf
<1> QED
  BY <1>5, <1>6

LEMMA InsertPaymentKeeps ==
    ASSUME TxInv, NEW h \in Handlers, InsertPayment(h)
    PROVE  TxInv'
<1> DEFINE cb == request[h]
           p == cb.payment
           i == cb.invoice
           read == memory[h]
<1>1. /\ pc[h] = "insertPayment" /\ WaitsFor[h] = {} /\ UNCHANGED tables
      /\ pc[h] \in OfCallback \ {"findReceipt"}
  BY DEF InsertPayment, At, OfCallback, OfOperator, Statements
<1>2. /\ cb \in Callbacks /\ p \in Payments /\ i \in Invoices /\ read \in Memory /\ HandlerInv(h)
      /\ TxTypes /\ Captures(h) /\ ~Refunding(h)
  BY <1>1, AtCallback DEF HandlerInv, RequestOf, OfCapture
<1>3. /\ Wants(h) = {<<"payments", p, "insert">>, <<"byInvoice", i, "insert">>}
      /\ \A border \in Borders(h) : Sound(Wants(h) \cup border)
  <2>1. Wants(h) = {<<"payments", p, "insert">>, <<"byInvoice", i, "insert">>}
    BY <1>1, WantsOfOthers
  <2>2. p \in Nat /\ i \in Nat
    BY <1>2, IdTypes
  <2>3. Sound(Wants(h))
    BY <1>2, <2>1, <2>2 DEF Sound, Unique
  <2> QED
    BY <1>1, <2>1, <2>3, NoBorders DEF Scans
<1>4. /\ "insertReceipt" \in OfCallback \ {"findReceipt", "lockPayment"}
      /\ "insertReceipt" \notin OfCapture \cup OfRefund
  BY DEF OfCallback, OfOperator, Statements, OfRefund, OfCapture
<1>5. Went(h, "insertReceipt", read) /\ (RowsOf(h)' => TxInv')
  BY <1>1, <1>2, <1>3, <1>4, Onward DEF InsertPayment
<1>6. /\ pc'[h] = "insertReceipt" /\ memory'[h] = read /\ request'[h] = cb
      /\ Captures(h)' /\ ~Refunding(h)' /\ locks[h] \subseteq locks'[h]
      /\ <<"payments", p, "X">> \in locks'[h]
      /\ payments' = payments /\ invoices' = invoices
  BY <1>1, <1>2, <1>3, <1>5 DEF Went, tables
<1> USE DEF OfCallback, OfOperator, Statements, Ending, Beginning
<1>7. PaymentOf(h)'
  BY <1>1, <1>2, <1>6 DEF HandlerInv, PaymentOf, Blocks, Has
<1>8. InvoiceOf(h)'
  BY <1>1, <1>2, <1>6 DEF HandlerInv, InvoiceOf, Has
<1>9. RefundOf(h)'
  BY <1>6 DEF RefundOf
<1>10. StatusOf(h)'
  BY <1>1, <1>2, <1>6 DEF HandlerInv, StatusOf, StatusAfterCapture, WithinTotal
<1> QED
  BY <1>5, <1>7, <1>8, <1>9, <1>10 DEF RowsOf

LEMMA FindRefundKeeps ==
    ASSUME TxInv, NEW h \in Handlers, FindRefund(h)
    PROVE  TxInv'
<1> DEFINE cb == request[h]
           r == cb.refund
           read == memory[h]
<1>1. /\ pc[h] = "findRefund" /\ WaitsFor[h] = {} /\ UNCHANGED tables
      /\ pc[h] \in OfCallback \ {"findReceipt"}
  BY DEF FindRefund, At, OfCallback, OfOperator, Statements
<1>2. /\ cb \in Callbacks /\ r # None /\ read \in Memory /\ HandlerInv(h) /\ TxTypes
      /\ ~Captures(h) /\ Refunding(h)
  BY <1>1, AtCallback DEF HandlerInv, RequestOf, OfRefund
<1>3. /\ Sound(Wants(h)) /\ \E mode \in {"S", "gap"} : <<"refunds", r, mode>> \in Wants(h)
      /\ \A border \in Borders(h) : Sound(Wants(h) \cup border)
  BY <1>1, <1>2, LookupsSound, NoBorders DEF Scans
<1>4. CASE refunds[r] # None
  BY <1>1, <1>4, ReplyKeeps DEF FindRefund, Outcomes
<1>5. CASE refunds[r] = None
  <2>1. Continue(h, "insertRefund", read)
    BY <1>5 DEF FindRefund
  <2>2. /\ "insertRefund" \in OfCallback \ {"findReceipt", "lockPayment"}
        /\ "insertRefund" \notin OfCapture
    BY DEF OfCallback, OfOperator, Statements, OfCapture
  <2>3. Went(h, "insertRefund", read) /\ (RowsOf(h)' => TxInv')
    BY <1>1, <1>2, <1>3, <2>1, <2>2, Onward
  <2>4. /\ pc'[h] = "insertRefund" /\ memory'[h] = read /\ request'[h] = cb
        /\ ~Captures(h)' /\ Refunding(h)' /\ locks[h] \subseteq locks'[h]
        /\ \E mode \in {"S", "gap"} : <<"refunds", r, mode>> \in locks'[h]
        /\ payments' = payments /\ invoices' = invoices /\ refunds' = refunds
    BY <1>1, <1>2, <1>3, <2>3 DEF Went, tables
  <2> USE DEF OfCallback, OfOperator, Statements, Ending, Beginning
  <2>5. PaymentOf(h)'
    BY <1>1, <1>2, <2>4 DEF HandlerInv, PaymentOf, Has
  <2>6. InvoiceOf(h)'
    BY <1>1, <1>2, <2>4 DEF HandlerInv, InvoiceOf, Has
  <2>7. RefundOf(h)'
    BY <1>5, <2>4 DEF RefundOf, Blocks
  <2>8. StatusOf(h)'
    BY <1>1, <1>2, <2>4 DEF HandlerInv, StatusOf
  <2> QED
    BY <2>3, <2>5, <2>6, <2>7, <2>8 DEF RowsOf
<1> QED
  BY <1>4, <1>5

LEMMA InsertRefundKeeps ==
    ASSUME TxInv, NEW h \in Handlers, InsertRefund(h)
    PROVE  TxInv'
<1> DEFINE cb == request[h]
           r == cb.refund
           read == memory[h]
<1>1. /\ pc[h] = "insertRefund" /\ WaitsFor[h] = {} /\ UNCHANGED tables
      /\ pc[h] \in OfCallback \ {"findReceipt"}
  BY DEF InsertRefund, At, OfCallback, OfOperator, Statements
<1>2. /\ cb \in Callbacks /\ r \in Refunds /\ read \in Memory /\ HandlerInv(h) /\ TxTypes
      /\ ~Captures(h) /\ Refunding(h)
  BY <1>1, AtCallback DEF HandlerInv, RequestOf, OfRefund
<1>3. /\ Wants(h) = {<<"refunds", r, "insert">>}
      /\ \A border \in Borders(h) : Sound(Wants(h) \cup border)
  <2>1. Wants(h) = {<<"refunds", r, "insert">>}
    BY <1>1, WantsOfOthers
  <2>2. r \in Nat
    BY <1>2, IdTypes
  <2>3. Sound(Wants(h))
    BY <2>1, <2>2 DEF Sound, Unique
  <2> QED
    BY <1>1, <2>1, <2>3, NoBorders DEF Scans
<1>4. /\ "updatePayment" \in OfCallback \ {"findReceipt", "lockPayment"}
      /\ "updatePayment" \notin OfCapture
  BY DEF OfCallback, OfOperator, Statements, OfCapture
<1>5. Went(h, "updatePayment", read) /\ (RowsOf(h)' => TxInv')
  BY <1>1, <1>2, <1>3, <1>4, Onward DEF InsertRefund
<1>6. /\ pc'[h] = "updatePayment" /\ memory'[h] = read /\ request'[h] = cb
      /\ ~Captures(h)' /\ Refunding(h)' /\ locks[h] \subseteq locks'[h]
      /\ <<"refunds", r, "X">> \in locks'[h]
      /\ payments' = payments /\ invoices' = invoices /\ refunds' = refunds
  BY <1>1, <1>2, <1>3, <1>5 DEF Went, tables
<1> USE DEF OfCallback, OfOperator, Statements, Ending, Beginning
<1>7. PaymentOf(h)'
  BY <1>1, <1>2, <1>6 DEF HandlerInv, PaymentOf, Has
<1>8. InvoiceOf(h)'
  BY <1>1, <1>2, <1>6 DEF HandlerInv, InvoiceOf, Has
<1>9. RefundOf(h)'
  BY <1>1, <1>2, <1>6 DEF HandlerInv, RefundOf, Blocks, Has
<1>10. StatusOf(h)'
  BY <1>1, <1>2, <1>6 DEF HandlerInv, StatusOf
<1> QED
  BY <1>5, <1>7, <1>8, <1>9, <1>10 DEF RowsOf

LEMMA UpdatePaymentKeeps ==
    ASSUME TxInv, NEW h \in Handlers, UpdatePayment(h)
    PROVE  TxInv'
<1> DEFINE cb == request[h]
           p == cb.payment
           i == cb.invoice
           read == memory[h]
<1>1. /\ pc[h] = "updatePayment" /\ WaitsFor[h] = {} /\ UNCHANGED tables
      /\ pc[h] \in OfCallback \ {"findReceipt"}
  BY DEF UpdatePayment, At, OfCallback, OfOperator, Statements
<1>2. /\ cb \in Callbacks /\ p \in Payments /\ i \in Invoices /\ read \in Memory /\ HandlerInv(h)
      /\ TxTypes /\ ~Captures(h) /\ Refunding(h)
  BY <1>1, AtCallback DEF HandlerInv, RequestOf, OfRefund
<1>3. \A border \in Borders(h) : Sound(Wants(h) \cup border)
  <2>1. Wants(h) = {<<"payments", p, "X">>, <<"byInvoice", i, "insert">>}
    BY <1>1, WantsOfOthers
  <2>2. p \in Nat /\ i \in Nat
    BY <1>2, IdTypes
  <2>3. payments[p] # None
    BY <1>1, <1>2 DEF HandlerInv, PaymentOf, OfCallback, OfOperator, Statements
  <2>4. Sound(Wants(h))
    BY <1>2, <2>1, <2>2, <2>3 DEF Sound, Unique
  <2> QED
    BY <1>1, <2>4, NoBorders DEF Scans
<1>4. /\ "sumPayments" \in OfCallback \ {"findReceipt", "lockPayment"}
      /\ "sumPayments" \notin OfCapture
  BY DEF OfCallback, OfOperator, Statements, OfCapture
<1>5. Went(h, "sumPayments", read) /\ (RowsOf(h)' => TxInv')
  BY <1>1, <1>2, <1>3, <1>4, Onward DEF UpdatePayment
<1>6. /\ pc'[h] = "sumPayments" /\ memory'[h] = read /\ request'[h] = cb
      /\ ~Captures(h)' /\ Refunding(h)' /\ locks[h] \subseteq locks'[h]
      /\ payments' = payments /\ invoices' = invoices /\ refunds' = refunds
  BY <1>1, <1>2, <1>5 DEF Went, tables
<1> USE DEF OfCallback, OfOperator, Statements, Ending, Beginning
<1>7. PaymentOf(h)'
  BY <1>1, <1>2, <1>6 DEF HandlerInv, PaymentOf, Has
<1>8. InvoiceOf(h)'
  BY <1>1, <1>2, <1>6 DEF HandlerInv, InvoiceOf, Has
<1>9. RefundOf(h)'
  BY <1>1, <1>2, <1>6 DEF HandlerInv, RefundOf, Blocks, Has
<1>10. StatusOf(h)'
  BY <1>1, <1>2, <1>6 DEF HandlerInv, StatusOf
<1> QED
  BY <1>5, <1>7, <1>8, <1>9, <1>10 DEF RowsOf

LEMMA SumPaymentsKeeps ==
    ASSUME TxInv, NEW h \in Handlers, SumPayments(h)
    PROVE  TxInv'
<1> DEFINE cb == request[h]
           i == cb.invoice
           status == StatusAfterRefund(PaymentsSeen(h), i)
           read == [memory[h] EXCEPT !.status = status]
<1>1. /\ pc[h] = "sumPayments" /\ WaitsFor[h] = {} /\ UNCHANGED tables
      /\ pc[h] \in OfCallback \ {"findReceipt"}
  BY DEF SumPayments, At, OfCallback, OfOperator, Statements
<1>2. /\ cb \in Callbacks /\ i \in Invoices /\ memory[h] \in Memory /\ HandlerInv(h) /\ TxTypes
      /\ ~Captures(h) /\ Refunding(h)
  BY <1>1, AtCallback DEF HandlerInv, RequestOf, OfRefund
<1>3. \A border \in Borders(h) : Sound(Wants(h) \cup border)
  BY <1>1, <1>2, WantsOfOthers, ScanSound DEF Borders, Scans
<1>4. /\ "insertReceipt" \in OfCallback \ {"findReceipt", "lockPayment"}
      /\ "insertReceipt" \notin OfCapture \cup OfRefund
  BY DEF OfCallback, OfOperator, Statements, OfCapture, OfRefund
<1>5. /\ read \in Memory /\ read.payment = memory[h].payment
      /\ read.invoice = memory[h].invoice /\ read.status = status
  BY <1>2, ComputedStatuses DEF Memory
<1>6. Continue(h, "insertReceipt", read)
  BY DEF SumPayments
<1> HIDE DEF read
<1>7. Went(h, "insertReceipt", read) /\ (RowsOf(h)' => TxInv')
  BY <1>1, <1>3, <1>4, <1>5, <1>6, Onward
<1>8. /\ pc'[h] = "insertReceipt" /\ memory'[h] = read /\ request'[h] = cb
      /\ ~Captures(h)' /\ Refunding(h)' /\ locks[h] \subseteq locks'[h]
      /\ payments' = payments /\ invoices' = invoices /\ refunds' = refunds
  BY <1>1, <1>2, <1>7 DEF Went, tables
<1> USE DEF OfCallback, OfOperator, Statements, Ending, Beginning
<1>9. PaymentOf(h)'
  BY <1>1, <1>2, <1>5, <1>8 DEF HandlerInv, PaymentOf, Has
<1>10. InvoiceOf(h)'
  BY <1>1, <1>2, <1>5, <1>8 DEF HandlerInv, InvoiceOf, Has
<1>11. RefundOf(h)'
  BY <1>1, <1>2, <1>8 DEF HandlerInv, RefundOf, Blocks, Has
<1>12. StatusOf(h)'
  <2>1. PaymentsSeen(h)' = PaymentsSeen(h)
    BY <1>5, <1>8 DEF PaymentsSeen
  <2> QED
    BY <1>5, <1>8, <2>1 DEF StatusOf
<1> QED
  BY <1>7, <1>9, <1>10, <1>11, <1>12 DEF RowsOf

LEMMA InsertReceiptKeeps ==
    ASSUME TxInv, NEW h \in Handlers, InsertReceipt(h)
    PROVE  TxInv'
<1> DEFINE cb == request[h]
           e == cb.event
           read == memory[h]
<1>1. /\ pc[h] = "insertReceipt" /\ WaitsFor[h] = {} /\ UNCHANGED tables
      /\ pc[h] \in OfCallback \ {"findReceipt"}
  BY DEF InsertReceipt, At, OfCallback, OfOperator, Statements
<1>2. /\ cb \in Callbacks /\ e \in Events /\ read \in Memory /\ HandlerInv(h) /\ TxTypes
      /\ Captures(h) <=> ~Refunding(h)
  BY <1>1, AtCallback
<1>3. /\ <<"receipts", e, "insert">> \in Wants(h)
      /\ \A border \in Borders(h) : Sound(Wants(h) \cup border)
  <2>1. Wants(h) = {<<"receipts", e, "insert">>}
    BY <1>1, WantsOfOthers
  <2>2. e \in Nat
    BY <1>2, IdTypes
  <2>3. Sound(Wants(h))
    BY <2>1, <2>2 DEF Sound, Unique
  <2> QED
    BY <1>1, <2>1, <2>3, NoBorders DEF Scans
<1>4. /\ "commit" \in OfCallback \ {"findReceipt", "lockPayment"}
      /\ "commit" \notin OfCapture \cup OfRefund
  BY DEF OfCallback, OfOperator, Statements, OfCapture, OfRefund
<1>5. Went(h, "commit", read) /\ (RowsOf(h)' => TxInv')
  BY <1>1, <1>2, <1>3, <1>4, Onward DEF InsertReceipt
<1>6. /\ pc'[h] = "commit" /\ memory'[h] = read /\ request'[h] = cb
      /\ Captures(h)' = Captures(h) /\ Refunding(h)' = Refunding(h)
      /\ locks[h] \subseteq locks'[h]
      /\ payments' = payments /\ invoices' = invoices /\ refunds' = refunds
  BY <1>1, <1>5 DEF Went, tables
<1> USE DEF OfCallback, OfOperator, Statements, Ending, Beginning
<1>7. PaymentOf(h)'
  BY <1>1, <1>2, <1>6 DEF HandlerInv, PaymentOf, Has, Blocks
<1>8. InvoiceOf(h)'
  BY <1>1, <1>2, <1>6 DEF HandlerInv, InvoiceOf, Has
<1>9. RefundOf(h)'
  BY <1>1, <1>2, <1>6 DEF HandlerInv, RefundOf, Blocks, Has
<1>10. StatusOf(h)'
  <2>1. PaymentsSeen(h)' = PaymentsSeen(h)
    BY <1>6 DEF PaymentsSeen
  <2> QED
    BY <1>1, <1>2, <1>6, <2>1 DEF HandlerInv, StatusOf, StatusAfterCapture, WithinTotal
<1> QED
  BY <1>5, <1>7, <1>8, <1>9, <1>10 DEF RowsOf

-----------------------------------------------------------------------------
(* The statements of an operator's change                                  *)

LEMMA ReadInvoiceKeeps ==
    ASSUME TxInv, NEW h \in Handlers, ReadInvoice(h)
    PROVE  TxInv'
<1> DEFINE change == request[h]
           i == change.invoice
           row == invoices[i]
           read == [memory[h] EXCEPT !.invoice = row]
<1> USE DEF OfCallback, OfOperator, OfCapture, OfRefund, Statements
<1>1. /\ pc[h] = "readInvoice" /\ WaitsFor[h] = {} /\ UNCHANGED tables
  BY DEF ReadInvoice, At
<1>2. /\ change \in StatusChanges /\ i \in Invoices /\ memory[h] = Nothing /\ locks[h] = {}
      /\ answer[h] = None /\ HandlerInv(h) /\ TxTypes /\ change \notin Callbacks
  <2>1. change \in StatusChanges /\ HandlerInv(h) /\ TxTypes
    BY <1>1 DEF TxInv, HandlerInv, RequestOf
  <2> QED
    BY <1>1, <2>1, ChangeTypes, KindsOfRequest DEF HandlerInv, NothingOf
<1>3. ASSUME NEW outcome \in {"notFound", "conflict"}, Reply(h, outcome)
      PROVE  TxInv'
  BY <1>1, <1>3, ReplyKeeps DEF Outcomes
<1>4. ASSUME row # None, assertInvoiceTransition(row.status, change.next),
             row.version = change.expectedVersion, Continue(h, "casInvoice", read)
      PROVE  TxInv'
  <2>1. row \in InvoiceRow
    BY <1>2, <1>4 DEF TxTypes, TypeOK
  <2>2. read = [invoice |-> row, payment |-> None, status |-> None] /\ read \in Memory
    BY <1>2, <2>1 DEF Nothing, Memory
  <2>3. Wants(h) = {} /\ \A border \in Borders(h) : Sound(Wants(h) \cup border)
    BY <1>1, WantsOfOthers, NoBorders DEF Sound, Scans
  <2> HIDE DEF read
  <2>4. GoesOn(h, "casInvoice", read) /\ (HandlerInv(h)' => TxInv')
    BY <1>1, <1>4, <2>2, <2>3, ContinueKeeps
  <2>5. /\ pc'[h] = "casInvoice" /\ request'[h] = change /\ answer'[h] = None
        /\ memory'[h] = read /\ read.invoice = row /\ locks'[h] = {}
        /\ invoices' = invoices /\ receipts' = receipts
    BY <1>1, <1>2, <2>2, <2>3, <2>4 DEF GoesOn, Granted, tables, Scans
  <2>6. RequestOf(h)' /\ NothingOf(h)' /\ ReceiptOf(h)' /\ AnswerOf(h)'
    BY <1>2, <2>5, OutcomesAssumption DEF RequestOf, NothingOf, ReceiptOf, AnswerOf, Outcomes
  <2>7. PaymentOf(h)' /\ InvoiceOf(h)' /\ RefundOf(h)' /\ StatusOf(h)'
    BY <2>5 DEF PaymentOf, InvoiceOf, RefundOf, StatusOf, Beginning, Ending
  <2>8. ChangeOf(h)'
    BY <1>4, <2>1, <2>5 DEF ChangeOf, InvoiceRow
  <2> QED
    BY <2>4, <2>6, <2>7, <2>8 DEF HandlerInv
<1> QED
  BY <1>3, <1>4 DEF ReadInvoice

LEMMA CasInvoiceKeeps ==
    ASSUME TxInv, NEW h \in Handlers, CasInvoice(h)
    PROVE  TxInv'
<1> DEFINE change == request[h]
           i == change.invoice
           row == memory[h].invoice
           read == memory[h]
<1> USE DEF OfCallback, OfOperator, OfCapture, OfRefund, Statements
<1>1. /\ pc[h] = "casInvoice" /\ WaitsFor[h] = {} /\ UNCHANGED tables
  BY DEF CasInvoice, At
<1>2. /\ change \in StatusChanges /\ i \in Invoices /\ locks[h] = {}
      /\ answer[h] = None /\ HandlerInv(h) /\ TxTypes /\ change \notin Callbacks
      /\ read \in Memory /\ ChangeOf(h)
  <2>1. change \in StatusChanges /\ HandlerInv(h) /\ TxTypes
    BY <1>1 DEF TxInv, HandlerInv, RequestOf
  <2> QED
    BY <1>1, <2>1, ChangeTypes, KindsOfRequest DEF HandlerInv, NothingOf, TxTypes
<1>3. CASE ~VersionMatches(change)
  BY <1>1, <1>3, ReplyKeeps DEF CasInvoice, Outcomes
<1>4. CASE VersionMatches(change)
  <2>1. Wants(h) = {<<"invoices", i, "X">>}
    BY <1>1, WantsOfOthers
  <2>2. \A border \in Borders(h) : Sound(Wants(h) \cup border)
    <3>1. i \in Nat
      BY <1>2, IdTypes
    <3>2. Sound(Wants(h))
      BY <2>1, <3>1 DEF Sound, Unique
    <3> QED
      BY <1>1, <3>2, NoBorders DEF Scans
  <2>3. Continue(h, "commitChange", read)
    BY <1>4 DEF CasInvoice
  <2>4. GoesOn(h, "commitChange", read) /\ (HandlerInv(h)' => TxInv')
    BY <1>1, <1>2, <2>2, <2>3, ContinueKeeps
  <2>5. <<"invoices", i, "X">> \in Granted(Wants(h))
    BY <2>1 DEF Granted
  <2>6. /\ pc'[h] = "commitChange" /\ request'[h] = change /\ answer'[h] = None
        /\ memory'[h] = read /\ <<"invoices", i, "X">> \in locks'[h]
        /\ invoices' = invoices /\ receipts' = receipts
    BY <1>1, <1>2, <2>4, <2>5 DEF GoesOn, tables
  <2>7. RequestOf(h)' /\ NothingOf(h)' /\ ReceiptOf(h)' /\ AnswerOf(h)'
    BY <1>2, <2>6, OutcomesAssumption DEF RequestOf, NothingOf, ReceiptOf, AnswerOf, Outcomes
  <2>8. PaymentOf(h)' /\ InvoiceOf(h)' /\ RefundOf(h)' /\ StatusOf(h)'
    BY <2>6 DEF PaymentOf, InvoiceOf, RefundOf, StatusOf, Beginning, Ending
  <2>9. ChangeOf(h)'
    BY <1>1, <1>2, <1>4, <2>6 DEF ChangeOf, VersionMatches, Has
  <2> QED
    BY <2>4, <2>7, <2>8, <2>9 DEF HandlerInv
<1> QED
  BY <1>3, <1>4

-----------------------------------------------------------------------------
(* Requests and answers, deadlocks and faults                              *)

\* A step of one handler that neither locks nor writes anything.
LEMMA OneHandler ==
    ASSUME TxInv, NEW h \in Handlers, UNCHANGED <<tables, memory, faults, locks>>,
           NEW statement \in Statements \cup {"idle", "answer"},
           pc' = [pc EXCEPT ![h] = statement],
           NEW r \in Callbacks \cup StatusChanges \cup {None},
           request' = [request EXCEPT ![h] = r],
           NEW outcome \in Outcomes \cup {None},
           answer' = [answer EXCEPT ![h] = outcome], HandlerInv(h)'
    PROVE  TxInv'
<1>1. TxTypes'
  BY DEF TxInv, TxTypes, TypeOK, tables
<1>2. ASSUME NEW g \in Handlers \ {h} PROVE HandlerInv(g)'
  BY <1>2, SameHandler DEF TxInv, TxTypes
<1>3. Exclusive' /\ GapsAreFree'
  BY DEF TxInv, Exclusive, GapsAreFree, Has, Blocks, tables
<1> QED
  BY <1>1, <1>2, <1>3 DEF TxInv

LEMMA ReceiveKeeps ==
    ASSUME TxInv, NEW h \in Handlers, NEW r, NEW statement, Receive(h, r, statement),
           \/ r \in Callbacks /\ statement = "findReceipt"
           \/ r \in StatusChanges /\ statement = "readInvoice"
    PROVE  TxInv'
<1> USE DEF OfCallback, OfOperator, OfCapture, OfRefund, Statements
<1>1. /\ pc[h] = "idle" /\ locks[h] = {} /\ memory[h] = Nothing /\ answer[h] = None
      /\ TxTypes
  BY DEF Receive, TxInv, HandlerInv, NothingOf
<1>2. /\ pc'[h] = statement /\ request'[h] = r /\ memory'[h] = Nothing /\ answer'[h] = None
      /\ locks'[h] = {} /\ receipts' = receipts
  BY <1>1 DEF Receive, TxTypes, tables
<1>3. RequestOf(h)' /\ NothingOf(h)' /\ ReceiptOf(h)' /\ AnswerOf(h)' /\ ChangeOf(h)'
  BY <1>2, OutcomesAssumption DEF RequestOf, NothingOf, ReceiptOf, AnswerOf, ChangeOf, Outcomes
<1>4. PaymentOf(h)' /\ InvoiceOf(h)' /\ RefundOf(h)' /\ StatusOf(h)'
  BY <1>2 DEF PaymentOf, InvoiceOf, RefundOf, StatusOf, Beginning, Ending, Nothing
<1>5. /\ r \in Callbacks \cup StatusChanges \cup {None}
      /\ statement \in Statements \cup {"idle", "answer"}
      /\ answer' = [answer EXCEPT ![h] = None]
      /\ UNCHANGED <<tables, memory, faults, locks>>
      /\ pc' = [pc EXCEPT ![h] = statement]
      /\ request' = [request EXCEPT ![h] = r]
  BY <1>1 DEF Receive, TxTypes
<1> QED
  BY <1>3, <1>4, <1>5, OneHandler DEF HandlerInv

LEMMA AnswerKeeps ==
    ASSUME TxInv, NEW h \in Handlers, Answer(h)
    PROVE  TxInv'
<1> USE DEF OfCallback, OfOperator, OfCapture, OfRefund, Statements
<1>1. /\ pc[h] = "answer" /\ locks[h] = {} /\ memory[h] = Nothing /\ TxTypes
  BY DEF Answer, TxInv, HandlerInv, NothingOf
<1>2. /\ pc'[h] = "idle" /\ request'[h] = None /\ memory'[h] = Nothing /\ answer'[h] = None
      /\ locks'[h] = {}
  BY <1>1 DEF Answer, TxTypes
<1>3. RequestOf(h)' /\ NothingOf(h)' /\ ReceiptOf(h)' /\ AnswerOf(h)' /\ ChangeOf(h)'
  BY <1>2, OutcomesAssumption DEF RequestOf, NothingOf, ReceiptOf, AnswerOf, ChangeOf, Outcomes
<1>4. PaymentOf(h)' /\ InvoiceOf(h)' /\ RefundOf(h)' /\ StatusOf(h)'
  BY <1>2 DEF PaymentOf, InvoiceOf, RefundOf, StatusOf, Beginning, Ending
<1> QED
  BY <1>3, <1>4, OneHandler DEF Answer, HandlerInv

LEMMA DeadlockVictimKeeps ==
    ASSUME TxInv, NEW h \in Handlers, DeadlockVictim(h)
    PROVE  TxInv'
BY ReplyKeeps DEF DeadlockVictim, Outcomes

LEMMA FaultKeeps ==
    ASSUME TxInv, NEW h \in Handlers, Fault(h)
    PROVE  TxInv'
<1>1. Ends(h, "error") /\ UNCHANGED tables
  BY DEF Fault, Ends
<1>2. faults' \in 0 .. MaxFaults
  BY FaultsAssumption DEF Fault, TxInv, TxTypes
<1> QED
  BY <1>1, <1>2, EndKeeps DEF Outcomes

-----------------------------------------------------------------------------
(* Steps that change the tables                                            *)

\* Totals depend on the rows of their invoice alone.
LEMMA SameRowsSameTotals ==
    ASSUME NEW table \in PaymentTable, NEW new \in PaymentTable, NEW i \in Invoices,
           \A p \in Payments : \/ table[p] # None /\ table[p].invoice = i
                               \/ new[p] # None /\ new[p].invoice = i
                               => new[p] = table[p]
    PROVE  /\ capturedTotal(new, i) = capturedTotal(table, i)
           /\ refundedTotal(new, i) = refundedTotal(table, i)
<1>1. PaymentsOf(new, i) = PaymentsOf(table, i)
  BY DEF PaymentsOf
<1>2. \A p \in PaymentsOf(table, i) : new[p] = table[p]
  BY DEF PaymentsOf
<1>3. AmountsOf(new, i) = AmountsOf(table, i) /\ RefundedOf(new, i) = RefundedOf(table, i)
  BY <1>1, <1>2 DEF AmountsOf, RefundedOf
<1> QED
  BY <1>3 DEF capturedTotal, refundedTotal

\* What a step may write with g's transaction open: nothing that g has locked.
\* A receipt is never replaced, a payment stays with its invoice, and every
\* change of an invoice counts in its version.
Spares(g) ==
    /\ \A e \in Events : receipts'[e] # receipts[e] =>
          receipts[e] = None /\ ~Blocks(g, "receipts", e)
    /\ \A p \in Payments : payments'[p] # payments[p] =>
          /\ ~Blocks(g, "payments", p) /\ payments'[p] # None
          /\ ~Blocks(g, "invoices", payments'[p].invoice)
          /\ payments[p] # None => payments'[p].invoice = payments[p].invoice
    /\ \A r \in Refunds : refunds'[r] # refunds[r] => ~Blocks(g, "refunds", r)
    /\ \A i \in Invoices : invoices'[i] # invoices[i] =>
          /\ invoices'[i] # None
          /\ invoices[i] # None => /\ ~Blocks(g, "invoices", i)
                                   /\ invoices[i].version < invoices'[i].version

\* The totals of an invoice that g has locked.
LEMMA SparedTotals ==
    ASSUME TypeOK, TypeOK', NEW g \in Handlers, Spares(g), NEW i \in Invoices, Has(g, "invoices", i)
    PROVE  capturedTotal(payments', i) = capturedTotal(payments, i)
<1>1. payments \in PaymentTable /\ payments' \in PaymentTable
  BY DEF TypeOK, PaymentTable
<1>2. Blocks(g, "invoices", i)
  BY DEF Has, Blocks
<1>3. \A p \in Payments : \/ payments[p] # None /\ payments[p].invoice = i
                          \/ payments'[p] # None /\ payments'[p].invoice = i
                          => payments'[p] = payments[p]
  BY <1>2 DEF Spares
<1> QED
  BY <1>1, <1>3, SameRowsSameTotals

\* The same for the table as a refund sees it.
LEMMA SparedStatus ==
    ASSUME TypeOK, TypeOK', NEW g \in Handlers, Spares(g),
           request'[g] = request[g], memory'[g] = memory[g], request[g] \in Callbacks,
           payments[request[g].payment] # None,
           memory[g].payment = payments[request[g].payment],
           Has(g, "payments", request[g].payment), Has(g, "invoices", request[g].invoice)
    PROVE  StatusAfterRefund(PaymentsSeen(g), request[g].invoice)'
             = StatusAfterRefund(PaymentsSeen(g), request[g].invoice)
<1> DEFINE p == request[g].payment
           i == request[g].invoice
           row == payments[p]
           seen == [payments EXCEPT ![p] = RefundedPayment(row, request[g].amount)]
           seen2 == [payments' EXCEPT ![p] = RefundedPayment(row, request[g].amount)]
<1>1. p \in Payments /\ i \in Invoices /\ request[g].amount \in Nat
  BY CallbackTypes
<1>2. row \in PaymentRow
  BY <1>1 DEF TypeOK
<1>3. payments'[p] = row
  BY <1>1 DEF Spares, Has, Blocks
<1>4. PaymentsSeen(g) = seen
  BY DEF PaymentsSeen
<1>5. PaymentsSeen(g)' = seen2
  BY <1>3 DEF PaymentsSeen
<1>6. RefundedPayment(row, request[g].amount) \in PaymentRow
  BY <1>1, <1>2, RefundedPaymentType
<1>7. seen \in PaymentTable /\ seen2 \in PaymentTable
  BY <1>6 DEF TypeOK, PaymentTable
<1>8. \A q \in Payments : \/ seen[q] # None /\ seen[q].invoice = i
                          \/ seen2[q] # None /\ seen2[q].invoice = i
                          => seen2[q] = seen[q]
  <2> SUFFICES ASSUME NEW q \in Payments,
                      \/ seen[q] # None /\ seen[q].invoice = i
                      \/ seen2[q] # None /\ seen2[q].invoice = i
               PROVE  seen2[q] = seen[q]
    OBVIOUS
  <2>1. CASE q = p
    BY <1>1, <2>1 DEF TypeOK
  <2>2. CASE q # p
    <3>1. seen[q] = payments[q] /\ seen2[q] = payments'[q]
      BY <2>2 DEF TypeOK
    <3>2. Blocks(g, "invoices", i)
      BY DEF Has, Blocks
    <3> QED
      BY <3>1, <3>2 DEF Spares
  <2> QED
    BY <2>1, <2>2
<1> HIDE DEF seen, seen2
<1>9. /\ capturedTotal(seen2, i) = capturedTotal(seen, i)
      /\ refundedTotal(seen2, i) = refundedTotal(seen, i)
  BY <1>1, <1>7, <1>8, SameRowsSameTotals
<1>10. StatusAfterRefund(seen2, i) = StatusAfterRefund(seen, i)
  BY <1>9 DEF StatusAfterRefund
<1>11. request'[g].invoice = i
  OBVIOUS
<1> QED
  BY <1>4, <1>5, <1>10, <1>11

LEMMA BystanderKeeps ==
    ASSUME TxInv, TypeOK', NEW g \in Handlers, Spares(g),
           pc'[g] = pc[g], request'[g] = request[g], memory'[g] = memory[g],
           answer'[g] = answer[g], locks'[g] = locks[g]
    PROVE  HandlerInv(g)'
<1> DEFINE cb == request[g]
<1> USE DEF Beginning, Ending
<1>1. HandlerInv(g) /\ TypeOK
  BY DEF TxInv, TxTypes
<1>2. Captures(g)' = Captures(g) /\ Refunding(g)' = Refunding(g)
  BY DEF Captures, Refunding
<1>3. RequestOf(g)' /\ NothingOf(g)'
  BY <1>1, <1>2 DEF HandlerInv, RequestOf, NothingOf
<1>4. ASSUME pc[g] \in OfCallback
      PROVE  /\ cb \in Callbacks /\ cb.event \in Events /\ cb.payment \in Payments
             /\ cb.refund \in Refunds \cup {None} /\ cb.invoice \in Invoices
  BY <1>1, <1>4, CallbackTypes DEF HandlerInv, RequestOf
<1>5. ReceiptOf(g)'
  BY <1>1, <1>4 DEF HandlerInv, ReceiptOf, Spares, Has, Blocks
<1>6. PaymentOf(g)'
  BY <1>1, <1>2, <1>4 DEF HandlerInv, PaymentOf, Spares, Has, Blocks, OfCallback, OfOperator, Statements
<1>7. InvoiceOf(g)'
  BY <1>1, <1>2, <1>4 DEF HandlerInv, InvoiceOf, Spares, Has, Blocks, OfCallback, OfOperator, Statements
<1>8. RefundOf(g)'
  BY <1>1, <1>2, <1>4 DEF HandlerInv, RequestOf, RefundOf, Spares, Has, Blocks, OfCallback, OfOperator, Statements
<1>9. StatusOf(g)'
  <2>1. CASE pc[g] \in {"insertPayment"} \cup Ending /\ Captures(g)
    <3>1. /\ memory[g].status = StatusAfterCapture(cb.invoice, cb.amount)
          /\ WithinTotal(cb.invoice, cb.amount)
      BY <1>1, <2>1 DEF HandlerInv, StatusOf
    <3>2. pc[g] \in OfCallback \ Beginning
      BY <2>1 DEF OfCallback, OfOperator, Statements
    <3>3. cb.invoice \in Invoices /\ Has(g, "invoices", cb.invoice) /\ invoices[cb.invoice] # None
      BY <1>1, <1>4, <3>2 DEF HandlerInv, InvoiceOf
    <3>4. capturedTotal(payments', cb.invoice) = capturedTotal(payments, cb.invoice)
      BY <1>1, <3>3, SparedTotals
    <3>5. invoices'[cb.invoice] = invoices[cb.invoice]
      BY <3>3 DEF Spares, Has, Blocks
    <3>6. /\ StatusAfterCapture(cb.invoice, cb.amount)' = StatusAfterCapture(cb.invoice, cb.amount)
          /\ WithinTotal(cb.invoice, cb.amount)' = WithinTotal(cb.invoice, cb.amount)
      BY <3>4, <3>5 DEF StatusAfterCapture, WithinTotal
    <3>7. ~Refunding(g)
      BY <2>1 DEF Captures, Refunding
    <3> QED
      BY <1>2, <2>1, <3>1, <3>6, <3>7 DEF StatusOf
  <2>2. CASE pc[g] \in Ending /\ Refunding(g)
    <3>1. memory[g].status = StatusAfterRefund(PaymentsSeen(g), cb.invoice)
      BY <1>1, <2>2 DEF HandlerInv, StatusOf
    <3>2. pc[g] \in OfCallback \ Beginning
      BY <2>2 DEF OfCallback, OfOperator, Statements
    <3>3. /\ cb \in Callbacks /\ Has(g, "invoices", cb.invoice)
          /\ payments[cb.payment] # None /\ memory[g].payment = payments[cb.payment]
          /\ Has(g, "payments", cb.payment)
      BY <1>1, <1>4, <2>2, <3>2 DEF HandlerInv, InvoiceOf, PaymentOf
    <3>4. StatusAfterRefund(PaymentsSeen(g), cb.invoice)'
            = StatusAfterRefund(PaymentsSeen(g), cb.invoice)
      BY <1>1, <3>3, SparedStatus
    <3>5. ~Captures(g)
      BY <2>2 DEF Captures, Refunding
    <3> QED
      BY <1>2, <2>2, <3>1, <3>4, <3>5 DEF StatusOf
  <2>3. CASE ~(pc[g] \in {"insertPayment"} \cup Ending /\ Captures(g)) /\ ~(pc[g] \in Ending /\ Refunding(g))
    BY <1>1, <1>2, <2>3 DEF HandlerInv, StatusOf
  <2> QED
    BY <2>1, <2>2, <2>3
<1>10. ChangeOf(g)'
  <2>1. ASSUME pc[g] \in {"casInvoice", "commitChange"}
        PROVE  cb.invoice \in Invoices
    BY <1>1, <2>1, ChangeTypes DEF HandlerInv, RequestOf, OfOperator
  <2>2. ASSUME NEW i \in Invoices, invoices[i] # None
        PROVE  invoices[i] \in InvoiceRow /\ invoices'[i] \in InvoiceRow
    BY <1>1, <2>2 DEF TypeOK, Spares
  <2>3. ASSUME NEW i \in Invoices, invoices[i] # None
        PROVE  /\ invoices'[i] # None
               /\ invoices'[i] # invoices[i] => invoices[i].version < invoices'[i].version
               /\ Has(g, "invoices", i) => invoices'[i] = invoices[i]
    BY <2>3 DEF Spares, Has, Blocks
  <2> QED
    BY <1>1, <2>1, <2>2, <2>3 DEF HandlerInv, ChangeOf, Has, InvoiceRow
<1>11. AnswerOf(g)'
  <2>1. ASSUME cb \in Callbacks PROVE cb.event \in Events /\ cb.hash # None
    BY <2>1, CallbackTypes, NoneAssumption
  <2> QED
    BY <1>1, <2>1 DEF HandlerInv, AnswerOf, Spares
<1> QED
  BY <1>3, <1>5, <1>6, <1>7, <1>8, <1>9, <1>10, <1>11 DEF HandlerInv

\* A transaction that ends with its writes, the others being spared.
LEMMA WriteKeeps ==
    ASSUME TxInv, TypeOK', NEW h \in Handlers, NEW outcome \in Outcomes, Ends(h, outcome),
           faults' = faults, \A g \in Handlers \ {h} : Spares(g),
           request[h] \in Callbacks => receipts'[request[h].event] = request[h].hash
    PROVE  TxInv'
<1>1. /\ locks' = [locks EXCEPT ![h] = {}] /\ TxTypes
      /\ pc' = [pc EXCEPT ![h] = "answer"] /\ answer' = [answer EXCEPT ![h] = outcome]
      /\ memory' = [memory EXCEPT ![h] = Nothing] /\ request' = request
  BY DEF Ends, Release, TxInv
<1>2. /\ locks'[h] = {} /\ pc'[h] = "answer" /\ memory'[h] = Nothing
      /\ \A g \in Handlers \ {h} :
            /\ pc'[g] = pc[g] /\ request'[g] = request[g] /\ memory'[g] = memory[g]
            /\ answer'[g] = answer[g] /\ locks'[g] = locks[g]
  BY <1>1 DEF TxTypes
<1>3. TxTypes'
  <2>1. Nothing \in Memory
    BY DEF Nothing, Memory
  <2> QED
    BY <1>1, <2>1 DEF TxTypes
<1>4. HandlerInv(h)'
  BY <1>1, <1>2, AfterReply
<1>5. ASSUME NEW g \in Handlers \ {h} PROVE HandlerInv(g)'
  BY <1>2, BystanderKeeps
<1>6. Exclusive'
  BY <1>2 DEF TxInv, Exclusive, Has, Blocks
<1>7. GapsAreFree'
  <2>1. ASSUME NEW g \in Handlers \ {h}, NEW p \in Payments, <<"payments", p, "gap">> \in locks[g]
        PROVE  payments'[p] = None
    BY <2>1 DEF TxInv, GapsAreFree, Spares, Blocks
  <2> QED
    BY <1>2, <2>1 DEF TxInv, GapsAreFree, Has, Blocks
<1> QED
  BY <1>3, <1>4, <1>5, <1>6, <1>7 DEF TxInv

\* Whoever commits is alone with what it has locked.
LEMMA OthersBlockNothing ==
    ASSUME TxInv, NEW h \in Handlers, NEW g \in Handlers \ {h}, NEW index \in Unique,
           NEW id \in Nat, Has(h, index, id)
    PROVE  ~Blocks(g, index, id)
BY DEF TxInv, Exclusive

\* COMMIT does what Billing says of a callback nobody has sent before.
LEMMA CommitIsCapture ==
    ASSUME TxInv, NEW h \in Handlers, Commit(h), Captures(h)
    PROVE  request[h] \in Callbacks /\ Capture(request[h])
<1> DEFINE cb == request[h]
           i == cb.invoice
           p == cb.payment
<1> USE DEF OfCallback, OfOperator, Statements, Ending, Beginning
<1>1. pc[h] = "commit" /\ ~Refunding(h)
  BY DEF Commit, At, Captures, Refunding
<1>2. /\ cb \in Callbacks /\ HandlerInv(h)
  BY <1>1, AtCallback
<1>3. /\ receipts[cb.event] = None
      /\ invoices[i] # None /\ memory[h].invoice = invoices[i] /\ AcceptsCapture(invoices[i].status)
      /\ payments[p] = None
      /\ memory[h].status = StatusAfterCapture(i, cb.amount) /\ WithinTotal(i, cb.amount)
  BY <1>1, <1>2 DEF HandlerInv, ReceiptOf, InvoiceOf, PaymentOf, StatusOf
<1>4. WriteCapture(h) /\ cb.type = "payment.captured"
  BY DEF Commit, WriteRefund, Captures
<1> QED
  BY <1>2, <1>3, <1>4 DEF Commit, WriteCapture, Capture

LEMMA CommitIsRefund ==
    ASSUME TxInv, NEW h \in Handlers, Commit(h), Refunding(h)
    PROVE  request[h] \in Callbacks /\ Refund(request[h])
<1> DEFINE cb == request[h]
           i == cb.invoice
           p == cb.payment
<1> USE DEF OfCallback, OfOperator, Statements, Ending, Beginning
<1>1. pc[h] = "commit" /\ ~Captures(h)
  BY DEF Commit, At, Captures, Refunding
<1>2. /\ cb \in Callbacks /\ HandlerInv(h)
  BY <1>1, AtCallback
<1>3. /\ receipts[cb.event] = None /\ cb.refund # None /\ refunds[cb.refund] = None
      /\ payments[p] # None /\ memory[h].payment = payments[p]
      /\ invoices[i] # None /\ memory[h].invoice = invoices[i]
      /\ MayRefund(cb, payments[p], invoices[i])
      /\ memory[h].status = StatusAfterRefund(PaymentsSeen(h), i)
  BY <1>1, <1>2 DEF HandlerInv, RequestOf, ReceiptOf, InvoiceOf, PaymentOf, RefundOf, StatusOf
<1>4. WriteRefund(h) /\ cb.type = "payment.refunded"
  BY DEF Commit, WriteCapture, Refunding
<1>5. PaymentsSeen(h) = [payments EXCEPT ![p] = RefundedPayment(@, cb.amount)]
  BY <1>3 DEF PaymentsSeen
<1>6. /\ payments' = [payments EXCEPT ![p] = RefundedPayment(@, cb.amount)]
      /\ memory[h].status = StatusAfterRefund(payments', i)
  BY <1>3, <1>4, <1>5 DEF WriteRefund
<1>7. /\ payments[p].invoice = i /\ AcceptsRefund(invoices[i].status)
      /\ WithinPayment(p, cb.amount)
  BY <1>3 DEF MayRefund, WithinPayment
<1> QED
  BY <1>2, <1>3, <1>4, <1>6, <1>7 DEF Commit, WriteRefund, Refund

LEMMA CommitKeeps ==
    ASSUME TxInv, NEW h \in Handlers, Commit(h)
    PROVE  TxInv'
<1> DEFINE cb == request[h]
           i == cb.invoice
           p == cb.payment
           e == cb.event
<1> USE DEF OfCallback, OfOperator, Statements, Ending, Beginning
<1>1. pc[h] = "commit"
  BY DEF Commit, At
<1>2. /\ cb \in Callbacks /\ HandlerInv(h) /\ TxTypes /\ TypeOK /\ (Captures(h) <=> ~Refunding(h))
      /\ e \in Events /\ p \in Payments /\ i \in Invoices /\ cb.amount \in Nat
      /\ memory[h] \in Memory
  BY <1>1, AtCallback DEF TxTypes
<1>3. Next /\ TypeOK'
  <2>1. Next
    BY <1>2, CommitIsCapture, CommitIsRefund DEF Next
  <2> QED
    BY <1>2, <2>1, TypeOKStep
<1>4. /\ Has(h, "receipts", e) /\ receipts[e] = None
      /\ Has(h, "invoices", i) /\ invoices[i] # None
      /\ Has(h, "payments", p)
      /\ Refunding(h) => cb.refund \in Refunds /\ Has(h, "refunds", cb.refund)
  BY <1>1, <1>2, CallbackTypes
  DEF HandlerInv, RequestOf, ReceiptOf, InvoiceOf, PaymentOf, RefundOf
<1>5. ASSUME NEW g \in Handlers \ {h}
      PROVE  /\ ~Blocks(g, "receipts", e) /\ ~Blocks(g, "invoices", i)
             /\ ~Blocks(g, "payments", p)
             /\ Refunding(h) => ~Blocks(g, "refunds", cb.refund)
  BY <1>2, <1>4, <1>5, IdTypes, OthersBlockNothing DEF Unique
<1>6. /\ receipts' = [receipts EXCEPT ![e] = cb.hash]
      /\ SetInvoice(i, memory[h].status)
  BY DEF Commit, AcceptReceipt
<1>7. memory[h].status \in Statuses
  BY <1>1, <1>2, ComputedStatuses DEF HandlerInv, StatusOf
<1>8. /\ \A q \in Events \ {e} : receipts'[q] = receipts[q]
      /\ receipts'[e] = cb.hash
  BY <1>2, <1>6 DEF TypeOK
<1>9. /\ invoices'[i] # None /\ invoices'[i].version = invoices[i].version + 1
      /\ invoices[i].version \in Nat
      /\ \A j \in Invoices \ {i} : invoices'[j] = invoices[j]
  BY <1>2, <1>4, <1>6, <1>7, SetInvoiceTypes DEF TypeOK, InvoiceRow
<1>10. /\ payments'[p] # None /\ payments'[p].invoice = i
       /\ payments[p] # None => payments[p].invoice = i
       /\ \A q \in Payments \ {p} : payments'[q] = payments[q]
  <2>1. CASE Captures(h)
    <3>1. /\ payments[p] = None
          /\ payments' = [payments EXCEPT ![p] =
                             [invoice |-> i, amount |-> cb.amount, refunded |-> 0,
                              status |-> "CAPTURED", version |-> 1]]
      BY <2>1, CommitIsCapture DEF Capture
    <3>2. [invoice |-> i, amount |-> cb.amount, refunded |-> 0,
           status |-> "CAPTURED", version |-> 1] \in PaymentRow
      BY <1>2 DEF PaymentRow, PaymentStatuses
    <3> QED
      BY <1>2, <3>1, <3>2, NoneAssumption DEF TypeOK
  <2>2. CASE Refunding(h)
    <3>1. /\ payments[p] # None /\ payments[p].invoice = i
          /\ payments' = [payments EXCEPT ![p] = RefundedPayment(@, cb.amount)]
      BY <2>2, CommitIsRefund DEF Refund
    <3>2. payments[p] \in PaymentRow
      BY <1>2, <3>1 DEF TypeOK
    <3>3. /\ RefundedPayment(payments[p], cb.amount) \in PaymentRow
          /\ RefundedPayment(payments[p], cb.amount).invoice = i
      BY <1>2, <3>1, <3>2, RefundedPaymentType
    <3> QED
      BY <1>2, <3>1, <3>3, NoneAssumption DEF TypeOK
  <2> QED
    BY <1>2, <2>1, <2>2
<1>11. \A r \in Refunds : refunds'[r] # refunds[r] => Refunding(h) /\ r = cb.refund
  <2>1. CASE Captures(h)
    BY <2>1, CommitIsCapture DEF Capture
  <2>2. CASE Refunding(h)
    <3>1. refunds' = [refunds EXCEPT ![cb.refund] = [payment |-> p, amount |-> cb.amount]]
      BY <2>2, CommitIsRefund DEF Refund
    <3> QED
      BY <1>2, <2>2, <3>1 DEF TypeOK
  <2> QED
    BY <1>2, <2>1, <2>2
<1>12. ASSUME NEW g \in Handlers \ {h} PROVE Spares(g)
  BY <1>4, <1>5, <1>8, <1>9, <1>10, <1>11 DEF Spares
<1>13. Ends(h, "accepted") /\ faults' = faults
  BY DEF Commit, Reply, EndTransaction, Ends
<1> QED
  BY <1>3, <1>8, <1>12, <1>13, WriteKeeps DEF Outcomes

\* COMMIT of an operator's change does what Billing says of it.
LEMMA CommitIsTransition ==
    ASSUME TxInv, NEW h \in Handlers, CommitChange(h)
    PROVE  LET change == request[h] IN
           /\ change \in StatusChanges
           /\ Transition(change.invoice, change.next, change.expectedVersion)
           /\ Has(h, "invoices", change.invoice)
<1>1. pc[h] = "commitChange" /\ HandlerInv(h)
  BY DEF CommitChange, At, TxInv
<1>2. request[h] \in StatusChanges /\ ChangeOf(h)
  BY <1>1 DEF HandlerInv, RequestOf, OfOperator
<1> QED
  BY <1>1, <1>2 DEF ChangeOf, CommitChange, Transition

LEMMA CommitChangeKeeps ==
    ASSUME TxInv, NEW h \in Handlers, CommitChange(h)
    PROVE  TxInv'
<1> DEFINE change == request[h]
           i == change.invoice
<1>1. /\ change \in StatusChanges /\ Transition(i, change.next, change.expectedVersion)
      /\ Has(h, "invoices", i) /\ TypeOK
  BY CommitIsTransition DEF TxInv, TxTypes
<1>2. /\ i \in Invoices /\ change.next \in ManualStatuses
      /\ change.expectedVersion \in 1 .. MaxVersion
      /\ change \notin Callbacks
  BY <1>1, ChangeTypes, KindsOfRequest
<1>3. TypeOK'
  <2>1. Next
    BY <1>1, <1>2 DEF Next
  <2> QED
    BY <1>1, <2>1, TypeOKStep
<1>4. SetInvoice(i, change.next) /\ invoices[i] # None /\ change.next \in Statuses
  BY <1>1, <1>2 DEF Transition, ManualStatuses, Statuses
<1>5. /\ invoices'[i] # None /\ invoices'[i].version = invoices[i].version + 1
      /\ invoices[i].version \in Nat
      /\ \A j \in Invoices \ {i} : invoices'[j] = invoices[j]
  BY <1>1, <1>2, <1>4, SetInvoiceTypes DEF TypeOK, InvoiceRow
<1>6. ASSUME NEW g \in Handlers \ {h} PROVE ~Blocks(g, "invoices", i)
  BY <1>1, <1>2, <1>6, IdTypes, OthersBlockNothing DEF Unique
<1>7. UNCHANGED <<payments, refunds, receipts>>
  BY <1>1 DEF Transition
<1>8. ASSUME NEW g \in Handlers \ {h} PROVE Spares(g)
  BY <1>5, <1>6, <1>7 DEF Spares
<1>9. Ends(h, "accepted") /\ faults' = faults
  BY DEF CommitChange, Reply, EndTransaction, Ends
<1> QED
  BY <1>2, <1>3, <1>8, <1>9, WriteKeeps DEF Outcomes

LEMMA CreateKeeps ==
    ASSUME TxInv, NEW o \in Orders, NEW i \in Invoices, Create(o, i)
    PROVE  TxInv'
<1>1. CreateInvoice(o, i) /\ UNCHANGED txVars /\ TypeOK
  BY DEF Create, TxInv, TxTypes
<1>2. TypeOK'
  <2>1. Next
    BY <1>1 DEF Next
  <2> QED
    BY <1>1, <2>1, TypeOKStep
<1>3. /\ invoices[i] = None /\ invoices'[i] # None
      /\ \A j \in Invoices \ {i} : invoices'[j] = invoices[j]
      /\ UNCHANGED <<payments, refunds, receipts>>
  <2>1. [total |-> o.total, status |-> "ISSUED", version |-> 1] \in InvoiceRow
    BY RequestTypes DEF InvoiceRow, Statuses
  <2> QED
    BY <1>1, <2>1, NoneAssumption DEF CreateInvoice, TypeOK
<1>4. ASSUME NEW g \in Handlers PROVE HandlerInv(g)'
  <2>1. Spares(g)
    BY <1>3 DEF Spares
  <2> QED
    BY <1>1, <1>2, <2>1, BystanderKeeps DEF txVars
<1> QED
  BY <1>1, <1>2, <1>3, <1>4
  DEF txVars, TxInv, TxTypes, Exclusive, GapsAreFree, Has, Blocks

-----------------------------------------------------------------------------
(* The theorems                                                            *)

LEMMA TxInit_TxInv == TxInit => TxInv
<1> SUFFICES ASSUME TxInit PROVE TxInv
  OBVIOUS
<1>1. TypeOK
  BY TypeOKInit DEF TxInit
<1>2. Nothing \in Memory
  BY DEF Nothing, Memory
<1>3. TxTypes
  BY <1>1, <1>2, FaultsAssumption DEF TxInit, TxTypes
<1>4. ASSUME NEW h \in Handlers PROVE HandlerInv(h)
  <2>1. /\ pc[h] = "idle" /\ request[h] = None /\ memory[h] = Nothing /\ answer[h] = None
        /\ locks[h] = {}
    BY DEF TxInit
  <2> USE DEF OfCallback, OfOperator, OfCapture, OfRefund, Statements, Ending, Beginning
  <2>2. RequestOf(h) /\ NothingOf(h) /\ ReceiptOf(h) /\ ChangeOf(h) /\ AnswerOf(h)
    BY <2>1, OutcomesAssumption DEF RequestOf, NothingOf, ReceiptOf, ChangeOf, AnswerOf, Outcomes
  <2>3. PaymentOf(h) /\ InvoiceOf(h) /\ RefundOf(h) /\ StatusOf(h)
    BY <2>1 DEF PaymentOf, InvoiceOf, RefundOf, StatusOf
  <2> QED
    BY <2>2, <2>3 DEF HandlerInv
<1>5. Exclusive /\ GapsAreFree
  BY DEF TxInit, Exclusive, GapsAreFree, Has, Blocks
<1> QED
  BY <1>3, <1>4, <1>5 DEF TxInv

LEMMA TxInvStep == TxInv /\ [TxNext]_allVars => TxInv'
<1> SUFFICES ASSUME TxInv, [TxNext]_allVars PROVE TxInv'
  OBVIOUS
<1>1. CASE UNCHANGED allVars
  <2>1. UNCHANGED tables /\ UNCHANGED txVars
    BY <1>1 DEF allVars
  <2>2. ASSUME NEW g \in Handlers PROVE HandlerInv(g)'
    BY <2>1, SameHandler DEF txVars, TxInv
  <2> QED
    BY <2>1, <2>2 DEF tables, txVars, TxInv, TxTypes, TypeOK, Exclusive, GapsAreFree, Has, Blocks
<1>2. ASSUME NEW h \in Handlers, HandlerStep(h) PROVE TxInv'
  BY <1>2, FindReceiptKeeps, LockPaymentKeeps, LockInvoiceKeeps, FindPaymentKeeps,
     SumCapturedKeeps, InsertPaymentKeeps, FindRefundKeeps, InsertRefundKeeps,
     UpdatePaymentKeeps, SumPaymentsKeeps, InsertReceiptKeeps, CommitKeeps,
     ReadInvoiceKeeps, CasInvoiceKeeps, CommitChangeKeeps, AnswerKeeps
  DEF HandlerStep
<1> QED
  BY <1>1, <1>2, CreateKeeps, ReceiveKeeps, DeadlockVictimKeeps, FaultKeeps DEF TxNext

LEMMA TxInvAlways == TxSafety => []TxInv
BY TxInit_TxInv, TxInvStep, PTL DEF TxSafety

\* Types, and no lock outside of a transaction: whichever way one ends, by
\* COMMIT, by an error of its own, as a deadlock's victim or with its replica,
\* its connection goes back without locks.
THEOREM TxTypeCorrect == TxSafety => []TxTypeOK
<1>1. TxInv => TxTypeOK
  BY DEF TxInv, TxTypes, HandlerInv, NothingOf, TxTypeOK, Memory
<1> QED
  BY <1>1, TxInvAlways, PTL

\* A sender that was told "accepted" or "duplicate" need not send again: the
\* receipt of this very payload is committed and stays.
THEOREM AnswersAreOnRecord == TxSafety => []AnswerIsOnRecord
<1>1. TxInv => AnswerIsOnRecord
  BY DEF TxInv, HandlerInv, AnswerOf, AnswerIsOnRecord
<1> QED
  BY <1>1, TxInvAlways, PTL

\* What a lookup of an event, a payment or a refund did not find is missing
\* until the handler has inserted it: its gap lock outlives every other
\* handler's attempt, for any number of handlers and callbacks.
THEOREM InsertsAreFree == TxSafety => []InsertsNeverCollide
<1>1. ASSUME TxInv, NEW h \in Handlers, Deciding(h)
      PROVE  LET cb == request[h] IN
             /\ pc[h] # "findReceipt" => receipts[cb.event] = None
             /\ pc[h] \in {"sumCaptured", "insertPayment"} => payments[cb.payment] = None
             /\ pc[h] = "insertRefund" => refunds[cb.refund] = None
  <2>1. pc[h] \in OfCallback /\ HandlerInv(h)
    BY <1>1, DecidingTypes DEF TxInv, HandlerInv
  <2>2. pc[h] # "findReceipt" => receipts[request[h].event] = None
    BY <2>1 DEF HandlerInv, ReceiptOf
  <2>3. pc[h] \in {"sumCaptured", "insertPayment"} => payments[request[h].payment] = None
    BY <2>1 DEF HandlerInv, RequestOf, PaymentOf, OfCapture
  <2>4. pc[h] = "insertRefund" => refunds[request[h].refund] = None
    BY <2>1 DEF HandlerInv, RequestOf, RefundOf, OfRefund
  <2> QED
    BY <2>2, <2>3, <2>4
<1>2. TxInv => InsertsNeverCollide
  BY <1>1 DEF InsertsNeverCollide
<1> QED
  BY <1>2, TxInvAlways, PTL

\* The rows and sums a handler has read are those of the tables until it
\* commits, whatever the others commit meanwhile: the UPDATE of a payment,
\* whose row count nobody looks at, finds the version it asks for.
THEOREM ReadsAreCurrent == TxSafety => []ReadsStayCurrent
<1>1. ASSUME TxInv, NEW h \in Handlers, Deciding(h)
      PROVE  LET cb == request[h]
                 own == memory[h]
             IN  /\ own.payment # None => payments[cb.payment] = own.payment
                 /\ own.invoice # None => invoices[cb.invoice] = own.invoice
                 /\ own.status # None /\ cb.type = "payment.captured" =>
                        own.status = StatusAfterCapture(cb.invoice, cb.amount)
                 /\ own.status # None /\ cb.type = "payment.refunded" =>
                        own.status = StatusAfterRefund(PaymentsSeen(h), cb.invoice)
  <2>1. pc[h] \in OfCallback
    BY <1>1, DecidingTypes DEF TxInv, HandlerInv
  <2>2. HandlerInv(h) /\ (Captures(h) <=> ~Refunding(h))
    BY <1>1, <2>1, AtCallback
  <2>3. memory[h].payment # None => payments[request[h].payment] = memory[h].payment
    BY <2>1, <2>2 DEF HandlerInv, NothingOf, PaymentOf, Nothing
  <2>4. memory[h].invoice # None => invoices[request[h].invoice] = memory[h].invoice
    BY <2>1, <2>2 DEF HandlerInv, InvoiceOf
  <2>5. memory[h].status # None /\ Captures(h) =>
           memory[h].status = StatusAfterCapture(request[h].invoice, request[h].amount)
    BY <2>1, <2>2 DEF HandlerInv, StatusOf
  <2>6. memory[h].status # None /\ Refunding(h) =>
           memory[h].status = StatusAfterRefund(PaymentsSeen(h), request[h].invoice)
    BY <2>1, <2>2 DEF HandlerInv, StatusOf
  <2> QED
    BY <2>3, <2>4, <2>5, <2>6 DEF Captures, Refunding
<1>2. TxInv => ReadsStayCurrent
  BY <1>1 DEF ReadsStayCurrent
<1> QED
  BY <1>2, TxInvAlways, PTL

\* Statement by statement and interleaved in any way, with deadlocks and
\* faults in between, the handlers do to the tables what Billing allows: each
\* COMMIT is one capture, one refund or one change of status of its latest
\* state, and nothing else changes a table.
THEOREM WebhookTxImplementsBilling == TxSafety => Spec
<1>1. TxInit => Init
  BY DEF TxInit
<1>2. TxInv /\ [TxNext]_allVars => [Next]_vars
  <2> SUFFICES ASSUME TxInv, [TxNext]_allVars PROVE [Next]_vars
    OBVIOUS
  <2> USE DEF tables, vars
  <2>1. CASE UNCHANGED allVars
    BY <2>1 DEF allVars
  <2>2. ASSUME NEW o \in Orders, NEW i \in Invoices, Create(o, i) PROVE [Next]_vars
    BY <2>2 DEF Create, Next
  <2>3. ASSUME NEW h \in Handlers, NEW r, NEW statement, Receive(h, r, statement)
        PROVE  [Next]_vars
    BY <2>3 DEF Receive
  <2>4. ASSUME NEW h \in Handlers, HandlerStep(h) PROVE [Next]_vars
    <3>1. CASE Commit(h)
      <4>1. Captures(h) \/ Refunding(h)
        BY <3>1 DEF Commit, WriteCapture, WriteRefund, Captures, Refunding
      <4> QED
        BY <3>1, <4>1, CommitIsCapture, CommitIsRefund DEF Next
    <3>2. CASE CommitChange(h)
      BY <3>2, CommitIsTransition, ChangeTypes DEF Next
    <3>3. CASE FindReceipt(h) \/ LockPayment(h) \/ LockInvoice(h) \/ FindPayment(h)
      BY <3>3 DEF FindReceipt, LockPayment, LockInvoice, FindPayment
    <3>4. CASE SumCaptured(h) \/ InsertPayment(h) \/ FindRefund(h) \/ InsertRefund(h)
      BY <3>4 DEF SumCaptured, InsertPayment, FindRefund, InsertRefund
    <3>5. CASE UpdatePayment(h) \/ SumPayments(h) \/ InsertReceipt(h)
      BY <3>5 DEF UpdatePayment, SumPayments, InsertReceipt
    <3>6. CASE ReadInvoice(h) \/ CasInvoice(h) \/ Answer(h)
      BY <3>6 DEF ReadInvoice, CasInvoice, Answer
    <3> QED
      BY <2>4, <3>1, <3>2, <3>3, <3>4, <3>5, <3>6 DEF HandlerStep
  <2>5. ASSUME NEW h \in Handlers, DeadlockVictim(h) \/ Fault(h) PROVE [Next]_vars
    BY <2>5 DEF DeadlockVictim, Fault
  <2> QED
    BY <2>1, <2>2, <2>3, <2>4, <2>5 DEF TxNext
<1> QED
  BY <1>1, <1>2, TxInvAlways, PTL DEF TxSafety, Spec

\* So what holds of the committed record holds of interleaved handlers: no
\* race of callbacks and operators captures more than an invoice asks for, or
\* leaves it with a status its money contradicts.
THEOREM RacesKeepTheMoney == TxSafety => [](CapturedWithinTotal /\ StatusMatchesMoney)
BY WebhookTxImplementsBilling, CaptureSafety, StatusTruth, PTL

=============================================================================
