----------------------------- MODULE WebhookTx -----------------------------
(***************************************************************************)
(* The payment callbacks of Billing, statement by statement.  Several      *)
(* handlers (two API replicas, each with a pool of connections) run        *)
(* PaymentService.handleWebhook, whose transaction is SERIALIZABLE, and    *)
(* InvoiceService.transition, whose transaction is READ COMMITTED, on the  *)
(* same rows.                                                              *)
(*                                                                         *)
(* Under SERIALIZABLE every SELECT is a locking read of the latest row.  A *)
(* handler therefore takes one lock after another, waits where another     *)
(* transaction is in the way, keeps in memory what it has read, and writes *)
(* at Commit.  Its own pending writes are seen by no one else: whoever     *)
(* would read them waits for the X lock on their row.                      *)
(*                                                                         *)
(* Statements that cannot wait for another callback are not steps of their *)
(* own: the invoice's UPDATE, the outbox and the audit INSERT follow under *)
(* an X lock the handler has, and are part of the write before them.       *)
(***************************************************************************)
EXTENDS Billing, RowLocks

CONSTANTS
    StatusChanges,  \* operator requests: PATCH invoices/:id/status
    MaxFaults       \* bound: crashes, lost connections, timeouts of a wait

VARIABLES
    pc,        \* handler -> the statement it is about to execute
    request,   \* handler -> the callback or status change it works on, or None
    memory,    \* handler -> the entities it has read and the status it computed
    answer,    \* handler -> what it tells the sender, or None
    faults     \* how many faults there have been

Handlers == Transactions

tables == <<invoices, payments, refunds, receipts, idempotency, outbox, audit>>
txVars == <<pc, request, memory, answer, faults, locks>>
allVars == <<tables, txVars>>

\* What UpdateInvoiceStatusDto admits.
StatusChange == [invoice : Invoices, next : ManualStatuses, expectedVersion : 1 .. MaxVersion]

\* HTTP 200 twice, 409, 404, and 500 or no answer at all.
Outcomes == {"accepted", "duplicate", "conflict", "notFound", "error"}

Nothing == [invoice |-> None, payment |-> None, status |-> None]

Statements == {"findReceipt", "lockPayment", "lockInvoice", "findPayment",
               "sumCaptured", "insertPayment", "findRefund", "insertRefund",
               "updatePayment", "sumPayments", "insertReceipt", "commit",
               "readInvoice", "casInvoice", "commitChange"}

Scans == {"sumCaptured", "sumPayments"}

\* Ids are ordered, as the entries of an index are.
ASSUME IdsAssumption == Invoices \cup Payments \cup Refunds \cup Events \subseteq Nat

ASSUME ChangesAssumption == StatusChanges \subseteq StatusChange

ASSUME FaultsAssumption == MaxFaults \in Nat

\* No answer at all is not one of them.
ASSUME OutcomesAssumption == None \notin Outcomes

TxTypeOK ==
    /\ TypeOK
    /\ pc \in [Handlers -> Statements \cup {"idle", "answer"}]
    /\ request \in [Handlers -> Callbacks \cup StatusChanges \cup {None}]
    /\ memory \in [Handlers -> [invoice : InvoiceRow \cup {None},
                                payment : PaymentRow \cup {None},
                                status : Statuses \cup {None}]]
    /\ answer \in [Handlers -> Outcomes \cup {None}]
    /\ faults \in 0 .. MaxFaults
    /\ \A h \in Handlers : pc[h] \in {"idle", "answer"} => locks[h] = {}

-----------------------------------------------------------------------------
(* What a statement locks                                                  *)

ReceiptEntries == {e \in Events : receipts[e] # None} \cup Pending("receipts")
PaymentEntries == {p \in Payments : payments[p] # None} \cup Pending("payments")
RefundEntries  == {r \in Refunds : refunds[r] # None} \cup Pending("refunds")

\* idx_payments_invoice_status, where each invoice's payments are together.
InvoiceEntries == {i \in Invoices : PaymentsOf(payments, i) # {}} \cup Pending("byInvoice")

Adjacent(i, j) ==
    \A k \in InvoiceEntries : ~(i < k /\ k < j) /\ ~(j < k /\ k < i)

\* SUM ... WHERE invoice_id = i under SERIALIZABLE: the payments it adds up
\* and the gaps around them, with those of neighbours that have none.
ScanLocks(i) ==
    {<<"payments", p, "S">> : p \in PaymentsOf(payments, i)}
    \cup {<<"byInvoice", j, "gap">> :
             j \in {i} \cup {k \in Invoices \ InvoiceEntries : Adjacent(i, k)}}

\* Whether a neighbour's next payment goes into a gap that the scan of i
\* locked is for the random ids of the rows to say.
BorderGaps(i) ==
    SUBSET {<<"byInvoice", j, "gap">> : j \in {k \in InvoiceEntries \ {i} : Adjacent(i, k)}}

\* Seeded fault: the row is read but not locked.
NoReadLocks(index, ids, entries, id) == {}

\* setLock("pessimistic_write"): SELECT ... FOR UPDATE.
LocksForUpdate(index, ids, entries, id) == ReadLocks(index, ids, entries, id, "X")

\* Any other findOne of a SERIALIZABLE transaction: SELECT ... FOR SHARE.
LocksToShare(index, ids, entries, id) == ReadLocks(index, ids, entries, id, "S")

Wants(h) ==
    LET cb == request[h] IN
    CASE pc[h] = "findReceipt" ->
            LocksToShare("receipts", Events, ReceiptEntries, cb.event)
      [] pc[h] = "lockPayment" ->
            LocksForUpdate("payments", Payments, PaymentEntries, cb.payment)
      [] pc[h] = "lockInvoice" ->
            LocksForUpdate("invoices", Invoices, Invoices, cb.invoice)
      [] pc[h] = "findPayment" ->
            LocksToShare("payments", Payments, PaymentEntries, cb.payment)
      [] pc[h] \in Scans -> ScanLocks(cb.invoice)
      [] pc[h] = "insertPayment" ->
            {<<"payments", cb.payment, "insert">>, <<"byInvoice", cb.invoice, "insert">>}
      [] pc[h] = "findRefund" ->
            LocksToShare("refunds", Refunds, RefundEntries, cb.refund)
      [] pc[h] = "insertRefund" -> {<<"refunds", cb.refund, "insert">>}
      [] pc[h] = "updatePayment" ->
            {<<"payments", cb.payment, "X">>, <<"byInvoice", cb.invoice, "insert">>}
      [] pc[h] = "insertReceipt" -> {<<"receipts", cb.event, "insert">>}
      [] pc[h] = "casInvoice" -> {<<"invoices", cb.invoice, "X">>}
      [] OTHER -> {}

\* What each statement leaves for a ROLLBACK to undo.
RowsChanged ==
    [h \in Handlers |->
        CASE pc[h] = "updatePayment" -> 1
          [] pc[h] = "sumPayments" -> 2
          [] pc[h] = "insertReceipt" -> IF request[h].type = "payment.captured" THEN 4 ELSE 5
          [] OTHER -> 0]

WaitsFor == [h \in Handlers |-> Holders(h, Wants(h))]

-----------------------------------------------------------------------------
(* The ways a statement ends                                               *)

At(h, statement) == pc[h] = statement /\ WaitsFor[h] = {}

\* The locks are granted; remembering what was read and computed, go on.
Continue(h, statement, read) ==
    /\ \E border \in IF pc[h] \in Scans THEN BorderGaps(request[h].invoice) ELSE {{}} :
           Grant(h, Wants(h) \cup border)
    /\ pc' = [pc EXCEPT ![h] = statement]
    /\ memory' = [memory EXCEPT ![h] = read]
    /\ UNCHANGED <<request, answer, faults>>

\* Seeded fault: the connection goes back to its pool with the transaction open.
KeepLocksOnConflict(h, outcome) ==
    IF outcome = "conflict" THEN UNCHANGED locks ELSE Release(h)

\* COMMIT or ROLLBACK, either of which gives up every lock.
EndTransaction(h, outcome) == Release(h)

\* The transaction is over, by COMMIT or by the ROLLBACK of whatever was thrown.
Reply(h, outcome) ==
    /\ EndTransaction(h, outcome)
    /\ pc' = [pc EXCEPT ![h] = "answer"]
    /\ answer' = [answer EXCEPT ![h] = outcome]
    /\ memory' = [memory EXCEPT ![h] = Nothing]
    /\ UNCHANGED <<request, faults>>


-----------------------------------------------------------------------------
TxInit ==
    /\ Init
    /\ pc = [h \in Handlers |-> "idle"]
    /\ request = [h \in Handlers |-> None]
    /\ memory = [h \in Handlers |-> Nothing]
    /\ answer = [h \in Handlers |-> None]
    /\ locks = [h \in Handlers |-> {}]
    /\ faults = 0

\* A sender may send anything at any time, again and to several replicas.
Receive(h, r, statement) ==
    /\ pc[h] = "idle"
    /\ pc' = [pc EXCEPT ![h] = statement]
    /\ request' = [request EXCEPT ![h] = r]
    /\ UNCHANGED <<tables, memory, answer, faults, locks>>

\* An operator sends the version the invoice is shown with; by the time the
\* request is worked on it may be an old one.
Shown(change) ==
    change.expectedVersion = IF invoices[change.invoice] = None
                             THEN 1 ELSE invoices[change.invoice].version

\* Invoices are created beside the callbacks; CreateTx opens that transaction up.
Create(o, i) == CreateInvoice(o, i) /\ UNCHANGED txVars

-----------------------------------------------------------------------------
(* PaymentService.handleWebhook                                            *)

\* Seeded fault: an event id is recognised whatever its payload.
RecognisedById(cb) == receipts[cb.event] # None

\* The same event with the same payload is on record.
Recognised(cb) == receipts[cb.event] = cb.hash

FindReceipt(h) ==
    LET cb == request[h] IN
    /\ At(h, "findReceipt")
    /\ \/ Recognised(cb) /\ Reply(h, "duplicate")
       \/ receipts[cb.event] \notin {None, cb.hash} /\ Reply(h, "conflict")
       \/ /\ receipts[cb.event] = None /\ cb.type = "payment.captured"
          /\ Continue(h, "lockInvoice", memory[h])
       \/ /\ receipts[cb.event] = None /\ cb.type = "payment.refunded"
          /\ IF cb.refund = None THEN Reply(h, "conflict")
                                 ELSE Continue(h, "lockPayment", memory[h])
    /\ UNCHANGED tables

LockPayment(h) ==
    LET row == payments[request[h].payment] IN
    /\ At(h, "lockPayment")
    /\ IF row = None THEN Reply(h, "notFound")
                     ELSE Continue(h, "lockInvoice", [memory[h] EXCEPT !.payment = row])
    /\ UNCHANGED tables

\* The refund's guards on the two rows it has locked.
MayRefund(cb, payment, invoice) ==
    /\ payment.invoice = cb.invoice
    /\ AcceptsRefund(invoice.status)
    /\ payment.refunded + cb.amount <= payment.amount

LockInvoice(h) ==
    LET cb == request[h]
        row == invoices[cb.invoice]
        read == [memory[h] EXCEPT !.invoice = row]
    IN  /\ At(h, "lockInvoice")
        /\ IF row = None THEN Reply(h, "notFound")
           ELSE IF cb.type = "payment.captured"
                THEN IF AcceptsCapture(row.status)
                     THEN Continue(h, "findPayment", read) ELSE Reply(h, "conflict")
                ELSE IF MayRefund(cb, memory[h].payment, row)
                     THEN Continue(h, "findRefund", read) ELSE Reply(h, "conflict")
        /\ UNCHANGED tables

FindPayment(h) ==
    /\ At(h, "findPayment")
    /\ IF payments[request[h].payment] # None
       THEN Reply(h, "conflict") ELSE Continue(h, "sumCaptured", memory[h])
    /\ UNCHANGED tables

SumCaptured(h) ==
    LET cb == request[h]
        sum == capturedTotal(payments, cb.invoice) + cb.amount
        total == memory[h].invoice.total
        status == IF sum = total THEN "PAID" ELSE "PARTIALLY_PAID"
    IN  /\ At(h, "sumCaptured")
        /\ IF sum > total THEN Reply(h, "conflict")
           ELSE Continue(h, "insertPayment", [memory[h] EXCEPT !.status = status])
        /\ UNCHANGED tables

InsertPayment(h) ==
    /\ At(h, "insertPayment")
    /\ Continue(h, "insertReceipt", memory[h])
    /\ UNCHANGED tables

FindRefund(h) ==
    /\ At(h, "findRefund")
    /\ IF refunds[request[h].refund] # None
       THEN Reply(h, "conflict") ELSE Continue(h, "insertRefund", memory[h])
    /\ UNCHANGED tables

InsertRefund(h) ==
    /\ At(h, "insertRefund")
    /\ Continue(h, "updatePayment", memory[h])
    /\ UNCHANGED tables

\* How many rows the UPDATE finds at the version it was given is not looked at.
UpdatePayment(h) ==
    /\ At(h, "updatePayment")
    /\ Continue(h, "sumPayments", memory[h])
    /\ UNCHANGED tables

\* The payments table as this refund sees it: with its own update.
PaymentsSeen(h) ==
    [payments EXCEPT ![request[h].payment] =
        IF @.version = memory[h].payment.version
        THEN RefundedPayment(memory[h].payment, request[h].amount) ELSE @]

SumPayments(h) ==
    /\ At(h, "sumPayments")
    /\ LET status == StatusAfterRefund(PaymentsSeen(h), request[h].invoice)
       IN  Continue(h, "insertReceipt", [memory[h] EXCEPT !.status = status])
    /\ UNCHANGED tables

InsertReceipt(h) ==
    /\ At(h, "insertReceipt")
    /\ Continue(h, "commit", memory[h])
    /\ UNCHANGED tables

WriteCapture(h) ==
    LET cb == request[h] IN
    /\ cb.type = "payment.captured"
    /\ payments' = [payments EXCEPT ![cb.payment] =
                       [invoice |-> cb.invoice, amount |-> cb.amount, refunded |-> 0,
                        status |-> "CAPTURED", version |-> 1]]
    /\ emit(cb.invoice, "payment.captured.v1", memory[h].status, cb.event)
    /\ record(cb.invoice, "payment.captured", cb.event)
    /\ UNCHANGED refunds

WriteRefund(h) ==
    LET cb == request[h] IN
    /\ cb.type = "payment.refunded"
    /\ refunds' = [refunds EXCEPT ![cb.refund] = [payment |-> cb.payment, amount |-> cb.amount]]
    /\ payments' = PaymentsSeen(h)
    /\ emit(cb.invoice, "payment.refunded.v1", memory[h].status, cb.event)
    /\ record(cb.invoice, "payment.refunded", cb.event)

Commit(h) ==
    /\ At(h, "commit")
    /\ memory[h].invoice.version < MaxVersion
    /\ WriteCapture(h) \/ WriteRefund(h)
    /\ SetInvoice(request[h].invoice, memory[h].status)
    /\ AcceptReceipt(request[h])
    /\ Reply(h, "accepted")
    /\ UNCHANGED idempotency

-----------------------------------------------------------------------------
(* InvoiceService.transition                                               *)

\* findOne under READ COMMITTED: the committed row, and no lock.
ReadInvoice(h) ==
    LET change == request[h]
        row == invoices[change.invoice]
    IN  /\ At(h, "readInvoice")
        /\ IF row = None THEN Reply(h, "notFound")
           ELSE IF assertInvoiceTransition(row.status, change.next)
                   /\ row.version = change.expectedVersion
                THEN Continue(h, "casInvoice", [memory[h] EXCEPT !.invoice = row])
                ELSE Reply(h, "conflict")
        /\ UNCHANGED tables

\* Seeded fault: UPDATE ... WHERE id alone.
IdMatches(change) == TRUE

\* UPDATE ... WHERE id AND version, under the row's X lock.
VersionMatches(change) == invoices[change.invoice].version = change.expectedVersion

CasInvoice(h) ==
    /\ At(h, "casInvoice")
    /\ IF VersionMatches(request[h])
       THEN Continue(h, "commitChange", memory[h]) ELSE Reply(h, "conflict")
    /\ UNCHANGED tables

CommitChange(h) ==
    LET change == request[h] IN
    /\ At(h, "commitChange")
    /\ change.expectedVersion < MaxVersion
    /\ SetInvoice(change.invoice, change.next)
    /\ emit(change.invoice, "invoice.status-changed.v1", change.next, None)
    /\ record(change.invoice, "invoice.status_changed", None)
    /\ Reply(h, "accepted")
    /\ UNCHANGED <<payments, refunds, receipts, idempotency>>

-----------------------------------------------------------------------------
\* The answer reaches the sender.
Answer(h) ==
    /\ pc[h] = "answer"
    /\ pc' = [pc EXCEPT ![h] = "idle"]
    /\ request' = [request EXCEPT ![h] = None]
    /\ answer' = [answer EXCEPT ![h] = None]
    /\ UNCHANGED <<tables, memory, faults, locks>>

\* ER_LOCK_DEADLOCK is not ER_DUP_ENTRY: it is thrown on, and answered with 500.
DeadlockVictim(h) ==
    /\ VictimOf(h, WaitsFor, RowsChanged)
    /\ Reply(h, "error")
    /\ UNCHANGED tables

\* A replica crashes, loses its connection or waits for a lock too long: what
\* is open rolls back, and what has committed is not answered.
Fault(h) ==
    /\ pc[h] # "idle" /\ answer[h] # "error"
    /\ faults < MaxFaults
    /\ faults' = faults + 1
    /\ Release(h)
    /\ pc' = [pc EXCEPT ![h] = "answer"]
    /\ answer' = [answer EXCEPT ![h] = "error"]
    /\ memory' = [memory EXCEPT ![h] = Nothing]
    /\ UNCHANGED <<tables, request>>

HandlerStep(h) ==
    \/ FindReceipt(h)
    \/ LockPayment(h)
    \/ LockInvoice(h)
    \/ FindPayment(h)
    \/ SumCaptured(h)
    \/ InsertPayment(h)
    \/ FindRefund(h)
    \/ InsertRefund(h)
    \/ UpdatePayment(h)
    \/ SumPayments(h)
    \/ InsertReceipt(h)
    \/ Commit(h)
    \/ ReadInvoice(h)
    \/ CasInvoice(h)
    \/ CommitChange(h)
    \/ Answer(h)

TxNext ==
    \/ \E o \in Orders, i \in Invoices : Create(o, i)
    \/ \E h \in Handlers, cb \in Callbacks : Receive(h, cb, "findReceipt")
    \/ \E h \in Handlers, change \in StatusChanges :
           Shown(change) /\ Receive(h, change, "readInvoice")
    \/ \E h \in Handlers : HandlerStep(h)
    \/ \E h \in Handlers : DeadlockVictim(h)
    \/ \E h \in Handlers : Fault(h)

TxSafety == TxInit /\ [][TxNext]_allVars

\* MySQL's deadlock detection is on, a replica goes on with what it has begun,
\* and a lock that comes free goes to a statement that waits for it: an INSERT
\* is not overtaken for ever by new gap locks.  Nothing obliges a sender to
\* send, nor a fault to happen.
Waiting == {"insertPayment", "insertRefund", "updatePayment", "insertReceipt"}

Fairness ==
    \A h \in Handlers :
        /\ SF_allVars(HandlerStep(h))
        /\ \A s \in Waiting : SF_allVars(HandlerStep(h) /\ pc[h] = s)
        /\ WF_allVars(DeadlockVictim(h))

TxSpec == TxSafety /\ Fairness
-----------------------------------------------------------------------------
Deciding(h) == pc[h] \notin {"idle", "answer"} /\ request[h] \in Callbacks

\* A sender told that its callback is accepted, or a duplicate, will not send
\* it again: the receipt is committed, and it is for this very payload.
AnswerIsOnRecord ==
    \A h \in Handlers :
        request[h] \in Callbacks /\ answer[h] \in {"accepted", "duplicate"}
            => receipts[request[h].event] = request[h].hash

\* Whatever waits on whatever, every request is answered in the end.
EveryRequestEnds ==
    \A h \in Handlers : pc[h] # "idle" ~> pc[h] = "idle"

WorkingOn(cb) == \E h \in Handlers : request[h] = cb

Settled(cb) == \E h \in Handlers : request[h] = cb /\ answer[h] \notin {None, "error"}

\* A callback that is sent again after every error is accepted, recognised or
\* rejected in the end: two that keep deadlocking cannot starve each other.
RetriesGetThrough ==
    \A cb \in Callbacks : []<>WorkingOn(cb) => <>Settled(cb)

\* What a lookup did not find is still missing when its INSERT comes, however
\* many handlers looked: neither a payment id, nor a refund id, nor an event
\* id can collide, and the ER_DUP_ENTRY branch of handleWebhook is never taken.
InsertsNeverCollide ==
    \A h \in Handlers : Deciding(h) =>
        LET cb == request[h] IN
        /\ pc[h] # "findReceipt" => receipts[cb.event] = None
        /\ pc[h] \in {"sumCaptured", "insertPayment"} => payments[cb.payment] = None
        /\ pc[h] = "insertRefund" => refunds[cb.refund] = None

\* The entities and sums a handler goes on with are those of the tables until
\* it commits.  So the UPDATE of a payment always finds the version it asks
\* for, though nobody looks at its row count, and the new status of the
\* invoice is right for the payments it has then.
ReadsStayCurrent ==
    \A h \in Handlers : Deciding(h) =>
        LET cb == request[h]
            own == memory[h]
        IN  /\ own.payment # None => payments[cb.payment] = own.payment
            /\ own.invoice # None => invoices[cb.invoice] = own.invoice
            /\ own.status # None /\ cb.type = "payment.captured" =>
                   own.status = StatusAfterCapture(cb.invoice, cb.amount)
            /\ own.status # None /\ cb.type = "payment.refunded" =>
                   own.status = StatusAfterRefund(PaymentsSeen(h), cb.invoice)
\* scripts/smoke-test.sh: callbacks that race for an invoice are serialised by
\* row locks, so that one succeeds and the other returns a business conflict;
\* none of them is answered with a server error.
RaceIsAnswered ==
    faults = 0 => \A h \in Handlers : request[h] \in Callbacks => answer[h] # "error"
=============================================================================
