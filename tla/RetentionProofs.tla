-------------------------- MODULE RetentionProofs --------------------------
(***************************************************************************)
(* Theorems about what the worker forgets: that receipts outlive the       *)
(* window of their events, that keys last for their retention, that an     *)
(* event is forgotten only when settled and notified once.  They hold for  *)
(* any number of workers, rows, batches and failures, and for any days:    *)
(* no proof uses the ranges of the settings.                               *)
(***************************************************************************)
EXTENDS Retention, BillingProofs

-----------------------------------------------------------------------------
(* The receipts                                                            *)

\* Of a callback that took effect: its event is too old to come again, or so
\* old that its receipt may be due, or its receipt is there, and not older than
\* the event but for the skew.
Remembered(cb) ==
    \/ occurred[cb] > Window
    \/ occurred[cb] + Skew > ReceiptDays
    \/ /\ receipts[cb.event] = cb.hash
       /\ occurred[cb] + Skew >= receiptAge[cb.event]

ReceiptInv ==
    /\ receipts \in [Events -> Nat \cup {None}]
    /\ receiptAge \in [Events -> Nat]
    /\ occurred \in [Callbacks -> Int]
    /\ took \subseteq Callbacks
    /\ \A cb \in took : Remembered(cb)

LEMMA ReceiptInvInitially == RetentionInit => ReceiptInv
BY DaysAssumption DEF RetentionInit, Init, ReceiptInv

\* A callback takes effect: it leaves its receipt, and no other is touched.
LEMMA ReceiveRemembers ==
    ASSUME ReceiptInv, NEW cb \in Callbacks, Receive(cb)
    PROVE  ReceiptInv'
<1>1. cb.event \in Events /\ cb.hash \in Nat /\ None \notin Nat
  BY RequestTypes, NoneAssumption
<1>2. /\ receipts[cb.event] = None /\ receipts' = [receipts EXCEPT ![cb.event] = cb.hash]
      /\ receiptAge' = [receiptAge EXCEPT ![cb.event] = 0]
      /\ occurred' = occurred /\ took' = took \cup {cb}
  BY DEF Receive, Capture, Refund, AcceptReceipt
<1>3. /\ receipts' \in [Events -> Nat \cup {None}] /\ receiptAge' \in [Events -> Nat]
      /\ took' \subseteq Callbacks
  BY <1>1, <1>2 DEF ReceiptInv
<1>4. Remembered(cb)'
  BY <1>1, <1>2, DaysAssumption DEF ReceiptInv, Remembered, Receive, InWindow
<1>5. ASSUME NEW d \in took PROVE Remembered(d)'
  <2>1. d.event \in Events /\ d.hash \in Nat
    BY RequestTypes DEF ReceiptInv
  <2>2. CASE d.event = cb.event
    BY <1>1, <1>2, <2>1, <2>2 DEF ReceiptInv, Remembered
  <2>3. CASE d.event # cb.event
    BY <1>1, <1>2, <2>1, <2>3 DEF ReceiptInv, Remembered
  <2> QED
    BY <2>2, <2>3
<1> QED
  BY <1>2, <1>3, <1>4, <1>5 DEF ReceiptInv

\* The event of a receipt that is purged is as old, but for the skew.
LEMMA PurgeReceiptsRemembers ==
    ASSUME ReceiptInv, NEW w \in Workers, PurgeReceipts(w)
    PROVE  ReceiptInv'
<1>1. PICK D : /\ D \subseteq {e \in Events : ExpiredReceipt(e)}
               /\ receipts' = [e \in Events |-> IF e \in D THEN None ELSE receipts[e]]
               /\ receiptAge' = [e \in Events |-> IF e \in D THEN 0 ELSE receiptAge[e]]
  BY DEF PurgeReceipts, Batch
<1>2. occurred' = occurred /\ took' = took
  BY DEF PurgeReceipts, history
<1>3. receipts' \in [Events -> Nat \cup {None}] /\ receiptAge' \in [Events -> Nat]
  BY <1>1 DEF ReceiptInv
<1>4. ASSUME NEW cb \in took PROVE Remembered(cb)'
  <2>1. cb.event \in Events /\ occurred[cb] \in Int
    BY RequestTypes DEF ReceiptInv
  <2>2. CASE cb.event \in D
    <3>1. receiptAge[cb.event] > ReceiptDays /\ receiptAge[cb.event] \in Nat
      BY <1>1, <2>1, <2>2 DEF ExpiredReceipt, ReceiptInv
    <3>2. Remembered(cb)
      BY DEF ReceiptInv
    <3>3. occurred[cb] > Window \/ occurred[cb] + Skew > ReceiptDays
      BY <2>1, <3>1, <3>2, DaysAssumption DEF Remembered
    <3> QED
      BY <1>2, <3>3 DEF Remembered
  <2>3. CASE cb.event \notin D
    BY <1>1, <1>2, <2>1, <2>3 DEF ReceiptInv, Remembered
  <2> QED
    BY <2>2, <2>3
<1> QED
  BY <1>2, <1>3, <1>4 DEF ReceiptInv

\* Time makes receipts and events older alike.
LEMMA TickRemembers ==
    ASSUME ReceiptInv, Tick
    PROVE  ReceiptInv'
<1>1. /\ receiptAge' = [e \in Events |->
             IF receipts[e] = None THEN 0 ELSE Older(receiptAge[e], ReceiptDays)]
      /\ occurred' = [cb \in Callbacks |-> Older(occurred[cb], Window)]
      /\ took' = took /\ receipts' = receipts
  BY DEF Tick, vars
<1>2. receiptAge' \in [Events -> Nat] /\ occurred' \in [Callbacks -> Int]
  BY <1>1, DaysAssumption DEF ReceiptInv, Older
<1>3. ASSUME NEW cb \in took PROVE Remembered(cb)'
  <2>1. /\ cb \in Callbacks /\ cb.event \in Events /\ cb.hash \in Nat
        /\ occurred[cb] \in Int /\ receiptAge[cb.event] \in Nat
        /\ occurred'[cb] = Older(occurred[cb], Window)
    BY <1>1, RequestTypes DEF ReceiptInv
  <2>2. CASE occurred[cb] > Window \/ occurred[cb] + Skew > ReceiptDays
    BY <2>1, <2>2, DaysAssumption DEF Remembered, Older
  <2>3. CASE ~(occurred[cb] > Window \/ occurred[cb] + Skew > ReceiptDays)
    <3>1. /\ receipts[cb.event] = cb.hash /\ occurred[cb] + Skew >= receiptAge[cb.event]
          /\ cb.hash # None
      BY <2>1, <2>3, NoneAssumption DEF ReceiptInv, Remembered
    <3>2. receiptAge'[cb.event] <= receiptAge[cb.event] + 1 /\ receiptAge'[cb.event] \in Nat
      BY <1>1, <2>1, <3>1 DEF Older
    <3>3. occurred'[cb] = occurred[cb] + 1
      BY <2>1, <2>3, DaysAssumption DEF Older
    <3>4. occurred'[cb] + Skew >= receiptAge'[cb.event]
      BY <2>1, <3>1, <3>2, <3>3, DaysAssumption
    <3> QED
      BY <1>1, <3>1, <3>4 DEF Remembered
  <2> QED
    BY <2>2, <2>3
<1> QED
  BY <1>1, <1>2, <1>3 DEF ReceiptInv

\* Every other step leaves the receipts and the clocks alone.
LEMMA ReceiptInvPreserved ==
    ASSUME ReceiptInv, [RetentionNext]_retentionVars
    PROVE  ReceiptInv'
<1>1. ASSUME UNCHANGED <<receipts, receiptAge, occurred, took>> PROVE ReceiptInv'
  BY <1>1 DEF ReceiptInv, Remembered
<1>2. CASE UNCHANGED retentionVars
  BY <1>1, <1>2 DEF retentionVars, vars, ages, history
<1>3. ASSUME NEW o \in Orders, NEW i \in Invoices, Create(o, i) PROVE ReceiptInv'
  BY <1>1, <1>3 DEF Create, CreateInvoice
<1>4. ASSUME NEW i \in Invoices, NEW next, NEW v, Change(i, next, v) PROVE ReceiptInv'
  BY <1>1, <1>4 DEF Change, Transition, ages, history
<1>5. ASSUME NEW n \in Notices, NEW status,
             \/ Add(n) \/ Reconcile(n) \/ Deduplicate(n) \/ Mark(n, status) \/ Attempt(n, status)
      PROVE  ReceiptInv'
  BY <1>1, <1>5 DEF Add, Reconcile, Deduplicate, Mark, Attempt, vars, ages, history
<1>6. CASE RedisLoss
  BY <1>1, <1>6 DEF RedisLoss, vars, ages, history
<1>7. ASSUME NEW w \in Workers, StartRun(w) \/ RunFails(w) \/ PurgeStep(w) PROVE ReceiptInv'
  <2>1. CASE StartRun(w) \/ RunFails(w)
    BY <1>1, <2>1 DEF StartRun, RunFails, vars, ages, history
  <2>2. CASE PurgeOutbox(w) \/ PurgeAttempts(w)
    BY <1>1, <2>2 DEF PurgeOutbox, PurgeAttempts, vars, ages, history
  <2>3. CASE PurgeKeys(w)
    BY <1>1, <2>3 DEF PurgeKeys, history
  <2> QED
    BY <1>7, <2>1, <2>2, <2>3, PurgeReceiptsRemembers DEF PurgeStep
<1> QED
  BY <1>2, <1>3, <1>4, <1>5, <1>6, <1>7, ReceiveRemembers, TickRemembers DEF RetentionNext

LEMMA ReceiptInvSuffices == ReceiptInv => ReceiptOutlivesWindow
BY DaysAssumption DEF ReceiptInv, Remembered, ReceiptOutlivesWindow, InWindow

\* A callback that took effect is recognised for as long as it could be let in
\* (handleWebhook's window, the purge of receipts), but for the skew at the end
\* of its window if the receipts are kept for no longer than that.
THEOREM ReceiptsOutlive == RetentionSafety => []ReceiptOutlivesWindow
<1>1. ReceiptInv /\ [RetentionNext]_retentionVars => ReceiptInv'
  BY ReceiptInvPreserved
<1> QED
  BY <1>1, ReceiptInvInitially, ReceiptInvSuffices, PTL DEF RetentionSafety

\* With receipts kept for the window and the skew, as by default, it always is.
COROLLARY NoGapByDefault ==
    ASSUME ReceiptDays >= Window + Skew
    PROVE  RetentionSafety => [](\A cb \in took : InWindow(cb) => receipts[cb.event] = cb.hash)
<1>1. ReceiptInv => \A cb \in took : InWindow(cb) => receipts[cb.event] = cb.hash
  BY DaysAssumption DEF ReceiptInv, Remembered, InWindow
<1>2. ReceiptInv /\ [RetentionNext]_retentionVars => ReceiptInv'
  BY ReceiptInvPreserved
<1> QED
  BY <1>1, <1>2, ReceiptInvInitially, PTL DEF RetentionSafety

-----------------------------------------------------------------------------
(* The keys                                                                *)

\* Of an invoice that was made: it is older than keys are kept, or its key is
\* there, and not older than the invoice.
Kept(j) ==
    made[j] # None =>
        \/ made[j].age > KeyDays
        \/ idempotency[made[j].key] # None /\ made[j].age >= keyAge[made[j].key]

KeyInv ==
    /\ idempotency \in [Keys -> KeyRow \cup {None}]
    /\ keyAge \in [Keys -> Nat]
    /\ made \in [Invoices -> [key : Keys, age : Nat] \cup {None}]
    /\ \A j \in Invoices : Kept(j)

LEMMA KeyInvInitially == RetentionInit => KeyInv
BY DaysAssumption DEF RetentionInit, Init, KeyInv, Kept

LEMMA CreateKeeps ==
    ASSUME KeyInv, NEW o \in Orders, NEW i \in Invoices, Create(o, i)
    PROVE  KeyInv'
<1>1. o.key \in Keys /\ [hash |-> o.hash, invoice |-> i] \in KeyRow
  BY RequestTypes DEF KeyRow
<1>2. PICK row \in KeyRow : row = [hash |-> o.hash, invoice |-> i]
  BY <1>1
<1>3. PICK new \in [key : Keys, age : Nat] : new = [key |-> o.key, age |-> 0]
  BY <1>1
<1>4. /\ idempotency[o.key] = None
      /\ idempotency' = [idempotency EXCEPT ![o.key] = row]
      /\ keyAge' = [keyAge EXCEPT ![o.key] = 0]
      /\ made' = [made EXCEPT ![i] = new]
  BY <1>2, <1>3 DEF Create, CreateInvoice, KeyIsNew
<1>5. /\ idempotency' \in [Keys -> KeyRow \cup {None}] /\ keyAge' \in [Keys -> Nat]
      /\ made' \in [Invoices -> [key : Keys, age : Nat] \cup {None}]
  BY <1>1, <1>4 DEF KeyInv
<1>6. row # None
  BY NoneAssumption
<1>7. ASSUME NEW j \in Invoices PROVE Kept(j)'
  <2>1. CASE j = i
    BY <1>1, <1>3, <1>4, <1>6, <2>1 DEF KeyInv, Kept
  <2>2. CASE j # i
    <3>1. made'[j] = made[j] /\ Kept(j)
      BY <1>4, <2>2 DEF KeyInv
    <3> QED
      BY <1>1, <1>4, <1>6, <3>1 DEF KeyInv, Kept
  <2> QED
    BY <2>1, <2>2
<1> QED
  BY <1>5, <1>7 DEF KeyInv

LEMMA PurgeKeysKeeps ==
    ASSUME KeyInv, NEW w \in Workers, PurgeKeys(w)
    PROVE  KeyInv'
<1>1. PICK D : /\ D \subseteq {k \in Keys : ExpiredKey(k)}
               /\ idempotency' = [k \in Keys |-> IF k \in D THEN None ELSE idempotency[k]]
               /\ keyAge' = [k \in Keys |-> IF k \in D THEN 0 ELSE keyAge[k]]
  BY DEF PurgeKeys, Batch
<1>2. made' = made
  BY DEF PurgeKeys, history
<1>3. idempotency' \in [Keys -> KeyRow \cup {None}] /\ keyAge' \in [Keys -> Nat]
  BY <1>1 DEF KeyInv
<1>4. ASSUME NEW j \in Invoices, made[j] # None PROVE Kept(j)'
  <2>1. made[j].key \in Keys /\ made[j].age \in Nat /\ Kept(j)
    BY <1>4 DEF KeyInv
  <2>2. CASE made[j].key \in D
    <3>1. keyAge[made[j].key] > KeyDays /\ keyAge[made[j].key] \in Nat
      BY <1>1, <2>1, <2>2 DEF ExpiredKey, KeyInv
    <3>2. made[j].age > KeyDays
      BY <1>4, <2>1, <3>1, DaysAssumption DEF Kept
    <3> QED
      BY <1>2, <3>2 DEF Kept
  <2>3. CASE made[j].key \notin D
    BY <1>1, <1>2, <2>1, <2>3 DEF Kept
  <2> QED
    BY <2>2, <2>3
<1> QED
  BY <1>2, <1>3, <1>4 DEF KeyInv, Kept

LEMMA TickKeeps ==
    ASSUME KeyInv, Tick
    PROVE  KeyInv'
<1>1. /\ keyAge' = [k \in Keys |-> IF idempotency[k] = None THEN 0 ELSE Older(keyAge[k], KeyDays)]
      /\ made' = [i \in Invoices |->
                     IF made[i] = None THEN None
                     ELSE [key |-> made[i].key, age |-> Older(made[i].age, KeyDays)]]
      /\ idempotency' = idempotency
  BY DEF Tick, vars
<1>2. keyAge' \in [Keys -> Nat]
  BY <1>1, DaysAssumption DEF KeyInv, Older
<1>3. ASSUME NEW j \in Invoices, made[j] # None
      PROVE  /\ made'[j] \in [key : Keys, age : Nat]
             /\ made'[j].key = made[j].key /\ made'[j].age = Older(made[j].age, KeyDays)
  BY <1>1, <1>3, DaysAssumption DEF KeyInv, Older
<1>4. made' \in [Invoices -> [key : Keys, age : Nat] \cup {None}]
  BY <1>1, <1>3
<1>5. ASSUME NEW j \in Invoices, made[j] # None PROVE Kept(j)'
  <2>1. made[j].key \in Keys /\ made[j].age \in Nat /\ keyAge[made[j].key] \in Nat /\ Kept(j)
    BY <1>5 DEF KeyInv
  <2> QED
    BY <1>1, <1>3, <1>5, <2>1, DaysAssumption DEF Kept, Older
<1>6. ASSUME NEW j \in Invoices, made[j] = None PROVE Kept(j)'
  BY <1>1, <1>6 DEF Kept
<1> QED
  BY <1>1, <1>2, <1>4, <1>5, <1>6 DEF KeyInv

\* Every other step leaves the keys and the history of invoices alone.
LEMMA KeyInvPreserved ==
    ASSUME KeyInv, [RetentionNext]_retentionVars
    PROVE  KeyInv' /\ ((\E o \in Orders, i \in Invoices : Create(o, i)) \/ Tick \/ made' = made)
<1>1. ASSUME UNCHANGED <<idempotency, keyAge, made>> PROVE KeyInv'
  BY <1>1 DEF KeyInv, Kept
<1>2. CASE UNCHANGED retentionVars
  BY <1>1, <1>2 DEF retentionVars, vars, ages, history
<1>3. ASSUME NEW i \in Invoices, NEW next, NEW v, Change(i, next, v) PROVE KeyInv' /\ made' = made
  BY <1>1, <1>3 DEF Change, Transition, ages, history
<1>4. ASSUME NEW cb \in Callbacks, Receive(cb) PROVE KeyInv' /\ made' = made
  BY <1>1, <1>4 DEF Receive, Capture, Refund
<1>5. ASSUME NEW n \in Notices, NEW status,
             \/ Add(n) \/ Reconcile(n) \/ Deduplicate(n) \/ Mark(n, status) \/ Attempt(n, status)
      PROVE  KeyInv' /\ made' = made
  BY <1>1, <1>5 DEF Add, Reconcile, Deduplicate, Mark, Attempt, vars, ages, history
<1>6. CASE RedisLoss
  BY <1>1, <1>6 DEF RedisLoss, vars, ages, history
<1>7. ASSUME NEW w \in Workers, StartRun(w) \/ RunFails(w) \/ PurgeStep(w)
      PROVE  KeyInv' /\ made' = made
  <2>1. CASE StartRun(w) \/ RunFails(w)
    BY <1>1, <2>1 DEF StartRun, RunFails, vars, ages, history
  <2>2. CASE PurgeOutbox(w) \/ PurgeAttempts(w)
    BY <1>1, <2>2 DEF PurgeOutbox, PurgeAttempts, vars, ages, history
  <2>3. CASE PurgeReceipts(w)
    BY <1>1, <2>3 DEF PurgeReceipts, history
  <2>4. CASE PurgeKeys(w)
    BY <2>4, PurgeKeysKeeps DEF PurgeKeys, history
  <2> QED
    BY <1>7, <2>1, <2>2, <2>3, <2>4 DEF PurgeStep
<1> QED
  BY <1>2, <1>3, <1>4, <1>5, <1>6, <1>7, CreateKeeps, TickKeeps DEF RetentionNext

\* A second invoice under one key comes when the first is older than its key.
KeyLastsStep ==
    \A i, j \in Invoices :
        made[i] = None /\ made'[i] # None /\ made[j] # None
            => made[j].key # made'[i].key \/ made[j].age > KeyDays

LEMMA KeyLastsAtEachStep ==
    ASSUME KeyInv, [RetentionNext]_retentionVars
    PROVE  KeyLastsStep
<1>1. ASSUME NEW o \in Orders, NEW n \in Invoices, Create(o, n) PROVE KeyLastsStep
  <2>1. idempotency[o.key] = None /\ made' = [made EXCEPT ![n] = [key |-> o.key, age |-> 0]]
    BY <1>1 DEF Create, CreateInvoice, KeyIsNew
  <2>2. ASSUME NEW i \in Invoices, NEW j \in Invoices,
               made[i] = None, made'[i] # None, made[j] # None
        PROVE  made[j].key # made'[i].key \/ made[j].age > KeyDays
    <3>1. i = n /\ made'[i].key = o.key
      BY <2>1, <2>2 DEF KeyInv
    <3> QED
      BY <2>1, <2>2, <3>1 DEF KeyInv, Kept
  <2> QED
    BY <2>2 DEF KeyLastsStep
<1>2. CASE Tick
  BY <1>2 DEF Tick, KeyLastsStep
<1>3. CASE made' = made
  BY <1>3 DEF KeyLastsStep
<1> QED
  BY <1>1, <1>2, <1>3, KeyInvPreserved

\* A key that is sent again makes another invoice only beyond its retention.
THEOREM KeysLast == RetentionSafety => KeyLasts
<1>1. KeyInv /\ [RetentionNext]_retentionVars => KeyInv' /\ KeyLastsStep
  BY KeyInvPreserved, KeyLastsAtEachStep
<1>2. KeyLastsStep => [KeyLastsStep]_retentionVars
  OBVIOUS
<1> QED
  BY <1>1, KeyInvInitially, PTL DEF RetentionSafety, KeyLasts, KeyLastsStep

-----------------------------------------------------------------------------
(* The notifications                                                       *)

\* Of a followed event.  A job is for a row that is there, and the row of a
\* change that is committed; a success is on record for as long as the row is;
\* what may be purged has been settled and has no job left.
Told(n) ==
    /\ jobs[n] # None => notices[n] # None
    /\ notices[n] # None \/ notified[n] # 0 => Emitted(n)
    /\ Emitted(n) /\ notices[n] = None => n \in settled
    /\ Settled(n) => n \in settled
    /\ Is(n, "PUBLISHED") /\ notices[n].age > OutboxDays /\ Settled(n) => jobs[n] = None
    /\ notified[n] # 0 => Recorded(n, {"SUCCEEDED"}) \/ notices[n] = None
    /\ notified[n] <= 1

PipelineTypes ==
    /\ notices \in [Notices -> NoticeRow \cup {None}]
    /\ attempts \in [Notices -> [1 .. MaxAttempts -> AttemptRow \cup {None}]]
    /\ jobs \in [Notices -> 0 .. MaxAttempts - 1 \cup {None}]
    /\ settled \subseteq Notices
    /\ notified \in [Notices -> Nat]

PipelineInv == TypeOK /\ PipelineTypes /\ \A n \in Notices : Told(n)

LEMMA PipelineInvInitially == RetentionInit => PipelineInv
<1> SUFFICES ASSUME RetentionInit PROVE PipelineInv
  OBVIOUS
<1>1. Init /\ TypeOK
  BY TypeOKInit DEF RetentionInit
<1>2. PipelineTypes
  BY DEF RetentionInit, PipelineTypes
<1>3. ASSUME NEW n \in Notices PROVE Told(n)
  <2>1. n[1] \in Invoices /\ n[2] \in Nat \ {0}
    BY DaysAssumption
  <2>2. ~Emitted(n)
    BY <1>1, <2>1 DEF Init, Emitted
  <2>3. \A S : ~Recorded(n, S)
    BY DEF RetentionInit, Recorded
  <2>4. jobs[n] = None /\ notices[n] = None /\ notified[n] = 0
    BY DEF RetentionInit
  <2> QED
    BY <2>2, <2>3, <2>4 DEF Told, Settled
<1> QED
  BY <1>1, <1>2, <1>3 DEF PipelineInv

\* An event that the step is not about.
LEMMA ToldStays ==
    ASSUME NEW n \in Notices, Told(n), Emitted(n)' <=> Emitted(n), settled \subseteq settled',
           notices'[n] = notices[n], attempts'[n] = attempts[n], jobs'[n] = jobs[n],
           notified'[n] = notified[n]
    PROVE  Told(n)'
<1>1. \A S : Recorded(n, S)' = Recorded(n, S)
  BY DEF Recorded
<1> QED
  BY <1>1 DEF Told, Settled, Is

\* No change takes events out of the outbox of an invoice.
LEMMA OutboxGrows ==
    ASSUME TypeOK, [Next]_vars, NEW i \in Invoices
    PROVE  Len(outbox'[i]) \in Nat /\ Len(outbox[i]) \in Nat /\ Len(outbox[i]) <= Len(outbox'[i])
<1>1. outbox \in [Invoices -> Seq(OutboxRow)]
  BY DEF TypeOK
<1>2. ASSUME NEW j, NEW type, NEW status, NEW event, emit(j, type, status, event)
      PROVE  \E e : outbox'[i] \in {outbox[i], Append(outbox[i], e)}
  BY <1>1, <1>2 DEF emit
<1>3. \E e : outbox'[i] \in {outbox[i], Append(outbox[i], e)}
  BY <1>2 DEF Next, CreateInvoice, Transition, Capture, Refund, vars
<1>4. outbox[i] \in Seq(OutboxRow)
  BY <1>1
<1> QED
  BY <1>3, <1>4

\* A change is committed, and a followed event may come into the outbox with it.
LEMMA EmissionIsTold ==
    ASSUME PipelineInv, [Next]_vars, EmitNotices, UNCHANGED delivery
    PROVE  PipelineInv'
<1>1. TypeOK'
  BY TypeOKStep DEF PipelineInv
<1>2. Row("PENDING") \in NoticeRow
  BY DaysAssumption DEF Row, NoticeRow
<1>3. PipelineTypes'
  BY <1>2 DEF PipelineInv, PipelineTypes, EmitNotices, delivery
<1>4. ASSUME NEW n \in Notices PROVE Told(n)'
  <2>1. Emitted(n) => Emitted(n)'
    <3>1. n[1] \in Invoices /\ n[2] \in Nat
      BY DaysAssumption
    <3> QED
      BY <3>1, OutboxGrows DEF PipelineInv, Emitted
  <2>2. Told(n)
    BY DEF PipelineInv
  <2>3. CASE Emitted(n)' <=> Emitted(n)
    <3>1. notices'[n] = notices[n]
      BY <2>3 DEF EmitNotices
    <3> QED
      BY <2>2, <2>3, <3>1, ToldStays DEF delivery
  <2>4. CASE ~Emitted(n) /\ Emitted(n)'
    <3>1. notices[n] = None /\ jobs[n] = None /\ notified[n] = 0
      BY <2>2, <2>4 DEF Told, PipelineInv, PipelineTypes
    <3>2. notices'[n] = Row("PENDING") /\ notices'[n] # None
      BY <1>2, <2>4, NoRowAssumption DEF EmitNotices
    <3>3. Settled(n)' = Settled(n) /\ UNCHANGED <<jobs, settled, notified>>
      BY DEF Settled, Recorded, delivery
    <3>4. ~Is(n, "PUBLISHED")'
      BY <3>2 DEF Is, Row
    <3> QED
      BY <2>2, <2>4, <3>1, <3>2, <3>3, <3>4 DEF Told
  <2> QED
    BY <2>1, <2>3, <2>4
<1> QED
  BY <1>1, <1>3, <1>4 DEF PipelineInv

\* A step of the pipeline is about one event.
LEMMA OnlyOneTold ==
    ASSUME PipelineInv, NEW m \in Notices, UNCHANGED vars, PipelineTypes', Told(m)',
           settled \subseteq settled',
           \A n \in Notices \ {m} : /\ notices'[n] = notices[n] /\ attempts'[n] = attempts[n]
                                    /\ jobs'[n] = jobs[n] /\ notified'[n] = notified[n]
    PROVE  PipelineInv'
<1>1. TypeOK'
  BY TypeOKStep DEF PipelineInv
<1>2. ASSUME NEW n \in Notices, n # m PROVE Told(n)'
  <2>1. Told(n) /\ (Emitted(n)' <=> Emitted(n))
    BY DEF PipelineInv, Emitted, vars
  <2> QED
    BY <1>2, <2>1, ToldStays
<1> QED
  BY <1>1, <1>2 DEF PipelineInv

\* What a step that leaves an event's row, its records and its notifications
\* alone leaves of what is said of it.
LEMMA SameRecords ==
    ASSUME NEW n \in Notices, UNCHANGED vars, attempts'[n] = attempts[n]
    PROVE  /\ Emitted(n)' <=> Emitted(n)
           /\ Settled(n)' <=> Settled(n)
           /\ Recorded(n, {"SUCCEEDED"})' <=> Recorded(n, {"SUCCEEDED"})
BY DEF Emitted, Settled, Recorded, vars

LEMMA AddTold ==
    ASSUME PipelineInv, NEW m \in Notices, Add(m)
    PROVE  PipelineInv'
<1>1. /\ Is(m, "PENDING") /\ notices' = [notices EXCEPT ![m] = Row("PROCESSING")]
      /\ jobs' = [jobs EXCEPT ![m] = IF jobs[m] = None THEN 0 ELSE jobs[m]]
      /\ UNCHANGED <<vars, attempts, settled, notified>>
  BY DEF Add, AddJob
<1>2. Row("PROCESSING") \in NoticeRow /\ 0 \in 0 .. MaxAttempts - 1
  BY DaysAssumption DEF Row, NoticeRow
<1>3. PipelineTypes'
  BY <1>1, <1>2 DEF PipelineInv, PipelineTypes
<1>4. Told(m)'
  <2>1. notices'[m] = Row("PROCESSING") /\ notices'[m] # None /\ notices[m] # None
    BY <1>1, <1>2, NoRowAssumption DEF PipelineInv, PipelineTypes, Is
  <2>2. ~Is(m, "PUBLISHED")'
    BY <2>1 DEF Is, Row
  <2>3. Told(m)
    BY DEF PipelineInv
  <2> QED
    BY <1>1, <2>1, <2>2, <2>3, SameRecords DEF Told
<1> QED
  BY <1>1, <1>3, <1>4, OnlyOneTold DEF PipelineInv, PipelineTypes

LEMMA MarkTold ==
    ASSUME PipelineInv, NEW m \in Notices, NEW status \in {"PENDING", "PUBLISHED"},
           Mark(m, status)
    PROVE  PipelineInv'
<1>1. /\ Is(m, "PROCESSING") /\ notices' = [notices EXCEPT ![m] = Row(status)]
      /\ UNCHANGED <<vars, attempts, jobs, settled, notified>>
  BY DEF Mark, delivery
<1>2. Row(status) \in NoticeRow
  BY DaysAssumption DEF Row, NoticeRow
<1>3. PipelineTypes'
  BY <1>1, <1>2 DEF PipelineInv, PipelineTypes
<1>4. Told(m)'
  <2>1. notices'[m] = Row(status) /\ notices'[m] # None /\ notices[m] # None
    BY <1>1, <1>2, NoRowAssumption DEF PipelineInv, PipelineTypes, Is
  <2>2. ~(notices'[m].age > OutboxDays)
    BY <2>1, DaysAssumption DEF Row
  <2>3. Told(m)
    BY DEF PipelineInv
  <2> QED
    BY <1>1, <2>1, <2>2, <2>3, SameRecords DEF Told
<1> QED
  BY <1>1, <1>3, <1>4, OnlyOneTold DEF PipelineInv, PipelineTypes

LEMMA ReconcileTold ==
    ASSUME PipelineInv, NEW m \in Notices, Reconcile(m)
    PROVE  PipelineInv'
<1>1. /\ notices[m] # None /\ ~Settled(m)
      /\ jobs' = [jobs EXCEPT ![m] = IF jobs[m] = None THEN 0 ELSE jobs[m]]
      /\ UNCHANGED <<vars, notices, attempts, settled, notified>>
  BY DEF Reconcile, AddJob, Is
<1>2. PipelineTypes'
  BY <1>1, DaysAssumption DEF PipelineInv, PipelineTypes
<1>3. Told(m)'
  <2>1. Told(m)
    BY DEF PipelineInv
  <2> QED
    BY <1>1, <2>1, SameRecords DEF Told, Is
<1> QED
  BY <1>1, <1>2, <1>3, OnlyOneTold DEF PipelineInv, PipelineTypes

LEMMA DeduplicateTold ==
    ASSUME PipelineInv, NEW m \in Notices, Deduplicate(m)
    PROVE  PipelineInv'
<1>1. /\ jobs' = [jobs EXCEPT ![m] = None]
      /\ UNCHANGED <<vars, notices, attempts, settled, notified>>
  BY DEF Deduplicate
<1>2. PipelineTypes'
  BY <1>1 DEF PipelineInv, PipelineTypes
<1>3. Told(m)'
  <2>1. Told(m) /\ jobs'[m] = None
    BY <1>1 DEF PipelineInv, PipelineTypes
  <2> QED
    BY <1>1, <2>1, SameRecords DEF Told, Is
<1> QED
  BY <1>1, <1>2, <1>3, OnlyOneTold DEF PipelineInv, PipelineTypes

\* It is sent only when no success is on record: then none was sent before.
LEMMA AttemptTold ==
    ASSUME PipelineInv, NEW m \in Notices,
           NEW status \in Terminal \cup {"RETRYING"}, Attempt(m, status)
    PROVE  PipelineInv'
<1> DEFINE a == jobs[m] + 1
           age == IF attempts[m][a] = None THEN 0 ELSE attempts[m][a].age
           row == [status |-> status, age |-> age]
<1>1. /\ jobs[m] # None /\ ~Recorded(m, {"SUCCEEDED"})
      /\ status # (IF a >= MaxAttempts THEN "RETRYING" ELSE "DEAD_LETTERED")
      /\ attempts' = [attempts EXCEPT ![m] = [attempts[m] EXCEPT ![a] = row]]
      /\ jobs' = [jobs EXCEPT ![m] = IF status = "RETRYING" THEN a ELSE None]
      /\ settled' = IF status \in Terminal THEN settled \cup {m} ELSE settled
      /\ notified' = IF status = "SUCCEEDED" THEN [notified EXCEPT ![m] = notified[m] + 1]
                                             ELSE notified
      /\ UNCHANGED <<vars, notices>>
  BY DEF Attempt
<1>2. a \in 1 .. MaxAttempts /\ (status = "RETRYING" => a \in 0 .. MaxAttempts - 1)
  BY <1>1, DaysAssumption DEF PipelineInv, PipelineTypes
<1>3. attempts[m] \in [1 .. MaxAttempts -> AttemptRow \cup {None}]
  BY DEF PipelineInv, PipelineTypes
<1>4. row \in AttemptRow
  <2>1. age \in 0 .. OutboxDays + 1
    BY <1>2, <1>3, DaysAssumption DEF AttemptRow
  <2> QED
    BY <2>1 DEF AttemptRow
<1> HIDE DEF a, row
<1>5. PipelineTypes'
  <2>1. [attempts[m] EXCEPT ![a] = row] \in [1 .. MaxAttempts -> AttemptRow \cup {None}]
    BY <1>2, <1>3, <1>4
  <2> QED
    BY <1>1, <1>2, <2>1 DEF PipelineInv, PipelineTypes
<1>6. attempts'[m] = [attempts[m] EXCEPT ![a] = row]
  BY <1>1 DEF PipelineInv, PipelineTypes
<1>7. attempts'[m][a] = row /\ row # None /\ row.status = status
  BY <1>2, <1>3, <1>4, <1>6, NoRowAssumption DEF row
<1>8. \A b \in 1 .. MaxAttempts : b # a => attempts'[m][b] = attempts[m][b]
  BY <1>3, <1>6
<1>9. Told(m) /\ notices[m] # None /\ notified[m] = 0
  BY <1>1 DEF PipelineInv, PipelineTypes, Told
<1>10. (Emitted(m)' <=> Emitted(m)) /\ Emitted(m)
  BY <1>1, <1>9 DEF Told, Emitted, vars
<1>11. Told(m)'
  <2>1. CASE status = "RETRYING"
    <3>1. Settled(m)' => Settled(m)
      BY <1>7, <1>8, <2>1 DEF Settled, Recorded, Terminal
    <3>2. settled' = settled /\ notified' = notified /\ notices' = notices
      BY <1>1, <2>1 DEF Terminal
    <3> QED
      BY <1>1, <1>9, <1>10, <3>1, <3>2 DEF Told, Is
  <2>2. CASE status \in Terminal
    <3>1. /\ m \in settled' /\ jobs'[m] = None /\ notices'[m] # None
      BY <1>1, <1>9, <2>2 DEF Terminal, PipelineInv, PipelineTypes
    <3>2. notified'[m] # 0 => Recorded(m, {"SUCCEEDED"})' /\ notified'[m] = 1
      <4>1. CASE status = "SUCCEEDED"
        BY <1>1, <1>2, <1>7, <1>9, <4>1 DEF Recorded, PipelineInv, PipelineTypes
      <4>2. CASE status # "SUCCEEDED"
        BY <1>1, <1>9, <4>2
      <4> QED
        BY <4>1, <4>2
    <3>3. notified'[m] \in Nat
      BY <1>5 DEF PipelineTypes
    <3> QED
      BY <1>10, <3>1, <3>2, <3>3 DEF Told
  <2> QED
    BY <2>1, <2>2
<1>12. settled \subseteq settled'
  BY <1>1
<1>13. \A n \in Notices \ {m} : /\ notices'[n] = notices[n] /\ attempts'[n] = attempts[n]
                                /\ jobs'[n] = jobs[n] /\ notified'[n] = notified[n]
  BY <1>1 DEF PipelineInv, PipelineTypes
<1> QED
  BY <1>1, <1>5, <1>11, <1>12, <1>13, OnlyOneTold

\* Steps that lose jobs, or have nothing to do with the pipeline.
LEMMA JobsMayBeLost ==
    ASSUME PipelineInv, TypeOK', UNCHANGED <<outbox, notices, attempts, settled, notified>>,
           jobs' = jobs \/ jobs' = [n \in Notices |-> None]
    PROVE  PipelineInv'
<1>1. PipelineTypes'
  BY DEF PipelineInv, PipelineTypes
<1>2. ASSUME NEW n \in Notices PROVE Told(n)'
  <2>1. Told(n) /\ (jobs'[n] = jobs[n] \/ jobs'[n] = None)
    BY DEF PipelineInv
  <2>2. /\ Emitted(n)' <=> Emitted(n)
        /\ Settled(n)' <=> Settled(n)
        /\ Recorded(n, {"SUCCEEDED"})' <=> Recorded(n, {"SUCCEEDED"})
    BY DEF Emitted, Settled, Recorded
  <2> QED
    BY <2>1, <2>2 DEF Told, Is
<1> QED
  BY <1>1, <1>2 DEF PipelineInv

LEMMA PurgeKeysTold ==
    ASSUME PipelineInv, NEW w \in Workers, PurgeKeys(w)
    PROVE  PipelineInv'
<1>1. idempotency' \in [Keys -> KeyRow \cup {None}]
  BY DEF PurgeKeys, PipelineInv, TypeOK
<1>2. UNCHANGED <<invoices, payments, refunds, receipts, outbox, audit, pipeline>>
  BY DEF PurgeKeys
<1>3. TypeOK'
  BY <1>1, <1>2 DEF PipelineInv, TypeOK
<1> QED
  BY <1>2, <1>3, JobsMayBeLost DEF pipeline, delivery

LEMMA PurgeReceiptsTold ==
    ASSUME PipelineInv, NEW w \in Workers, PurgeReceipts(w)
    PROVE  PipelineInv'
<1>1. receipts' \in [Events -> Nat \cup {None}]
  BY DEF PurgeReceipts, PipelineInv, TypeOK
<1>2. UNCHANGED <<invoices, payments, refunds, idempotency, outbox, audit, pipeline>>
  BY DEF PurgeReceipts
<1>3. TypeOK'
  BY <1>1, <1>2 DEF PipelineInv, TypeOK
<1> QED
  BY <1>2, <1>3, JobsMayBeLost DEF pipeline, delivery

\* Only events that are settled and have no job are forgotten.
LEMMA PurgeOutboxTold ==
    ASSUME PipelineInv, NEW w \in Workers, PurgeOutbox(w)
    PROVE  PipelineInv'
<1>1. PICK D \in SUBSET {n \in Notices : ExpiredNotice(n)} :
          notices' = [n \in Notices |-> IF n \in D THEN None ELSE notices[n]]
  BY DEF PurgeOutbox, Batch
<1>2. UNCHANGED <<vars, attempts, jobs, settled, notified>>
  BY DEF PurgeOutbox
<1>3. TypeOK'
  BY <1>2, TypeOKStep DEF PipelineInv
<1>4. PipelineTypes'
  BY <1>1, <1>2 DEF PipelineInv, PipelineTypes
<1>5. ASSUME NEW n \in Notices PROVE Told(n)'
  <2>1. Told(n)
    BY DEF PipelineInv
  <2>2. CASE n \in D
    <3>1. jobs[n] = None /\ n \in settled /\ Emitted(n)
      BY <2>1, <2>2 DEF ExpiredNotice, Is, Told
    <3>2. notices'[n] = None
      BY <1>1, <2>2
    <3> QED
      BY <1>2, <2>1, <3>1, <3>2, SameRecords DEF Told, Is
  <2>3. CASE n \notin D
    <3>1. notices'[n] = notices[n]
      BY <1>1, <2>3
    <3>2. Emitted(n)' <=> Emitted(n)
      BY <1>2 DEF Emitted, vars
    <3> QED
      BY <1>2, <2>1, <3>1, <3>2, ToldStays
  <2> QED
    BY <2>2, <2>3
<1> QED
  BY <1>3, <1>4, <1>5 DEF PipelineInv

\* The records of an event go after its row.
LEMMA PurgeAttemptsTold ==
    ASSUME PipelineInv, NEW w \in Workers, PurgeAttempts(w)
    PROVE  PipelineInv'
<1>1. PICK D \in SUBSET {x \in Notices \X (1 .. MaxAttempts) : ExpiredAttempt(x[1], x[2])} :
          attempts' = [n \in Notices |-> [a \in 1 .. MaxAttempts |->
                          IF <<n, a>> \in D THEN None ELSE attempts[n][a]]]
  BY DEF PurgeAttempts, Batch
<1>2. UNCHANGED <<vars, notices, jobs, settled, notified>>
  BY DEF PurgeAttempts
<1>3. TypeOK'
  BY <1>2, TypeOKStep DEF PipelineInv
<1>4. PipelineTypes'
  BY <1>1, <1>2 DEF PipelineInv, PipelineTypes
<1>5. ASSUME NEW n \in Notices PROVE Told(n)'
  <2>1. Told(n) /\ (Emitted(n)' <=> Emitted(n))
    BY <1>2 DEF PipelineInv, Emitted, vars
  <2>2. CASE notices[n] = None
    <3>1. Settled(n)' => Settled(n)
      BY <1>1 DEF Settled, Recorded
    <3> QED
      BY <1>2, <2>1, <2>2, <3>1 DEF Told, Is
  <2>3. CASE notices[n] # None
    <3>1. \A b \in 1 .. MaxAttempts : <<n, b>> \notin D
      BY <1>1, <2>3 DEF ExpiredAttempt
    <3>2. attempts'[n] = attempts[n]
      BY <1>1, <3>1 DEF PipelineInv, PipelineTypes
    <3> QED
      BY <1>2, <2>1, <3>2, ToldStays
  <2> QED
    BY <2>2, <2>3
<1> QED
  BY <1>3, <1>4, <1>5 DEF PipelineInv

\* A settled event has no job by the time it can expire.
LEMMA TickTold ==
    ASSUME PipelineInv, Tick
    PROVE  PipelineInv'
<1>1. /\ \A n \in Notices : jobs[n] # None => ~Settled(n)
      /\ notices' = [n \in Notices |-> IF Is(n, "PUBLISHED")
                                         THEN OlderRow(notices[n]) ELSE notices[n]]
      /\ attempts' = [n \in Notices |-> [a \in 1 .. MaxAttempts |->
                         IF attempts[n][a] = None THEN None ELSE OlderRow(attempts[n][a])]]
      /\ UNCHANGED <<vars, jobs, settled, notified>>
  BY DEF Tick
<1>2. TypeOK'
  BY <1>1, TypeOKStep DEF PipelineInv
<1>3. \A row \in NoticeRow : OlderRow(row) \in NoticeRow /\ OlderRow(row).status = row.status
  BY DaysAssumption DEF NoticeRow, OlderRow, Older
<1>4. \A row \in AttemptRow : OlderRow(row) \in AttemptRow /\ OlderRow(row).status = row.status
  BY DaysAssumption DEF AttemptRow, OlderRow, Older
<1> HIDE DEF OlderRow
<1>5. notices' \in [Notices -> NoticeRow \cup {None}]
  BY <1>1, <1>3 DEF PipelineInv, PipelineTypes, Is
<1>6. attempts' \in [Notices -> [1 .. MaxAttempts -> AttemptRow \cup {None}]]
  <2>1. \A n \in Notices, a \in 1 .. MaxAttempts : attempts[n][a] \in AttemptRow \cup {None}
    BY DEF PipelineInv, PipelineTypes
  <2>2. \A n \in Notices, a \in 1 .. MaxAttempts :
            (IF attempts[n][a] = None THEN None ELSE OlderRow(attempts[n][a]))
                \in AttemptRow \cup {None}
    BY <1>4, <2>1
  <2> QED
    BY <1>1, <2>2
<1>7. PipelineTypes'
  BY <1>1, <1>5, <1>6 DEF PipelineInv, PipelineTypes
<1>8. ASSUME NEW n \in Notices PROVE Told(n)'
  <2>1. Told(n) /\ (Emitted(n)' <=> Emitted(n))
    BY <1>1 DEF PipelineInv, Emitted, vars
  <2>2. notices'[n] = None <=> notices[n] = None
    BY <1>1, <1>3, NoRowAssumption DEF PipelineInv, PipelineTypes, Is
  <2>3. \A a \in 1 .. MaxAttempts :
            \/ attempts[n][a] = None /\ attempts'[n][a] = None
            \/ /\ attempts[n][a] # None /\ attempts'[n][a] # None
               /\ attempts'[n][a].status = attempts[n][a].status
    <3> TAKE a \in 1 .. MaxAttempts
    <3>1. attempts'[n][a] = IF attempts[n][a] = None THEN None ELSE OlderRow(attempts[n][a])
      BY <1>1
    <3>2. attempts[n][a] \in AttemptRow \cup {None}
      BY DEF PipelineInv, PipelineTypes
    <3>3. CASE attempts[n][a] = None
      BY <3>1, <3>3
    <3>4. CASE attempts[n][a] \in AttemptRow
      BY <1>4, <3>1, <3>4, NoRowAssumption
    <3> QED
      BY <3>2, <3>3, <3>4
  <2>4. /\ Settled(n)' <=> Settled(n)
        /\ Recorded(n, {"SUCCEEDED"})' <=> Recorded(n, {"SUCCEEDED"})
    BY <2>3 DEF Settled, Recorded
  <2>5. Settled(n)' => jobs'[n] = None
    BY <1>1, <2>4
  <2> QED
    BY <1>1, <2>1, <2>2, <2>4, <2>5 DEF Told
<1> QED
  BY <1>2, <1>7, <1>8 DEF PipelineInv

LEMMA PipelineInvPreserved ==
    ASSUME PipelineInv, [RetentionNext]_retentionVars
    PROVE  PipelineInv'
<1>1. ASSUME NEW o \in Orders, NEW i \in Invoices, Create(o, i) PROVE PipelineInv'
  BY <1>1, EmissionIsTold DEF Create, Next
<1>2. ASSUME NEW i \in Invoices, NEW next \in ManualStatuses, NEW v \in 1 .. MaxVersion,
             Change(i, next, v)
      PROVE  PipelineInv'
  BY <1>2, EmissionIsTold DEF Change, Next
<1>3. ASSUME NEW cb \in Callbacks, Receive(cb) PROVE PipelineInv'
  BY <1>3, EmissionIsTold DEF Receive, Next
<1>4. CASE \/ RedisLoss
           \/ \E w \in Workers : StartRun(w) \/ RunFails(w)
           \/ UNCHANGED retentionVars
  <2>1. TypeOK' /\ UNCHANGED <<outbox, notices, attempts, settled, notified>>
    BY <1>4, TypeOKStep
    DEF RedisLoss, StartRun, RunFails, retentionVars, pipeline, delivery, vars, PipelineInv
  <2>2. jobs' = jobs \/ jobs' = [n \in Notices |-> None]
    BY <1>4 DEF RedisLoss, StartRun, RunFails, retentionVars, pipeline, delivery
  <2> QED
    BY <2>1, <2>2, JobsMayBeLost
<1> QED
  BY <1>1, <1>2, <1>3, <1>4, AddTold, MarkTold, ReconcileTold, DeduplicateTold, AttemptTold,
     PurgeOutboxTold, PurgeAttemptsTold, PurgeKeysTold, PurgeReceiptsTold, TickTold
  DEF RetentionNext, PurgeStep

LEMMA PipelineInvAlways == RetentionSafety => []PipelineInv
BY PipelineInvInitially, PipelineInvPreserved, PTL DEF RetentionSafety

\* The outbox purge forgets only what has been delivered or given up.
THEOREM NothingForgotten == RetentionSafety => []ForgottenOnlyWhenSettled
<1>1. PipelineInv => ForgottenOnlyWhenSettled
  BY DEF PipelineInv, Told, ForgottenOnlyWhenSettled
<1> QED
  BY <1>1, PipelineInvAlways, PTL

\* However the purges fall between the steps of the pipeline, and whatever
\* Redis loses, a notification succeeds once.
THEOREM NothingTwice == RetentionSafety => []NotifiedOnce
<1>1. PipelineInv => NotifiedOnce
  BY DEF PipelineInv, Told, NotifiedOnce
<1> QED
  BY <1>1, PipelineInvAlways, PTL

-----------------------------------------------------------------------------
(* The types                                                               *)

AgeTypes ==
    /\ keyAge \in [Keys -> 0 .. KeyDays + 1]
    /\ receiptAge \in [Events -> 0 .. ReceiptDays + 1]
    /\ occurred \in [Callbacks -> -(Skew + 1) .. Window + 1]
    /\ took \subseteq Callbacks
    /\ made \in [Invoices -> [key : Keys, age : 0 .. KeyDays + 1] \cup {None}]

RunTypes ==
    /\ run \in [Workers -> [table : Tables \cup {"none"}, batch : 0 .. MaxBatches - 1]]
    /\ failures \in 0 .. MaxFailures

\* After a batch a run goes on with the next one, if its bound admits one.
LEMMA GoOnTypes ==
    ASSUME RunTypes, NEW w \in Workers, NEW next \in Tables \cup {"none"}, NEW affected,
           GoOn(w, affected, next), failures' = failures
    PROVE  RunTypes'
<1>1. [table |-> next, batch |-> 0] \in [table : Tables \cup {"none"}, batch : 0 .. MaxBatches - 1]
  BY DaysAssumption
<1>2. CASE affected < BatchSize \/ run[w].batch + 1 = MaxBatches
  BY <1>1, <1>2 DEF GoOn, RunTypes
<1>3. CASE ~(affected < BatchSize \/ run[w].batch + 1 = MaxBatches)
  <2>1. run[w] \in [table : Tables \cup {"none"}, batch : 0 .. MaxBatches - 1]
    BY DEF RunTypes
  <2>2. run[w].batch + 1 \in 0 .. MaxBatches - 1
    BY <1>3, <2>1, DaysAssumption
  <2>3. [table |-> run[w].table, batch |-> run[w].batch + 1]
            \in [table : Tables \cup {"none"}, batch : 0 .. MaxBatches - 1]
    BY <2>1, <2>2
  <2>4. run' = [run EXCEPT ![w] = [table |-> run[w].table, batch |-> run[w].batch + 1]]
    BY <1>3 DEF GoOn
  <2> QED
    BY <2>3, <2>4 DEF RunTypes
<1> QED
  BY <1>2, <1>3

LEMMA RunTypesPreserved ==
    ASSUME RunTypes, [RetentionNext]_retentionVars
    PROVE  RunTypes'
<1>1. ASSUME NEW w \in Workers, StartRun(w) \/ RunFails(w) PROVE RunTypes'
  <2>1. \A row \in {Idle, [table |-> "outbox", batch |-> 0]} :
            row \in [table : Tables \cup {"none"}, batch : 0 .. MaxBatches - 1]
    BY DaysAssumption DEF Idle, Tables
  <2>2. run' \in [Workers -> [table : Tables \cup {"none"}, batch : 0 .. MaxBatches - 1]]
    BY <1>1, <2>1 DEF StartRun, RunFails, RunTypes
  <2> QED
    BY <1>1, <2>2, DaysAssumption DEF StartRun, RunFails, RunTypes
<1>2. ASSUME NEW w \in Workers, PurgeStep(w) PROVE RunTypes'
  <2>1. \E next \in Tables \cup {"none"} : \E affected : GoOn(w, affected, next)
    <3>1. CASE PurgeOutbox(w)
      <4>1. PICK D : GoOn(w, Cardinality(D), "attempts")
        BY <3>1 DEF PurgeOutbox
      <4> QED
        BY <4>1 DEF Tables
    <3>2. CASE PurgeAttempts(w)
      <4>1. PICK D : GoOn(w, Cardinality(D), "keys")
        BY <3>2 DEF PurgeAttempts
      <4> QED
        BY <4>1 DEF Tables
    <3>3. CASE PurgeKeys(w)
      <4>1. PICK D : GoOn(w, Cardinality(D), "receipts")
        BY <3>3 DEF PurgeKeys
      <4> QED
        BY <4>1 DEF Tables
    <3>4. CASE PurgeReceipts(w)
      <4>1. PICK D : GoOn(w, Cardinality(D), "none")
        BY <3>4 DEF PurgeReceipts
      <4> QED
        BY <4>1
    <3> QED
      BY <1>2, <3>1, <3>2, <3>3, <3>4 DEF PurgeStep
  <2>2. failures' = failures
    BY <1>2 DEF PurgeStep, PurgeOutbox, PurgeAttempts, PurgeKeys, PurgeReceipts
  <2> QED
    BY <2>1, <2>2, GoOnTypes
<1>3. CASE RedisLoss
  BY <1>3, DaysAssumption DEF RedisLoss, RunTypes
<1>4. CASE UNCHANGED <<run, failures>>
  BY <1>4 DEF RunTypes
<1> QED
  BY <1>1, <1>2, <1>3, <1>4 DEF RetentionNext, retentionVars, Create, Change, Receive, Add, Mark,
     Reconcile, Deduplicate, Attempt, Tick

LEMMA AgeTypesPreserved ==
    ASSUME AgeTypes, [RetentionNext]_retentionVars
    PROVE  AgeTypes'
<1>1. ASSUME NEW o \in Orders, NEW i \in Invoices, Create(o, i) PROVE AgeTypes'
  BY <1>1, RequestTypes, DaysAssumption DEF Create, AgeTypes
<1>2. ASSUME NEW cb \in Callbacks, Receive(cb) PROVE AgeTypes'
  BY <1>2, RequestTypes, DaysAssumption DEF Receive, AgeTypes
<1>3. ASSUME NEW w \in Workers, PurgeKeys(w) \/ PurgeReceipts(w) PROVE AgeTypes'
  <2>1. CASE PurgeKeys(w)
    <3>1. PICK D : keyAge' = [k \in Keys |-> IF k \in D THEN 0 ELSE keyAge[k]]
      BY <2>1 DEF PurgeKeys
    <3>2. UNCHANGED <<receiptAge, occurred, history>>
      BY <2>1 DEF PurgeKeys
    <3> QED
      BY <3>1, <3>2, DaysAssumption DEF AgeTypes, history
  <2>2. CASE PurgeReceipts(w)
    <3>1. PICK D : receiptAge' = [e \in Events |-> IF e \in D THEN 0 ELSE receiptAge[e]]
      BY <2>2 DEF PurgeReceipts
    <3>2. UNCHANGED <<keyAge, occurred, history>>
      BY <2>2 DEF PurgeReceipts
    <3> QED
      BY <3>1, <3>2, DaysAssumption DEF AgeTypes, history
  <2> QED
    BY <1>3, <2>1, <2>2
<1>4. CASE Tick
  <2> USE DaysAssumption
  <2>1. /\ \A age \in 0 .. KeyDays + 1 : Older(age, KeyDays) \in 0 .. KeyDays + 1
        /\ \A age \in 0 .. ReceiptDays + 1 : Older(age, ReceiptDays) \in 0 .. ReceiptDays + 1
        /\ \A age \in -(Skew + 1) .. Window + 1 : Older(age, Window) \in -(Skew + 1) .. Window + 1
    <3>1. KeyDays \in Nat /\ ReceiptDays \in Nat /\ Window \in Nat /\ Skew \in Nat
      OBVIOUS
    <3> QED
      BY <3>1 DEF Older
  <2>2. /\ 0 \in 0 .. KeyDays + 1 /\ 0 \in 0 .. ReceiptDays + 1
    OBVIOUS
  <2>3. keyAge' \in [Keys -> 0 .. KeyDays + 1]
    BY <1>4, <2>1, <2>2 DEF Tick, AgeTypes
  <2>4. receiptAge' \in [Events -> 0 .. ReceiptDays + 1]
    BY <1>4, <2>1, <2>2 DEF Tick, AgeTypes
  <2>5. occurred' \in [Callbacks -> -(Skew + 1) .. Window + 1]
    BY <1>4, <2>1 DEF Tick, AgeTypes
  <2>6. made' \in [Invoices -> [key : Keys, age : 0 .. KeyDays + 1] \cup {None}]
    BY <1>4, <2>1 DEF Tick, AgeTypes
  <2>7. took' = took
    BY <1>4 DEF Tick
  <2> QED
    BY <2>3, <2>4, <2>5, <2>6, <2>7 DEF AgeTypes
<1>5. CASE UNCHANGED <<ages, history>>
  BY <1>5 DEF AgeTypes, ages, history
<1> QED
  BY <1>1, <1>2, <1>3, <1>4, <1>5 DEF RetentionNext, retentionVars, Change, Add, Mark, Reconcile,
     Deduplicate, Attempt, RedisLoss, StartRun, PurgeStep, PurgeOutbox, PurgeAttempts, RunFails

\* Every column, age, batch number and history stays in its range, and a run
\* makes no more batches of a table than its bound (runRetention, purgeInBatches).
THEOREM RetentionTypes == RetentionSafety => []RetentionTypeOK
<1>1. RetentionInit => AgeTypes /\ RunTypes
  <2> SUFFICES ASSUME RetentionInit PROVE AgeTypes /\ RunTypes
    OBVIOUS
  <2>1. AgeTypes
    BY DaysAssumption DEF RetentionInit, AgeTypes
  <2>2. RunTypes
    BY DaysAssumption DEF RetentionInit, RunTypes, Idle
  <2> QED
    BY <2>1, <2>2
<1>2. PipelineInv /\ AgeTypes /\ RunTypes => RetentionTypeOK
  BY DEF PipelineInv, PipelineTypes, AgeTypes, RunTypes, RetentionTypeOK
<1>3. AgeTypes /\ RunTypes /\ [RetentionNext]_retentionVars => AgeTypes' /\ RunTypes'
  BY AgeTypesPreserved, RunTypesPreserved
<1> QED
  BY <1>1, <1>2, <1>3, PipelineInvAlways, PTL DEF RetentionSafety

=============================================================================
