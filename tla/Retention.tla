----------------------------- MODULE Retention -----------------------------
(***************************************************************************)
(* What the worker forgets, and when.  Every six hours each worker purges  *)
(* four tables, in batches: published outbox events, delivery attempts,    *)
(* idempotency records and webhook receipts.  Meanwhile clients and the    *)
(* payment provider send again what they have sent before, and the         *)
(* pipeline goes on with what it has not settled.                          *)
(*                                                                         *)
(* There is no clock: a row has an age, and so has the event a callback    *)
(* tells of (less than zero when the provider's clock is ahead).  Tick     *)
(* makes everything a unit older, up to the age at which nothing changes   *)
(* any more, so time does not run out.  A purge is short beside a tick:    *)
(* the cutoffs it takes at its start are right for all of its batches.     *)
(***************************************************************************)
EXTENDS Billing, Integers

CONSTANTS
    Workers,
    KeyDays,       \* IDEMPOTENCY_RETENTION_DAYS
    OutboxDays,    \* OUTBOX_RETENTION_DAYS
    ReceiptDays,   \* WEBHOOK_RECEIPT_RETENTION_DAYS
    Window,        \* how old an event may be when it arrives: 90 days
    Skew,          \* how far ahead of the clock: 5 minutes
    BatchSize,     \* rows per DELETE: 1000
    MaxBatches,    \* batches per table and run: 20
    MaxAttempts,   \* job.opts.attempts
    Notices,       \* the outbox events followed to their delivery: <<invoice, version>>
    MaxFailures    \* bound: purges that throw, and losses of Redis

ASSUME DaysAssumption ==
    /\ {KeyDays, OutboxDays, ReceiptDays, Window, Skew} \subseteq Nat
    /\ {BatchSize, MaxBatches, MaxAttempts} \subseteq Nat \ {0}
    /\ MaxFailures \in Nat
    /\ Notices \subseteq Invoices \X (Nat \ {0})

\* What the ranges of the settings are beside the window of 90 days: keys for
\* 1 to 90 days, the outbox for 7 to 365, receipts for 90 to 2555.  A receipt may
\* thus be kept for the window alone, without the skew; the default is 400.
Admitted == KeyDays \in 1 .. Window /\ OutboxDays >= 1 /\ ReceiptDays >= Window

ASSUME SettingsAssumption == Admitted

VARIABLES
    keyAge,      \* key -> age of its idempotency record
    receiptAge,  \* event -> age of its receipt
    occurred,    \* callback -> age of what it tells of
    notices,     \* followed event -> [status, age since published_at] or None
    attempts,    \* followed event -> attempt -> [status, age] or None
    jobs,        \* followed event -> attempts made by the job BullMQ is to run for it, or None
    run,         \* worker -> the table it purges and the batches done, or idle
    failures,    \* how many faults there have been
    took,        \* history: the callbacks that took effect
    made,        \* history: invoice -> the key it was created under and its age
    settled,     \* history: the followed events that were settled
    notified     \* history: followed event -> successes recorded of it

ages == <<keyAge, receiptAge, occurred>>
delivery == <<attempts, jobs, settled, notified>>
pipeline == <<notices, delivery>>
history == <<took, made>>
retentionVars == <<vars, ages, pipeline, run, failures, history>>

Terminal == {"SUCCEEDED", "DEAD_LETTERED"}

Older(age, limit) == IF age > limit THEN age ELSE age + 1

OlderRow(row) == [status |-> row.status, age |-> Older(row.age, OutboxDays)]

NoticeRow == [status : {"PENDING", "PROCESSING", "PUBLISHED"}, age : 0 .. OutboxDays + 1]
AttemptRow == [status : Terminal \cup {"RETRYING"}, age : 0 .. OutboxDays + 1]

ASSUME NoRowAssumption == None \notin NoticeRow \cup AttemptRow

Idle == [table |-> "none", batch |-> 0]
Tables == {"outbox", "attempts", "keys", "receipts"}

RetentionTypeOK ==
    /\ TypeOK
    /\ keyAge \in [Keys -> 0 .. KeyDays + 1]
    /\ receiptAge \in [Events -> 0 .. ReceiptDays + 1]
    /\ occurred \in [Callbacks -> -(Skew + 1) .. Window + 1]
    /\ notices \in [Notices -> NoticeRow \cup {None}]
    /\ attempts \in [Notices -> [1 .. MaxAttempts -> AttemptRow \cup {None}]]
    /\ jobs \in [Notices -> 0 .. MaxAttempts - 1 \cup {None}]
    /\ run \in [Workers -> [table : Tables \cup {"none"}, batch : 0 .. MaxBatches - 1]]
    /\ failures \in 0 .. MaxFailures
    /\ took \subseteq Callbacks
    /\ made \in [Invoices -> [key : Keys, age : 0 .. KeyDays + 1] \cup {None}]
    /\ settled \subseteq Notices
    /\ notified \in [Notices -> Nat]

RetentionInit ==
    /\ Init
    /\ keyAge = [k \in Keys |-> 0]
    /\ receiptAge = [e \in Events |-> 0]
    /\ occurred \in [Callbacks -> -(Skew + 1) .. Window + 1]
    /\ notices = [n \in Notices |-> None]
    /\ attempts = [n \in Notices |-> [a \in 1 .. MaxAttempts |-> None]]
    /\ jobs = [n \in Notices |-> None]
    /\ run = [w \in Workers |-> Idle]
    /\ failures = 0
    /\ took = {}
    /\ made = [i \in Invoices |-> None]
    /\ settled = {}
    /\ notified = [n \in Notices |-> 0]

-----------------------------------------------------------------------------
(* The API                                                                 *)

Row(status) == [status |-> status, age |-> 0]

\* The change that the event tells of has been committed.
Emitted(n) == n[2] <= Len(outbox[n[1]])

\* The row of a followed event comes with the event.
EmitNotices ==
    notices' = [n \in Notices |->
                   IF ~Emitted(n) /\ Emitted(n)' THEN Row("PENDING") ELSE notices[n]]

\* InvoiceService.create for a key with no record: there never was one, or
\* it has been purged.
Create(o, i) ==
    /\ CreateInvoice(o, i)
    /\ EmitNotices
    /\ keyAge' = [keyAge EXCEPT ![o.key] = 0]
    /\ made' = [made EXCEPT ![i] = [key |-> o.key, age |-> 0]]
    /\ UNCHANGED <<receiptAge, occurred, delivery, run, failures, took>>

Change(i, next, v) ==
    /\ Transition(i, next, v)
    /\ EmitNotices
    /\ UNCHANGED <<ages, delivery, run, failures, history>>

\* handleWebhook looks at the event's time before it looks for a receipt.
InWindow(cb) == -Skew <= occurred[cb] /\ occurred[cb] <= Window

Receive(cb) ==
    /\ InWindow(cb)
    /\ Capture(cb) \/ Refund(cb)
    /\ EmitNotices
    /\ receiptAge' = [receiptAge EXCEPT ![cb.event] = 0]
    /\ took' = took \cup {cb}
    /\ UNCHANGED <<keyAge, occurred, delivery, run, failures, made>>

-----------------------------------------------------------------------------
(* The pipeline that Delivery opens up, here an event at a time            *)

Is(n, status) == notices[n] # None /\ notices[n].status = status

Recorded(n, statuses) ==
    \E a \in 1 .. MaxAttempts : attempts[n][a] # None /\ attempts[n][a].status \in statuses

Settled(n) == Recorded(n, Terminal)

\* queue.add ignores an id that is there.
AddJob(n) == jobs' = [jobs EXCEPT ![n] = IF @ = None THEN 0 ELSE @]

\* OutboxRelay.poll: the event is claimed and its job added.
Add(n) ==
    /\ Is(n, "PENDING")
    /\ notices' = [notices EXCEPT ![n] = Row("PROCESSING")]
    /\ AddJob(n)
    /\ UNCHANGED <<vars, ages, attempts, settled, notified, run, failures, history>>

\* It is marked, or comes back because the relay fails or its claim expires.
Mark(n, status) ==
    /\ Is(n, "PROCESSING")
    /\ notices' = [notices EXCEPT ![n] = Row(status)]
    /\ UNCHANGED <<vars, ages, delivery, run, failures, history>>

\* reconcilePublished: a published event without a terminal record.
Reconcile(n) ==
    /\ Is(n, "PUBLISHED") /\ ~Settled(n) /\ jobs[n] = None
    /\ AddJob(n)
    /\ UNCHANGED <<vars, ages, notices, attempts, settled, notified, run, failures, history>>

\* The job processor finds a success on record, and returns.
Deduplicate(n) ==
    /\ jobs[n] # None /\ Recorded(n, {"SUCCEEDED"})
    /\ jobs' = [jobs EXCEPT ![n] = None]
    /\ UNCHANGED <<vars, ages, notices, attempts, settled, notified, run, failures, history>>

\* It finds none: it sends, and upserts how that went.  A row that is there
\* keeps its created_at.
Attempt(n, status) ==
    /\ jobs[n] # None /\ ~Recorded(n, {"SUCCEEDED"})
    /\ LET a == jobs[n] + 1
           age == IF attempts[n][a] = None THEN 0 ELSE attempts[n][a].age
       IN  /\ status # (IF a >= MaxAttempts THEN "RETRYING" ELSE "DEAD_LETTERED")
           /\ attempts' = [attempts EXCEPT ![n][a] = [status |-> status, age |-> age]]
           /\ jobs' = [jobs EXCEPT ![n] = IF status = "RETRYING" THEN a ELSE None]
    /\ settled' = IF status \in Terminal THEN settled \cup {n} ELSE settled
    /\ notified' = IF status = "SUCCEEDED" THEN [notified EXCEPT ![n] = @ + 1] ELSE notified
    /\ UNCHANGED <<vars, ages, notices, run, failures, history>>

\* Redis is disposable: it may lose every job.
RedisLoss ==
    /\ failures < MaxFailures
    /\ failures' = failures + 1
    /\ jobs' = [n \in Notices |-> None]
    /\ UNCHANGED <<vars, ages, notices, attempts, settled, notified, run, history>>

-----------------------------------------------------------------------------
(* runRetention                                                            *)

\* Seeded fault: the EXISTS is left out.
PublishedLongAgo(n) == Is(n, "PUBLISHED") /\ notices[n].age > OutboxDays

ExpiredNotice(n) == Is(n, "PUBLISHED") /\ notices[n].age > OutboxDays /\ Settled(n)

\* Seeded fault: the join with the outbox is left out.
OldAttempt(n, a) == attempts[n][a] # None /\ attempts[n][a].age > OutboxDays

\* Seeded fault: it is an inner join.
OldAttemptOfKept(n, a) == notices[n] # None /\ OldAttempt(n, a)

ExpiredAttempt(n, a) ==
    /\ notices[n] = None
    /\ attempts[n][a] # None /\ attempts[n][a].age > OutboxDays

\* Seeded fault: <= for <.
ExpiredKeyEarly(k) == idempotency[k] # None /\ keyAge[k] >= KeyDays

ExpiredKey(k) == idempotency[k] # None /\ keyAge[k] > KeyDays

\* Seeded fault: <= for <.
ExpiredReceiptEarly(e) == receipts[e] # None /\ receiptAge[e] >= ReceiptDays

ExpiredReceipt(e) == receipts[e] # None /\ receiptAge[e] > ReceiptDays

\* LIMIT after ORDER BY: the oldest, as many as a batch has.
Batch(expired, age) ==
    {D \in SUBSET expired :
        /\ Cardinality(D) = IF Cardinality(expired) < BatchSize
                            THEN Cardinality(expired) ELSE BatchSize
        /\ \A d \in D, e \in expired \ D : age[d] >= age[e]}

\* The timer, and the start of the process.
StartRun(w) ==
    /\ run[w] = Idle
    /\ run' = [run EXCEPT ![w] = [table |-> "outbox", batch |-> 0]]
    /\ UNCHANGED <<vars, ages, pipeline, failures, history>>

\* purgeInBatches: another batch after a full one, up to the bound.
GoOn(w, affected, next) ==
    run' = [run EXCEPT ![w] =
               IF affected < BatchSize \/ @.batch + 1 = MaxBatches
               THEN [table |-> next, batch |-> 0]
               ELSE [table |-> @.table, batch |-> @.batch + 1]]

PurgeOutbox(w) ==
    /\ run[w].table = "outbox"
    /\ \E D \in Batch({n \in Notices : ExpiredNotice(n)}, [n \in Notices |-> notices[n].age]) :
          /\ notices' = [n \in Notices |-> IF n \in D THEN None ELSE notices[n]]
          /\ GoOn(w, Cardinality(D), "attempts")
    /\ UNCHANGED <<vars, ages, attempts, jobs, settled, notified, failures, history>>

PurgeAttempts(w) ==
    /\ run[w].table = "attempts"
    /\ \E D \in Batch({x \in Notices \X (1 .. MaxAttempts) : ExpiredAttempt(x[1], x[2])},
                      [x \in Notices \X (1 .. MaxAttempts) |-> attempts[x[1]][x[2]].age]) :
          /\ attempts' = [n \in Notices |-> [a \in 1 .. MaxAttempts |->
                             IF <<n, a>> \in D THEN None ELSE attempts[n][a]]]
          /\ GoOn(w, Cardinality(D), "keys")
    /\ UNCHANGED <<vars, ages, notices, jobs, settled, notified, failures, history>>

PurgeKeys(w) ==
    /\ run[w].table = "keys"
    /\ \E D \in Batch({k \in Keys : ExpiredKey(k)}, keyAge) :
          /\ idempotency' = [k \in Keys |-> IF k \in D THEN None ELSE idempotency[k]]
          /\ keyAge' = [k \in Keys |-> IF k \in D THEN 0 ELSE keyAge[k]]
          /\ GoOn(w, Cardinality(D), "receipts")
    /\ UNCHANGED <<invoices, payments, refunds, receipts, outbox, audit>>
    /\ UNCHANGED <<receiptAge, occurred, pipeline, failures, history>>

PurgeReceipts(w) ==
    /\ run[w].table = "receipts"
    /\ \E D \in Batch({e \in Events : ExpiredReceipt(e)}, receiptAge) :
          /\ receipts' = [e \in Events |-> IF e \in D THEN None ELSE receipts[e]]
          /\ receiptAge' = [e \in Events |-> IF e \in D THEN 0 ELSE receiptAge[e]]
          /\ GoOn(w, Cardinality(D), "none")
    /\ UNCHANGED <<invoices, payments, refunds, idempotency, outbox, audit>>
    /\ UNCHANGED <<keyAge, occurred, pipeline, failures, history>>

PurgeStep(w) == PurgeOutbox(w) \/ PurgeAttempts(w) \/ PurgeKeys(w) \/ PurgeReceipts(w)

\* A DELETE throws (a deadlock with a request, a lost connection, the end of
\* the process): the rest of the run is skipped.
RunFails(w) ==
    /\ run[w] # Idle
    /\ failures < MaxFailures
    /\ failures' = failures + 1
    /\ run' = [run EXCEPT ![w] = Idle]
    /\ UNCHANGED <<vars, ages, pipeline, history>>

-----------------------------------------------------------------------------
\* Time passes.  Workers are up: a job that is left for a settled event, since
\* its relay was overtaken, is run before the event can expire.
Tick ==
    /\ \A w \in Workers : run[w] = Idle
    /\ \A n \in Notices : jobs[n] # None => ~Settled(n)
    /\ keyAge' = [k \in Keys |-> IF idempotency[k] = None THEN 0 ELSE Older(keyAge[k], KeyDays)]
    /\ receiptAge' = [e \in Events |->
                         IF receipts[e] = None THEN 0 ELSE Older(receiptAge[e], ReceiptDays)]
    /\ occurred' = [cb \in Callbacks |-> Older(occurred[cb], Window)]
    /\ notices' = [n \in Notices |-> IF Is(n, "PUBLISHED")
                                       THEN OlderRow(notices[n]) ELSE notices[n]]
    /\ attempts' = [n \in Notices |-> [a \in 1 .. MaxAttempts |->
                       IF attempts[n][a] = None THEN None ELSE OlderRow(attempts[n][a])]]
    /\ made' = [i \in Invoices |-> IF made[i] = None THEN None
                                   ELSE [key |-> made[i].key, age |-> Older(made[i].age, KeyDays)]]
    /\ UNCHANGED <<vars, jobs, settled, notified, run, failures, took>>

RetentionNext ==
    \/ \E o \in Orders, i \in Invoices : Create(o, i)
    \/ \E i \in Invoices, next \in ManualStatuses, v \in 1 .. MaxVersion : Change(i, next, v)
    \/ \E cb \in Callbacks : Receive(cb)
    \/ \E n \in Notices : Add(n) \/ Reconcile(n) \/ Deduplicate(n)
    \/ \E n \in Notices, status \in {"PENDING", "PUBLISHED"} : Mark(n, status)
    \/ \E n \in Notices, status \in Terminal \cup {"RETRYING"} : Attempt(n, status)
    \/ RedisLoss
    \/ \E w \in Workers : StartRun(w) \/ PurgeStep(w) \/ RunFails(w)
    \/ Tick

RetentionSafety == RetentionInit /\ [][RetentionNext]_retentionVars

\* The timer fires, and a DELETE ends.  Nobody need send anything, and time
\* need not pass.
RetentionFairness == \A w \in Workers : WF_retentionVars(StartRun(w) \/ PurgeStep(w))

RetentionSpec == RetentionSafety /\ RetentionFairness
-----------------------------------------------------------------------------
\* SLO.md: replays return the original outcome and altered ones are rejected.
\* A callback that took effect is refused by the time window or recognised by
\* its receipt, whenever it comes again, and an altered body is refused for as
\* long.  Where receipts are kept for less than the window and the skew, there
\* is a gap at the window's end, and this is exactly how wide it may be.
ReceiptOutlivesWindow ==
    \A cb \in took :
        InWindow(cb) => receipts[cb.event] = cb.hash \/ occurred[cb] + Skew > ReceiptDays

\* OPERATIONS.md: idempotency records cover the normal retries of clients.  A
\* key that is sent again makes another invoice only when the one before is
\* older than the retention of keys.
KeyLasts ==
    [][\A i, j \in Invoices :
          made[i] = None /\ made'[i] # None /\ made[j] # None
              => made[j].key # made'[i].key \/ made[j].age > KeyDays]_retentionVars

\* OPERATIONS.md: a published outbox event is never deleted without a terminal
\* delivery record.  What a change emitted is in the outbox until it has been
\* delivered or given up, however the purge falls between the pipeline's steps.
ForgottenOnlyWhenSettled ==
    \A n \in Notices : Emitted(n) /\ notices[n] = None => n \in settled

\* The records of an event's delivery outlive every occasion to send it again:
\* though relays fail between adding and marking, Redis loses jobs and old
\* rows are purged, nothing is sent again after a success.
NotifiedOnce == \A n \in Notices : notified[n] <= 1

\* The purge catches up again and again: there is a time when no row of the four
\* tables is due, although a run stops at its bound of batches with rows left,
\* and skips what comes after a failure.  It is said of a backlog that has come
\* to be; rows that become due faster than the bound, for ever, do pile up.
NothingExpired ==
    /\ \A k \in Keys : idempotency[k] # None => keyAge[k] <= KeyDays
    /\ \A e \in Events : receipts[e] # None => receiptAge[e] <= ReceiptDays
    /\ \A n \in Notices : Is(n, "PUBLISHED") /\ Settled(n) => notices[n].age <= OutboxDays
    /\ \A n \in Notices, a \in 1 .. MaxAttempts :
          notices[n] = None /\ attempts[n][a] # None => attempts[n][a].age <= OutboxDays

PurgeCatchesUp == []<>NothingExpired
=============================================================================
