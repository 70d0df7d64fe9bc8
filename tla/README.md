# The Merchant Platform in TLA+

This directory is a verification development of the Merchant Platform: the invoice and payment API
(`apps/api`), the notification worker (`apps/worker`), the domain package they share, the MySQL schema both
work on, and the commands that migrate it and provision its tenants. It says in TLA+ what the code does, lets TLC explore every interleaving of small instances,
and proves the properties that matter most for instances of every size.

Paths below are relative to the repository; line numbers are those of the modelled commit.

## 1. The system

Clients and operators call the API; a payment provider posts signed callbacks to it. Everything the API
decides is a transaction on MySQL, and every transaction that changes an invoice also inserts an outbox
event and an audit event. Worker replicas take events from the outbox into a BullMQ queue in Redis,
deliver them to a notification provider, and record every attempt in MySQL. There are two replicas of the
API and of the worker, so every handler and every loop runs concurrently with itself.

| Component | State | Operations | Talks to |
|---|---|---|---|
| Invoices (`invoice.service.ts`) | `invoices`, `invoice_lines`, `idempotency_records` | create, transition (PATCH status), get, list | outbox, audit, merchant scope |
| Payments (`payment.service.ts`) | `payments`, `refunds`, `payment_webhook_receipts` | handleWebhook: capture, refund; list | invoices (row lock), outbox, audit |
| Audit (`audit.service.ts`) | `audit_events`, append-only by trigger | record, list | called inside the transactions above |
| Merchant scope (`merchant-scope.service.ts`) | reads `merchants`, `stores` | authorizedMerchantIds, authorizeStore | called by invoices, payments, audit |
| Outbox relay (`outbox-relay.ts`) | `outbox_events` status, attempts, lock; a `polling` flag | poll = claim, add, publish; reconcilePublished; metrics | MySQL, Redis queue |
| Delivery worker (`worker/src/main.ts`, `provider.ts`) | `delivery_attempts`; jobs and dead-letter jobs in Redis | process a job, failed handler, shutdown | Redis, provider, MySQL |
| Retention (`worker/src/main.ts`) | deletes from `outbox_events`, `delivery_attempts`, `idempotency_records`, `payment_webhook_receipts` | four purges in batches of 1000, at most 20 a table, at the start and every six hours | MySQL; beside everything above |
| Domain package (`packages/domain`) | none | invoice arithmetic, transition table, access walk, idempotency keys, tokens, signatures | called by the API |
| Schema (`database/migrations`, `scripts/migrate.mjs`, `deploy/k8s/base/migration-job.yaml`) | the tables, unique keys, checks, triggers; the ledger `schema_migrations`; a named lock | verify or apply every file, grant access | run by the pods of a Job before the Deployments are rolled out |
| Provisioning (`scripts/provision-tenant.mjs`), seeding | `merchants`, `stores`, one audit event | look for a tenant, then report noop, refuse, or insert it; one transaction, by hand | MySQL |
| Auth guard, health, metrics, logging | none that outlives a request | | |
| Portal (`apps/portal`) | none | proxies the API | API |
| Deployment, infrastructure, monitoring, scripts | configuration | | |

What is hard in it:

* **Concurrency.** Callbacks of one invoice, repetitions of one callback, operator changes and creates
  that share a key run at once, on two isolation levels: callbacks are SERIALIZABLE (every SELECT locks),
  creates and operator changes READ COMMITTED (a SELECT locks nothing, an UPDATE or a unique key decides).
* **Failure and repetition.** A replica may die before or after its commit; clients and the provider
  send again; events may come in any order.
* **Agreement of tables.** The invoice's status, the payments' running totals, the refund rows, the
  receipts, the outbox and the audit trail are written separately and must tell one story.
* **Delivery.** The outbox, the queue and the delivery records are three stores without a common
  transaction; Redis may lose everything.
* **Time.** Claims expire, receipts and idempotency records are purged, event times have a window.
* **Half-done work.** DDL commits statement by statement; a pod of the migration Job may die between any
  two, beside the previous release, which goes on writing.
* **Reads that are no snapshot.** The walk up the merchant hierarchy is a query per level, while somebody
  may change the hierarchy by hand.

What makes each component right:

* Invoices and payments: captured money within the total, refunds within their payment, the status the
  one the money implies, moves along the domain table only, one trail entry of each kind per change.
* Callbacks: an event takes effect once, an altered event never passes for the original, an answer is
  given only for what is committed, no handler acts on a row that has changed under it, and everyone is
  answered in the end.
* Creates: one invoice per key; every success names it.
* Relay and worker: a committed event reaches a terminal record whatever Redis loses; nothing is
  delivered again after a recorded success; nothing is purged before it is terminal.
* Retention: nothing is forgotten while a repetition of it may still be accepted or a delivery of it is
  still to come, and a backlog of the purge is worked off.
* Merchant scope: what is listed is the connected, active part of the hierarchy, and what may be listed and
  what may be authorized agree.
* Arithmetic: rows add up, the tax is the nearest whole unit, and everything fits its columns.
* Schema: the ledger is true, and a release never meets a database that lacks what it needs.
* Provisioning: a tenant is there whole or not at all, and what a command reports is so.

`PROJECT.json` lists the hazards one by one, each at its line, with the properties that cover it.

## 2. Modules

| Module | What it is |
|---|---|
| `MinorSums` | `COALESCE(SUM(...), 0)` in minor units, as one cardinality |
| `Billing` | the committed record: one atomic action per transaction of the API. The abstract specification of the two below |
| `RowLocks` | the InnoDB locks the code's statements meet: shared, exclusive and gap locks, waits, deadlock victims (external) |
| `WebhookTx` | `PaymentService.handleWebhook` and `InvoiceService.transition`, statement by statement; implements `Billing` |
| `CreateTx` | `InvoiceService.create`, statement by statement; implements `Billing` |
| `AtLeastOnce` | what the notification pipeline promises: accepted, recorded, settled. Abstract |
| `Delivery` | outbox relays, job processors, BullMQ and Redis around two tables; implements `AtLeastOnce` |
| `Retention` | the worker's purges beside `Billing` and a coarse relay and job processor, with ages for rows and events |
| `Migrations` | the migration Job, statement by statement, beside the previous release; the gate before the rollout |
| `Tenants` | `provision-tenant.mjs`, statement by statement, and changes of merchants and stores by hand |
| `InvoiceMath` | `calculateInvoice` and the columns its results go into |
| `MerchantScope` | both walks over the hierarchy, from a request to issue an invoice to the row it inserts |
| `Onboarding` | the composition of the four: a database, its release, its tenants, their first invoices |
| `MCBilling`, `MCWebhookTx`, `MCCreateTx`, `MCDelivery`, `MCRetention`, `MCOnboarding` | instances for TLC |
| `MinorSumTheorems`, `BillingProofs`, `TrailProofs`, `WebhookTxProofs`, `CreateTxProofs`, `DeliveryProofs`, `RetentionProofs`, `OnboardingProofs` | theorems and their proofs |

### Billing

The variables are the tables. A row is a record or `None`; a table is a function of its key, so two rows
with one key cannot be written down, and the unique keys of the schema are guards of the actions that
insert. `outbox` and `audit` are kept per invoice, in the order of commit. Lines, names, merchants,
stores and times do not tell the properties apart and are left out; there is one provider and one
currency, as the DTOs and the configuration admit only one of each.

| Action | Code |
|---|---|
| `CreateInvoice(o, i)` | `InvoiceService.create` up to its commit |
| `Transition(i, next, v)` | `InvoiceService.transition` |
| `Capture(cb)` | `handleWebhook` with `capture` |
| `Refund(cb)` | `handleWebhook` with `refund` |

Everything the code answers with an error, a replay or a duplicate changes no table, so it has no action
here. A request's hash is a number beside its body, and two bodies may share one.

### RowLocks and WebhookTx

A handler is one request in progress. `pc` is the statement it is about to execute, `memory` holds the
entities it has read and the status it has computed, as the local variables of the code do, and `locks`
what it has locked. A statement is executed when no other transaction holds a lock that conflicts with
what the statement asks for; otherwise the handler waits. The writes are applied at `Commit`, computed
from `memory`: if a lock were missing, `Commit` would write stale values, and the refinement of `Billing`
would fail.

Three facts of InnoDB shape the behaviour. Under SERIALIZABLE a plain `findOne` locks the row it finds,
and if it finds none, the gap in which the row would be. Gap locks do not exclude each other, only an
INSERT into the gap. And of the transactions of a wait cycle, the one that has changed the fewest rows is
rolled back. Ids are numbers so that gaps exist: an id that is missing shares its gap with its missing
neighbours. Whether a neighbouring invoice's next payment falls into a gap that a sum has locked depends
on the random ids of the rows; the model allows both.

`Fault` stands for a crash, a lost connection or a lock wait timeout: what is open rolls back; what is
committed stays, without an answer. The lock on an invoice id that does not exist is not modelled (the
transaction that asked for it ends in the same step), nor is the order in which InnoDB queues waiting
requests (any waiting request may be granted).

### CreateTx

The same form. Two handlers may both find no record of a key. The second INSERT waits for the first
transaction: after its commit it fails with `ER_DUP_ENTRY` and the handler reads the winner's record
(`FindWinner`); after its rollback the waiting handlers inherit locks on the gap, so that two of them
deadlock. That is `Bequeathed`.

### Delivery

Each `await` of `OutboxRelay.poll` and of the job processor is a step, in any number of worker processes.
`relay[p]` is the position of a process's poll and the events of its batch that it has still to handle;
`task[p]` is the position of its job processor; `outbox`, `claimed` and `attempts` are the two tables;
`jobs` and `dlq` are what BullMQ keeps in Redis, by event id.

| Action | Code |
|---|---|
| `Claim`, `Add`, `Mark`, `Requeue` | `claim` and the loop of `poll` |
| `Reconcile`, `ReAdd` | `reconcilePublished` |
| `Take`, `Check`, `Send`, `RecordSuccess`, `RecordFailure` | the job processor |
| `Fail`, `Bury` | the rejected processor and the `failed` handler |
| `Complete`, `Reclaim`, `StallsWhileRunning`, `ForgetCompleted` | BullMQ (external) |
| `AddOrMarkThrows`, `TryThrows`, `AnswerLost`, `CatchThrows`, `Crash`, `RedisLoss` | faults |

Time is not counted: a claim or the lock of a dead process's job may run out at any step, and back-off is
left out. So every relation of the real time-outs is covered, with one exception: a completed job is kept
for a day, and it is assumed that no attempt lasts that long, and no poll that found the event
undelivered before it was delivered. A rejected `poll` has no handler and ends the process; it is a
`Crash`. A process works on one job at a time; a second slot is a second process. What retention deletes
is older than anything this module follows; `Retention` is about that. BullMQ's part is written from its documented
behaviour: an id that exists is not added again, a job is taken over when its lock runs out, at most
`maxStalledCount` times (default 1), and a processor that has lost its lock can neither complete nor fail
the job.

`AtLeastOnce` is implemented by mapping `committed` to the events in the outbox and `verdict` to the best
record among an event's attempts.

### Retention

`Retention` extends `Billing`: the tables are the same, and an invoice is created, changed, paid and
refunded by `Billing`'s own actions. Beside every row that may be purged there is its age, and beside every
callback the age of what it tells of, less than zero when the provider's clock is ahead of the API's.
`Tick` makes everything a unit older, up to the age from which nothing changes any more, so time does not
run out and there is no bound on it.

| Action | Code |
|---|---|
| `Create`, `Change`, `Receive` | `InvoiceService.create`, `.transition`; `handleWebhook` with its window of 90 days and 5 minutes |
| `Add`, `Mark`, `Reconcile`, `Deduplicate`, `Attempt` | `poll`, `reconcilePublished` and the job processor, one event at a time |
| `StartRun` | `runRetention` at the start and on its timer |
| `PurgeOutbox`, `PurgeAttempts`, `PurgeKeys`, `PurgeReceipts` | a DELETE of `runRetention`; `GoOn` is `purgeInBatches` |
| `RunFails` | a DELETE that throws: `retention_failed`, and the tables after it are skipped |
| `RedisLoss` | Redis loses every job |

The pipeline is that of `Delivery` without its interleavings inside an attempt: what a stalled job or a lost
answer does to a record is `Delivery`'s matter and not repeated here. Two things are assumed. A purge is short
beside a unit of time, so that its cutoffs are right for all its batches. And a job of a settled event, left by a relay
that was overtaken or failed to mark, is run before the event's days are over.

The days may be any that `worker/src/config.ts:46-53` admits (`Admitted`): the ranges are kept as they lie beside the
window of 90 days. Receipts may thus be kept for 90 days, as long as the window and shorter by five minutes than the
window and the skew together. A receipt of an event that was stamped five minutes ahead of the API's clock is then
purged while the event could still be let in. `docs/SLO.md:18` promises that replays return the original outcome and
altered ones are rejected; in those minutes the code does neither: the same body is refused, its payment id being in
use, and a body that was altered would take effect. `ReceiptOutlivesWindow` says how wide the gap is at most, and that
there is none when receipts are kept for longer than the window and the skew, as with the default of 400 days.

`docs/OPERATIONS.md:32` has published outbox events kept "30 days after terminal delivery". The code counts
from `published_at`: an event whose delivery took that long is purged with its first run after it. Nothing
is lost by that (`ForgottenOnlyWhenSettled`), but the record of the incident is.

### Migrations

`schema` is the set of statements in effect, `ledger` the table `schema_migrations`, `session` the holder of
the named lock, and `job` where each pod of the Job is: the file, and the statement of it. The files are
`001` and `002` with their statements in order; which of them MySQL refuses to execute again is `Refused`.

| Action | Code |
|---|---|
| `Start`, `Die` | the Job starts a pod (`backoffLimit`), and loses one |
| `GetLock`, `LockTimesOut` | `GET_LOCK('merchant-platform-migrations', 60)` |
| `Verify` | a file that is in the ledger: go on, or throw for checksum drift |
| `Apply`, `Execute`, `Record` | a file that is not: its statements one by one, each committed by itself, then the ledger |
| `GrantAccess` | `provisionApplicationUser`: return for want of a user, throw for half of one or an unsafe name, or grant |
| `Rewrite` | another image of the Job has a rewritten file, or the original again |
| `PreviousWrites` | the running API of the previous release inserts an outbox row, which has no `merchant_id` |
| `Rollout` | the sync wave after the Job: the Deployments of the new release |

What the code does here and a reader may not expect: after `002` has failed halfway it can never be applied again (its
`ADD KEY`, `ADD COLUMN` and `CREATE TABLE` are refused the second time), whether a pod died or the previous release
wrote a row between the backfill and the `NOT NULL`; and from the `NOT NULL` on, the previous release cannot change an
invoice any more until the rollout. `RolloutGoesThrough` and `OnlyDisturbedPodsFail` name these two, a rewritten file
and an invalid user as the only ways to fail. Which user the Job's environment names is `appUser`: with none, the
script grants nothing and the Job succeeds, since access may be managed elsewhere (`AccessSettled`); with a name and
no password, a password and no name, or a name that is not safe, every pod fails, but only after it has applied all
migrations. `docs/ACCEPTANCE.md:33` promises the order, not the recovery.

### Tenants

The tables `merchants` and `stores`, and the commands that operators run at their terminals. The form is
that of `WebhookTx`: a command is at a statement, has the merchant it has read, and waits for the locks the
next statement needs. Both reads are `FOR UPDATE`, so two commands for a tenant that is not there both hold
the gap, and the inserts deadlock; `Deadlock` ends one of them with an error, as the rollback in the `catch` does.

| Action | Code |
|---|---|
| `Run` | the command is started with its input |
| `ReadMerchant`, `ReadStores` | the two SELECTs; noop for an exact tenant, refusal of another, or on to the inserts |
| `InsertMerchant`, `InsertStore` | the INSERTs, or `ER_DUP_ENTRY` |
| `Commit` | the audit event and the commit |
| `Fail`, `Deadlock` | the `catch` and the `finally`; a process that dies |
| `ChangeMerchant`, `ChangeStore` | an operator's UPDATE (external: the repository has no such operation) |

### MerchantScope and InvoiceMath

`authorizedMerchantIds` is the loop of `MerchantScopeService.authorizedMerchantIds` over the current
hierarchy. `authorizeStore` is followed query by query (`StartWalk`, `Climb`, `Forbid`, `Issue`), since
under READ COMMITTED each sees what is committed by then; `Overtake` counts the changes by hand in between. An
authorized request goes on to `calculateInvoice` and the INSERT (`Issue`).

`InvoiceMath` calculates in integers what the code calculates in floating point. The DTO bounds a request so that
every intermediate result is far below 2^53; the quotient by 10 000 is the only one that is not whole, and a
tie of it is exact. Line totals may reach 10^12 and do not fit `INT UNSIGNED`: the INSERT then fails in MySQL's
strict mode, and the client is answered 500. That is `FitsColumns`.

Two differences between the walks: the walk down looks 16 levels below the actor, the walk up compares 16
merchants, the store's own included, so a store of a merchant 16 levels down is listed and cannot be acted
for (`WalksAgree` says exactly that). And with two changes by hand during one walk up the answer may be one that
no state of the hierarchy gives; with one it cannot (`AnswerHoldsAtSomeTime`).

### Onboarding

The composition: `Migrations` runs; when the release is rolled out commands may be run, and requests walk a
hierarchy that is changed by hand. A command adds a merchant without parent, which no walk under way meets, so
commands and walks take turns. The order is that of `docs/PRODUCTION_GO_LIVE.md`.

## 3. Runs

| Run | Instance | Question | Result |
|---|---|---|---|
| `billing` | 2 invoices with totals 0, 2 or 3, 3 payments, 2 refunds, 5 events, 2 keys, amounts to 2 | does every history of the four operations keep the tables in agreement? | yes |
| `webhooks` | 2 handlers, 2 invoices, 7 callbacks (captures and refunds, one altered, one with a used payment id, one with a used refund id), all status changes, 1 fault | do concurrent captures, refunds and status changes implement `Billing`, from reads that stay current? | yes |
| `webhook_retries` | 2 handlers, the race of two payments and a neighbouring invoice | is everyone answered, and does every repeated payment get through? | yes |
| `webhook_race` | the smoke test's race of two payments, no fault | is neither answered with a server error? | **no**, see below |
| `create` | 3 handlers, one key with 2 bodies, 1 fault | do concurrent creates implement `Billing`, do all successes of a key agree, and is every client answered? | yes |
| `delivery` | 2 processes, 1 event, 2 attempts, one crash or error | does the pipeline keep the promise of `AtLeastOnce`, and is a published event always queued or settled? | yes |
| `delivery_redis` | the same, twice: Redis lost, or an await throws | does every event still get a terminal record, and what has failed for good a place in the dead-letter queue? | yes |
| `delivery_faults` | 2 processes, 2 events, 1 attempt, any fault of six kinds | are published events never taken back? | yes |
| `delivery_success` | a job stalls while its processor runs | does a recorded success stay? | **no**, see below |
| `delivery_reclaim` | two crashes on one job | does the event get a terminal record? | **no**, see below |
| `retention` | 1 worker, batches of 1 and 2 batches a table, 2 invoices under one key, an event with two bodies, one notification of 3 attempts, receipts kept for the window only, one fault | is what is forgotten never needed again but in the gap of the skew, and does the purge work off what it leaves behind? | yes |
| `onboarding` | 2 pods, a new database or one in use, 2 deaths or rewrites, a row of the previous release, a database user that is valid, invalid or not named; 2 terminals, 4 merchants of which 3 form a chain, 2 stores, 2 changes by hand, walks of depth 2; 10 bodies | does the release find its schema, is every tenant whole, do the walks and the rows hold? | yes |

Properties. `CapturedWithinTotal`, `RefundLedger`, `StatusMatchesMoney`, `TrailMatches`,
`EventEffectsOnce` and `OneInvoicePerKey` relate the tables to each other in every state;
`StatusFollowsTable` is about every step. `Spec` in the runs of `WebhookTx` and `CreateTx` is the
specification of `Billing` itself: since both modules keep its variables, the refinement mapping is the
identity, and all that is proved of `Billing` holds for them. `ReadsStayCurrent` and
`InsertsNeverCollide` say why they implement it; the second one also shows that the `ER_DUP_ENTRY` branch
of `handleWebhook` is never taken, which is why it has no action. `AnswerIsOnRecord` and `AnswersAgree`
are about what the senders are told.

`ReceiptOutlivesWindow`, `KeyLasts` and `NotifiedOnce` relate what was done, in history variables, to what
would be accepted or sent now. `ForgottenOnlyWhenSettled` relates the outbox to the deliveries,
and `PurgeCatchesUp` says that there is a time, again and again, at which no row of the four tables is due. It is about a
backlog: a run that stops at its bound leaves rows behind, and the next ones must get them, though every table starts
at its oldest row again and a failure skips what comes after it. It does not say that the bound is enough for any load: when
more than 20 000 rows of a table become due every six hours, for ever, they pile up, and nothing in the code prevents that.

`LedgerIsTrue` and `NewReleaseFindsSchema` hold whatever befalls the Job; `OnlyDisturbedPodsFail` is about
the named lock, and `RolloutGoesThrough` about the migration that nobody disturbs. `ReportsAreTrue` compares what a
command says, when it says it, with the tables; `TenantIsWhole` compares them with the audit events.
`ListingIsSubtree` compares the loop of the walk down with reachability, in every hierarchy that changes by hand can
make, cycles included.

`KeepsPromise` says that the provider accepts nothing again after a success is on record, that the pipeline records no success that
did not happen, never replaces one, and settles every event. `QueuedUntilSettled` relates the outbox to
the queue; `PublishedIsFinal` is about relays that were overtaken, `FailedIsBuried` about the queue that
nobody waits for. The promise is kept under one crash or one error, not under every fault: a stalled job
breaks it (`delivery_success`), and so do a lost answer to the recording of a success, two errors, a crash
followed by an error, and the loss of Redis while a job runs. With the last one events are still settled, which is
what `EveryEventSettles` checks.

Bounds. Two payments are the fewest that can exceed a total together, and two refunds the fewest that can
exceed a payment together. Deadlocks between callbacks need two handlers; the inherited gap lock of
`CreateTx` needs three. Amounts of 1 and 2 against a total of 2 give an exact, a short and an excessive
capture. One fault at any point covers a crash at every statement and an answer lost after every commit.
For `Delivery`, two processes are the fewest that can overtake each other, two attempts the fewest with a
first and a last one, two events the fewest in a batch, and the second fault is one that strikes the
recovery from the first. In `CreateTx` keys do not interact (an inherited gap lock is put on its own key
only), so one is enough there. `MaxVersion` bounds the version of a row, in the guards of what commits, and is larger than any
history of these payments can reach. In `WebhookTx` the requests of operators are the constant `StatusChanges`: every
one the DTO admits in `webhooks`, none in `webhook_retries`. `webhooks`
has symmetric handlers, and two of them: with the captures of one and the refunds of the other every pair of statements meets.
In `retention` the days, the window and the skew are 1, so that each boundary (older than, as old as, not as old as) is an age, and
receipts are kept for the shortest time the settings admit. The three attempts of the notification are one more than the two batches
of one that a run makes of a table, so a run stops at its bound with a row left; the other tables go through the same `purgeInBatches`
and have one row each. One key, one event and one notification are enough since rows of a table are purged independently but for the
batch, and a second payment and invoice let the altered body take effect if it could; both bodies tell of the same time
(`OneOccurrence`). In `onboarding` two changes by hand make every cycle and cut of a chain of three at a
`Depth` of 2, where chain and depth differ by one as they must for the walks to differ; two disturbances are a death and
another one during the recovery, counted anew after the rollout. `ColumnMax` is small so that totals are on both sides of it.
Every type invariant is proved (section 4); those of `WebhookTx`, `CreateTx` and `Onboarding` are checked by their runs too.
`CHECK_DEADLOCK FALSE` is said for `billing` and `retention`, whose histories end.

Fairness. `TxSpec` assumes that a replica goes on with the request it has begun, that MySQL's deadlock
detection is on (its default) and that a waiting INSERT is granted a gap that comes free again and again
(strong fairness: MySQL grants waiting locks when their holders release them, so a newcomer cannot take
the gap first for ever). Nothing is assumed of senders or faults. `CreateSpec` needs weak fairness only.
`RetriesGetThrough` is checked for captures: a refund that the provider keeps repeating although it is
answered 409 can, in ties between two transactions that have both only read, make the same capture the
victim every time.

`Delivery`'s `Spec` assumes of every process that it goes on polling (`setInterval`) and processing jobs,
and that claims, locks of dead processes and the retention of completed jobs run out. Nothing is assumed
of the provider, of faults or of the producers of events. BullMQ forgets completed jobs when others
complete, so the last assumption is that there is other traffic; it is needed only after the loss of
Redis, when a late failure can replace a success whose job is complete, until the job is forgotten and
added again.

`RetentionSpec` assumes of each worker that its timer fires and that a DELETE ends; that time passes, or that anybody sends
anything, is not assumed. `OnboardingSpec` assumes that the Job starts a first pod, that a pod that lives goes on, that
Argo rolls out what is ready, that a command goes on, that MySQL breaks deadlocks, and that a waiting lock is
granted when it comes free again and again (strong fairness, as above). It does not assume that pods are replaced or that
commands are run.

Seeded faults. Operators introduced by that word are plausible bugs of the definition that follows them;
`PROJECT.json` pairs every property with one that violates it.

### What was found

`webhook_race`: `scripts/smoke-test.sh:167-168` says of two callbacks that race for an invoice that "row
locking must serialize them so one succeeds and the other returns a business conflict". The trace shows
the other outcome. Both handlers look for their receipt (`payment.service.ts:80`) and lock the same gap;
one takes the invoice row, captures, and waits with its receipt's INSERT for the other's gap lock; the
other waits for the invoice row. MySQL rolls the second one back with `ER_LOCK_DEADLOCK`, which is not
`ER_DUP_ENTRY`, and it is answered 500. No money is affected, and a repetition gets through
(`webhook_retries`).

`delivery_success`: `docs/THREAT_MODEL.md:23` counts on a "durable success check" against duplicate
notifications. The check (`worker/src/main.ts:39`) reads the attempts of the event; but a second
execution of the same attempt writes to the same row (`:58-65`), and a late failure replaces `SUCCEEDED`
by `RETRYING`. The next attempt then sends again, and only the provider's idempotency header is left.

`delivery_reclaim`: `docs/ARCHITECTURE.md:54` says that after the loss of a worker or node "jobs are
reclaimed". Once they are. When the second worker dies on the job too, BullMQ fails it without running
the processor. There is then no terminal record, the `failed` handler (`:74`) skips a job that has
attempts left, and reconciliation adds an id that Redis still holds (`removeOnFail: false`), for ever and
without effect.

## 4. Proofs

`MinorSumTheorems` proves what a SUM does when a row is added or changed, for every finite table. On it
rest the theorems of `BillingProofs`, for any sets of invoices, payments, refunds, events, keys and
requests, and any version bound:

* `TypeCorrect`: `Spec => []TypeOK`;
* `CaptureSafety`: `Spec => []CapturedWithinTotal`;
* `StatusTruth`: `Spec => []StatusMatchesMoney`.

`StatusMatchesMoney` is inductive only together with facts about the payments: their amounts are positive
and their refunds within them, they name an invoice that exists, and the captured total is within the
invoice's. `MoneyInv` is the conjunction. The proof has one lemma per way of changing the payments (none,
one more, more refunded) that says how the two sums of every invoice change, and one step per action. It
assumes the named assumptions of `Billing`: requests are within the DTOs' bounds, the id sets are finite,
and `None` is no row.

`TrailProofs` proves, for as many of everything, that the tables tell one story:

* `StatusMoves`: `Spec => StatusFollowsTable`, from the types and, for every action, the statuses its guards let it
  find an invoice in;
* `TrailComplete`: `Spec => []TrailMatches`;
* `OneKeyEach`: `Spec => []OneInvoicePerKey`;
* `OneEffectEach`: `Spec => []EventEffectsOnce`;
* `RefundsAddUp`: `Spec => []RefundLedger`.

The invariants (`TrailInv`, `KeyedInv`, `MarkedInv`, `LedgerInv`) are the types with one statement per invoice, provider
event or payment. The first three say of a set that it is empty or a singleton where the properties speak of its
cardinality; the last one adds that amounts are positive and that a refund row names a payment that exists, so that a
new payment finds no refunds of it. The
trail has a lemma per action that brings it to one form, `Changes`: one version, one outbox event, one audit event.

`WebhookTxProofs` proves about `WebhookTx`, for any handlers, rows, callbacks, status changes and faults:

* `TxTypeCorrect`: `TxSafety => []TxTypeOK`;
* `AnswersAreOnRecord`: `TxSafety => []AnswerIsOnRecord`;
* `InsertsAreFree`: `TxSafety => []InsertsNeverCollide`;
* `ReadsAreCurrent`: `TxSafety => []ReadsStayCurrent`;
* `WebhookTxImplementsBilling`: `TxSafety => Spec`, the refinement;
* `RacesKeepTheMoney`: `TxSafety => [](CapturedWithinTotal /\ StatusMatchesMoney)`, which follows from the refinement and
  the theorems about `Billing`, as every other one of them would.

The invariant is `TxInv`. For every handler it says which locks it has at the statement it is at, and that what it has
read is what the tables say: the receipt that is not there, the payment, the invoice, the sum, the status computed from
them (`HandlerInv`, in nine parts). Of two handlers it says that what one has locked for itself the other has not locked
at all (`Exclusive`), gap locks included, and that a gap has no row in it (`GapsAreFree`). A step then has two sides: what
it does to its own handler, and that it cannot touch what the others have read, since a writer has an exclusive lock of
every row it writes. `Commit` computes from what the handler has read and so does what `Billing` does with the tables;
an operator's UPDATE checks the version it writes over, and needs no lock before it.

`CreateTxProofs` proves about `CreateTx`, for any handlers, keys, requests and faults:

* `CreateTypeCorrect`: `CreateSafety => []CreateTypeOK`;
* `AnswersAlwaysAgree`: `CreateSafety => []AnswersAgree`;
* `CreateTxImplementsBilling`: `CreateSafety => Spec`.

`CreateInv` says that two handlers at work have drawn two ids, both unused, and that who has come to its commit has the
exclusive lock of its key, of which there is no record; so one handler at most commits for a key, and all others end with
that one's record or an error. The inherited gap locks of `Bequeathed` are shared and do not matter to safety.

Both modules name what they assume: ids are naturals (an index has an order), `None` is no outcome, and the requests of
operators are within the DTO.

`DeliveryProofs` proves about `Delivery`, for any events, processes, bounds and faults:

* `TypeCorrect`: `Safety => []TypeOK`;
* `PublishedStaysPublished`: `Safety => PublishedIsFinal`;
* `PublishedIsQueued`: `Safety => []QueuedUntilSettled`, assuming `QueueSurvives`;
* `StepsKeepPromise`: every step is one of `AtLeastOnce` or a stutter (the safety half of `KeepsPromise`), assuming
  `FewFaults`;
* `SuccessLostOnlyIfUndermined`: `Safety /\ [][~Undermines]_vars => SuccessIsDurable`, whatever the faults;
  and its corollary `CrashesKeepSuccess`: `Safety => SuccessIsDurable` when the faults are crashes and lost records of failures.

That no job makes more than its attempts is inductive only with two more facts (`IInv`): a waiting or
active job has an attempt left and has not stalled too often, and a processor at work has an event and an
attempt of it. The second theorem needs of the invariant only that the outbox is a table; it follows from
the `WHERE` clauses, step by step.

`PublishedIsQueued` and `StepsKeepPromise` are false without a hypothesis on the faults, and so is that a success
stays; TLC shows it (`delivery_success`, `delivery_reclaim`, and section 3 on the promise). `QueueSurvives` admits
crashes, errors and answers in doubt, with as many crashes in all as a job may stall: another crash leaves a job
failed with its event open. `FewFaults` further excludes answers in doubt, and any second fault where errors may
happen: after an error of the relay's UPDATE an event is claimed and added again although it has been delivered and
its job forgotten, and an error of the new job's check records a failure over the success. Within them the number of
events, processes, attempts and crashes is arbitrary; `MaxStalled` is a constant. `QInv` relates the processor, its
job and the event's row, and owes every stall of a job to a crash. `PInv` adds to it that, as long as nothing has
failed, an event that was delivered is in no batch from which it could be added again.

`SuccessLostOnlyIfUndermined` restricts neither the kinds of faults nor their number; it says which steps a behaviour
must contain for a recorded success to be lost. There are four (`Undermines`): Redis loses the jobs while a processor
is at work; a job stalls while it is running, as in `delivery_success`; the answer of MySQL to the upsert of a success
is lost; or MySQL throws in an attempt that repeats a recorded success before it has seen that. TLC finds a loss for
each: the first three by themselves, the fourth after a crash or an error that lets a delivered event be worked on
again. No crash, expired claim, overtaken relay, error of the relay's, refusal or failure without a record leads to
it, however they are combined. The invariant is `DInv`: a processor at work holds its job, hence is the only one at
work on its event, and past its check there is no success on record. That the first of a batch is in the batch
(`First` is a CHOOSE of the least) needs that the naturals are well founded.

`OnboardingProofs` proves about `Onboarding`, for any pods, rows, disturbances, terminals, hierarchies and
requests:

* `RowsCorrect`: `OnboardingSafety => []RowsAddUp`. It rests on lemmas about the arithmetic (the tax is the
  nearest whole number and never more than is taxed) and about sums;
* `LedgerTruth`: `OnboardingSafety => []LedgerIsTrue`;
* `ReleaseGate`: `OnboardingSafety => []NewReleaseFindsSchema`;
* `LockKeepsApart`: `OnboardingSafety => []OnlyDisturbedPodsFail`;
* `WholeTenants`: `OnboardingSafety => []TenantIsWhole`;
* `TrueReports`: `OnboardingSafety => ReportsAreTrue`;
* `ListingIsRight`: `OnboardingSafety => []ListingIsSubtree`;
* `WalksFindTheSame`: `OnboardingSafety => WalksAgree`;
* `AnswersHold`: `OnboardingSafety => AnswerHoldsAtSomeTime`;
* `OnboardingTypeCorrect`: `OnboardingSafety => []OnboardingTypeOK`.

`LedgerIsTrue` and `NewReleaseFindsSchema` are not inductive. `MigrationInv` adds the progress of every pod (the statements before the one it is
at are in effect, and those of the files before), that a pod that has succeeded has seen everything in effect and granted the
access or was to grant none, and that no row lacks its merchant once the column is required. Pods keep out of each
other's way by none of this: these two hold without the named lock.

`LockKeepsApart` is what the lock is for. `LockInv` says that a pod at work has it, that what is in effect of `002` is a
beginning of it, and, while nothing has disturbed the migration, that what is in effect and not in the ledger was executed by the pod
that has the lock now. So no pod meets a statement that cannot be executed again.

`TenantInv` is to commands what `TxInv` is to callbacks: what a command has read is what the tables say, and is locked (the row, or the gap it
would be in); no two commands have an exclusive lock of one entry; and where a command holds a gap, nobody has inserted.
Changes by hand meet the same locks. `TenantIsWhole` is a part of it, and what a command reports is what it has read.

The walks are recursive, and the prover has no induction over recursive functions. What it has is that the naturals are
well founded (`LeastExists`), and a recursive function is a CHOOSE: `InductionOverSet` takes the statement to be proved as a
set of naturals, `UpToExists` and `LevelsExist` show by it that the functions chosen exist, and from then on `UpSteps` and
`LevelsStep` are all that is used of them. `LevelIsReached` is the induction step of `ListingIsRight`: who is found by a
query is the child of somebody who was found by the last one, even in a cycle. For the walk up, `Arrives` says that from
where it is now the rest of its way, which meets nobody a second time, leads to the actor; a query does not change that
(`StepArrives`). `WalkInv` says that an undisturbed walk arrives if and only if the store was in scope, and has come from the store
through the present hierarchy; a change behind it does not touch the rest of the way (`ArrivesElsewhere`), and one ahead of
it, or beside it, leaves the way it has come (`CameFromElsewhere`), so that it is as good as a walk of the new hierarchy.

Assumed are that `None` is no merchant, row, walk or checksum, and that no tenant has the marker `Chain` for a name, by which
the model tells the merchants of the previous release.

`RetentionProofs` proves about `Retention`, for any workers, rows, batches, periods and faults:

* `ReceiptsOutlive`: `RetentionSafety => []ReceiptOutlivesWindow`, from `ReceiptInv`: of every callback that took effect,
  the event is beyond the window, or with the skew beyond the retention, or its receipt is there and not older than the event
  but for the skew. No proof uses the ranges of the settings; the corollary `NoGapByDefault` takes receipts that are kept for
  the window and the skew, and has no gap;
* `KeysLast`: `RetentionSafety => KeyLasts`, from `KeyInv`, which relates the age of an invoice to that of its key's record;
* `NothingForgotten`: `RetentionSafety => []ForgottenOnlyWhenSettled`;
* `NothingTwice`: `RetentionSafety => []NotifiedOnce`;
* `RetentionTypes`: `RetentionSafety => []RetentionTypeOK`.

The two about notifications need `PipelineInv`: a job is for a row that is there; a success is on record for as long as
the row is; and what is settled and past its days has no job left. It is what the EXISTS of the outbox purge, the join of
the attempts purge and the order of the two are for.

Every safety property the passing runs check is thus a theorem, `QueuedUntilSettled` and the safety half of
`KeepsPromise` under the named hypotheses on the faults. Model-checked only is every liveness property, which is beyond the prover:
`EveryRequestEnds`, `RetriesGetThrough`, `EveryEventSettles`, `FailedIsBuried`, `PurgeCatchesUp`, `RolloutGoesThrough`,
`EveryCommandEnds` and the other half of `KeepsPromise`.

## 5. Plan

1. Done: `Billing`, `WebhookTx`, `CreateTx`, `Delivery`; `Retention`; `Migrations`, `Tenants`, `MerchantScope` and
   `InvoiceMath` with their composition; the theorems of section 4.
2. `Delivery` further: reconciliation at its limit of 100, the order in which the events of one invoice are notified, a
   relay that waits for Redis for ever.
3. Proofs: no safety property is left. What could be added are facts behind liveness that are safety themselves, such as that
   the wait cycles of `WebhookTx` are the ones deadlock detection breaks.

## 6. Not modelled

The components marked so in `PROJECT.json`. The guard, tokens and signatures decide who a request is from, and keep nothing:
the models let every well-formed, authentic request of every actor arrive at any time. Idempotency keys and fingerprints are
hashes, which `Billing` takes as numbers that need not be one-to-one. Health, metrics, the operations summary and logging
only read. The portal is a client without state of its own. Deployment, infrastructure and monitoring are configuration,
but for the Job and the sync waves of `Migrations`; the release and drill scripts call what is modelled or inspect it.
`seed-local.mjs` fills a development database.
