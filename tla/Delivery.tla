------------------------------ MODULE Delivery ------------------------------
(***************************************************************************)
(* From the outbox to the notification provider: the worker processes of   *)
(* apps/worker, each of them an OutboxRelay and a BullMQ worker, around    *)
(* the tables outbox_events and delivery_attempts in MySQL and the jobs    *)
(* BullMQ keeps in Redis.                                                  *)
(*                                                                         *)
(* MySQL and Redis share no transaction, so each await of the code is a    *)
(* step of its own, and a process may crash between any two.  Time is not  *)
(* counted: a claim, the lock of a job, a completed job or a back-off may  *)
(* run out at any time, as if the process had been slow.                   *)
(***************************************************************************)
EXTENDS Integers, FiniteSets

CONSTANTS
    Events,          \* outbox event ids, numbered in the order of their creation
    Processes,       \* worker replicas
    MaxAttempts,     \* config.maxAttempts
    ClaimLimit,      \* events per claim: 25
    ReconcileLimit,  \* events per reconciliation: 100
    MaxStalled,      \* BullMQ's maxStalledCount, left at its default of 1
    Faults,          \* the faults that may happen
    MaxFaults,       \* bound: how many of them do
    None

OutboxStatus == {"PENDING", "PROCESSING", "PUBLISHED"}
DeliveryStatus == {"SUCCEEDED", "RETRYING", "DEAD_LETTERED"}

ASSUME EventsAssumption == Events \subseteq Nat
ASSUME AttemptsAssumption == MaxAttempts \in Nat \ {0}
ASSUME BoundsAssumption == MaxStalled \in Nat /\ MaxFaults \in Nat
ASSUME NoneAssumption ==
    None \notin OutboxStatus /\ None \notin DeliveryStatus /\ None \notin Events
ASSUME FaultsAssumption ==
    Faults \subseteq {"crash", "error", "inDoubt", "lostRecord", "stall", "redisLoss"}

VARIABLES
    outbox,     \* event -> status of its row, or None
    claimed,    \* event -> whether its lock_until is still to come
    attempts,   \* event -> attempt number -> status of the attempt, or None
    jobs,       \* event -> [state, made, stalls, owner] or None
    dlq,        \* the events with a job in the dead-letter queue
    relay,      \* process -> where its poll is and the events it still has to handle
    task,       \* process -> where its job processor is, with which attempt
    accepted,   \* event -> how many times the provider has accepted it
    faults      \* how many faults there have been

mysql == <<outbox, claimed, attempts>>
redis == <<jobs, dlq>>
vars == <<mysql, redis, relay, task, accepted, faults>>

Terminal == {"SUCCEEDED", "DEAD_LETTERED"}

\* A delayed job waits too: only its back-off is left out.
Job == [state : {"waiting", "active", "completed", "failed"}, made : 0 .. MaxAttempts,
        stalls : 0 .. MaxStalled + 1, owner : Processes \cup {None}]

ASSUME NobodyAssumption == None \notin Job /\ None \notin Processes

Relay == [at : {"idle", "add", "mark", "requeue", "reconcile", "readd"}, todo : SUBSET Events]
IdleRelay == [at |-> "idle", todo |-> {}]

Task == [at : {"idle", "check", "send", "recordSuccess", "recordFailure",
               "complete", "fail", "bury"},
         event : Events \cup {None}, attempt : 0 .. MaxAttempts]
IdleTask == [at |-> "idle", event |-> None, attempt |-> 0]

TypeOK ==
    /\ outbox \in [Events -> OutboxStatus \cup {None}]
    /\ claimed \in [Events -> BOOLEAN]
    /\ attempts \in [Events -> [1 .. MaxAttempts -> DeliveryStatus \cup {None}]]
    /\ jobs \in [Events -> Job \cup {None}]
    /\ dlq \subseteq Events
    /\ relay \in [Processes -> Relay]
    /\ task \in [Processes -> Task]
    /\ accepted \in [Events -> Nat]
    /\ faults \in 0 .. MaxFaults
    /\ \A e \in Events : claimed[e] => outbox[e] = "PROCESSING"
    /\ \A p \in Processes : relay[p].at \in {"add", "mark", "requeue", "readd"} => relay[p].todo # {}

-----------------------------------------------------------------------------
Init ==
    /\ outbox = [e \in Events |-> None]
    /\ claimed = [e \in Events |-> FALSE]
    /\ attempts = [e \in Events |-> [n \in 1 .. MaxAttempts |-> None]]
    /\ jobs = [e \in Events |-> None]
    /\ dlq = {}
    /\ relay = [p \in Processes |-> IdleRelay]
    /\ task = [p \in Processes |-> IdleTask]
    /\ accepted = [e \in Events |-> 0]
    /\ faults = 0

May(fault) == fault \in Faults /\ faults < MaxFaults

Count(fault) == May(fault) /\ faults' = faults + 1

\* The API commits a transaction that inserts an outbox event.
Commit(e) ==
    /\ outbox[e] = None
    /\ outbox' = [outbox EXCEPT ![e] = "PENDING"]
    /\ UNCHANGED <<claimed, attempts, redis, relay, task, accepted, faults>>

-----------------------------------------------------------------------------
(* OutboxRelay                                                             *)

First(S) == CHOOSE e \in S : \A d \in S : e <= d

\* LIMIT: the oldest of S.
Oldest(S, limit) == {e \in S : Cardinality({d \in S : d < e}) < limit}

Claimable(e) == outbox[e] = "PENDING" \/ (outbox[e] = "PROCESSING" /\ ~claimed[e])

\* One transaction: SELECT ... FOR UPDATE SKIP LOCKED and its UPDATE.
Claim(p) ==
    LET batch == Oldest({e \in Events : Claimable(e)}, ClaimLimit) IN
    /\ relay[p].at = "idle"
    /\ outbox' = [e \in Events |-> IF e \in batch THEN "PROCESSING" ELSE outbox[e]]
    /\ claimed' = [e \in Events |-> claimed[e] \/ e \in batch]
    /\ relay' = [relay EXCEPT ![p] =
                    [at |-> IF batch = {} THEN "reconcile" ELSE "add", todo |-> batch]]
    /\ UNCHANGED <<attempts, redis, task, accepted, faults>>

NewJob == [state |-> "waiting", made |-> 0, stalls |-> 0, owner |-> None]

\* queue.add: BullMQ ignores a job whose id is there, in whatever state.
AddJob(e) == jobs' = IF jobs[e] = None THEN [jobs EXCEPT ![e] = NewJob] ELSE jobs

Add(p) ==
    /\ relay[p].at = "add"
    /\ AddJob(First(relay[p].todo))
    /\ relay' = [relay EXCEPT ![p].at = "mark"]
    /\ UNCHANGED <<mysql, dlq, task, accepted, faults>>

\* The event is dealt with; a poll that has dealt with all goes on to reconcile.
NextEvent(p, at) ==
    LET rest == relay[p].todo \ {First(relay[p].todo)} IN
    relay' = [relay EXCEPT ![p] =
                 [at |-> IF rest # {} THEN at
                         ELSE IF at = "add" THEN "reconcile" ELSE "idle",
                  todo |-> rest]]

\* Seeded fault: UPDATE ... WHERE id alone.
SetAny(e, status) ==
    /\ outbox' = [outbox EXCEPT ![e] = status]
    /\ claimed' = [claimed EXCEPT ![e] = FALSE]

\* UPDATE ... WHERE id AND status = PROCESSING.
SetProcessed(e, status) ==
    IF outbox[e] = "PROCESSING"
    THEN /\ outbox' = [outbox EXCEPT ![e] = status]
         /\ claimed' = [claimed EXCEPT ![e] = FALSE]
    ELSE UNCHANGED <<outbox, claimed>>

Mark(p) ==
    /\ relay[p].at = "mark"
    /\ SetProcessed(First(relay[p].todo), "PUBLISHED")
    /\ NextEvent(p, "add")
    /\ UNCHANGED <<attempts, redis, task, accepted, faults>>

\* Seeded fault: what queue.add throws is swallowed, and the event marked.
AddThrowsUnseen(p) ==
    /\ relay[p].at \in {"add", "mark"}
    /\ Count("error")
    /\ relay' = [relay EXCEPT ![p].at = "mark"]
    /\ UNCHANGED <<mysql, redis, task, accepted>>

\* Redis or MySQL throws, before or after it has done what was asked.
AddOrMarkThrows(p) ==
    /\ relay[p].at \in {"add", "mark"}
    /\ Count("error")
    /\ relay' = [relay EXCEPT ![p].at = "requeue"]
    /\ UNCHANGED <<mysql, redis, task, accepted>>

Requeue(p) ==
    /\ relay[p].at = "requeue"
    /\ SetProcessed(First(relay[p].todo), "PENDING")
    /\ NextEvent(p, "add")
    /\ UNCHANGED <<attempts, redis, task, accepted, faults>>

\* A claim runs out after 30 seconds, its process alive or not.
ClaimExpires(e) ==
    /\ claimed[e]
    /\ claimed' = [claimed EXCEPT ![e] = FALSE]
    /\ UNCHANGED <<outbox, attempts, redis, relay, task, accepted, faults>>

Settled(e) == \E n \in 1 .. MaxAttempts : attempts[e][n] \in Terminal

\* Seeded fault: NOT EXISTS a delivery attempt of any status.
Unattempted(e) == outbox[e] = "PUBLISHED" /\ \A n \in 1 .. MaxAttempts : attempts[e][n] = None

Undelivered(e) == outbox[e] = "PUBLISHED" /\ ~Settled(e)

\* The SELECT of reconcilePublished; which are the oldest to be published is
\* not kept, so any may be.
Reconcile(p) ==
    LET lost == {e \in Events : Undelivered(e)} IN
    /\ relay[p].at = "reconcile"
    /\ \E batch \in SUBSET lost :
          /\ Cardinality(batch) = IF Cardinality(lost) < ReconcileLimit
                                  THEN Cardinality(lost) ELSE ReconcileLimit
          /\ relay' = [relay EXCEPT ![p] =
                          IF batch = {} THEN IdleRelay ELSE [at |-> "readd", todo |-> batch]]
    /\ UNCHANGED <<mysql, redis, task, accepted, faults>>

ReAdd(p) ==
    /\ relay[p].at = "readd"
    /\ AddJob(First(relay[p].todo))
    /\ NextEvent(p, "readd")
    /\ UNCHANGED <<mysql, dlq, task, accepted, faults>>

RelayStep(p) ==
    \/ Claim(p)
    \/ Add(p)
    \/ Mark(p)
    \/ Requeue(p)
    \/ Reconcile(p)
    \/ ReAdd(p)

-----------------------------------------------------------------------------
(* The job processor                                                       *)

Goto(p, at) == task' = [task EXCEPT ![p].at = at]

\* BullMQ hands a waiting job to a process, with a lock on it.
Take(p, e) ==
    /\ task[p].at = "idle"
    /\ jobs[e] # None /\ jobs[e].state = "waiting"
    /\ jobs' = [jobs EXCEPT ![e].state = "active", ![e].owner = p]
    /\ task' = [task EXCEPT ![p] =
                   [at |-> "check", event |-> e, attempt |-> jobs[e].made + 1]]
    /\ UNCHANGED <<mysql, dlq, relay, accepted, faults>>

\* Seeded fault: only the attempts before this one are looked at.
DeliveredBefore(p) ==
    \E n \in 1 .. task[p].attempt - 1 : attempts[task[p].event][n] = "SUCCEEDED"

alreadyDelivered(p) ==
    \E n \in 1 .. MaxAttempts : attempts[task[p].event][n] = "SUCCEEDED"

Check(p) ==
    /\ task[p].at = "check"
    /\ Goto(p, IF alreadyDelivered(p) THEN "complete" ELSE "send")
    /\ UNCHANGED <<mysql, redis, relay, accepted, faults>>

\* The provider accepts and answers in time, accepts without an answer within
\* five seconds, or refuses.
Send(p) ==
    LET Accept == accepted' = [accepted EXCEPT ![task[p].event] = @ + 1] IN
    /\ task[p].at = "send"
    /\ \/ Goto(p, "recordSuccess") /\ Accept
       \/ Goto(p, "recordFailure") /\ Accept
       \/ Goto(p, "recordFailure") /\ UNCHANGED accepted
    /\ UNCHANGED <<mysql, redis, relay, faults>>

\* INSERT ... ON DUPLICATE KEY UPDATE by event and attempt number.
Upsert(p, status) ==
    attempts' = [attempts EXCEPT ![task[p].event][task[p].attempt] = status]

RecordSuccess(p) ==
    /\ task[p].at = "recordSuccess"
    /\ Upsert(p, "SUCCEEDED")
    /\ Goto(p, "complete")
    /\ UNCHANGED <<outbox, claimed, redis, relay, accepted, faults>>

\* MySQL throws within the try: the catch does not tell this from a refusal.
TryThrows(p) ==
    /\ task[p].at \in {"check", "recordSuccess"}
    /\ Count("error")
    /\ Goto(p, "recordFailure")
    /\ UNCHANGED <<mysql, redis, relay, accepted>>

finalAttempt(p) == task[p].attempt >= MaxAttempts

RecordFailure(p) ==
    /\ task[p].at = "recordFailure"
    /\ Upsert(p, IF finalAttempt(p) THEN "DEAD_LETTERED" ELSE "RETRYING")
    /\ Goto(p, "fail")
    /\ UNCHANGED <<outbox, claimed, redis, relay, accepted, faults>>

\* MySQL has recorded the success, but the answer is lost with the connection.
AnswerLost(p) ==
    /\ task[p].at = "recordSuccess"
    /\ Count("inDoubt")
    /\ Upsert(p, "SUCCEEDED")
    /\ Goto(p, "recordFailure")
    /\ UNCHANGED <<outbox, claimed, redis, relay, accepted>>

\* MySQL throws within the catch: the attempt fails without a record.
CatchThrows(p) ==
    /\ task[p].at = "recordFailure"
    /\ Count("lostRecord")
    /\ Goto(p, "fail")
    /\ UNCHANGED <<mysql, redis, relay, accepted>>

Holds(p) ==
    LET job == jobs[task[p].event] IN
    job # None /\ job.state = "active" /\ job.owner = p

\* The processor has returned: BullMQ completes the job, if the lock is still held.
Complete(p) ==
    /\ task[p].at = "complete"
    /\ jobs' = IF Holds(p) THEN [jobs EXCEPT ![task[p].event].state = "completed",
                                             ![task[p].event].owner = None]
                           ELSE jobs
    /\ task' = [task EXCEPT ![p] = IdleTask]
    /\ UNCHANGED <<mysql, dlq, relay, accepted, faults>>

\* Seeded fault: > for >=.
ExhaustedOneLater(made) == made > MaxAttempts

\* The condition of the "failed" handler.
Exhausted(made) == made >= MaxAttempts

\* The processor has thrown: BullMQ retries the job or, after the last
\* attempt, fails it, and emits "failed" either way.
Fail(p) ==
    LET e == task[p].event
        made == jobs[e].made + 1
    IN  /\ task[p].at = "fail"
        /\ IF Holds(p)
           THEN /\ jobs' = [jobs EXCEPT ![e] =
                              [state |-> IF made >= MaxAttempts THEN "failed" ELSE "waiting",
                               made |-> made, stalls |-> @.stalls, owner |-> None]]
                /\ task' = [task EXCEPT ![p] = IF Exhausted(made) THEN [@ EXCEPT !.at = "bury"]
                                               ELSE IdleTask]
           ELSE /\ task' = [task EXCEPT ![p] = IdleTask]
                /\ UNCHANGED jobs
        /\ UNCHANGED <<mysql, dlq, relay, accepted, faults>>

\* The handler adds to the dead-letter queue and waits for nothing.
Bury(p) ==
    /\ task[p].at = "bury"
    /\ dlq' = dlq \cup {task[p].event}
    /\ task' = [task EXCEPT ![p] = IdleTask]
    /\ UNCHANGED <<mysql, jobs, relay, accepted, faults>>

TaskStep(p) ==
    \/ \E e \in Events : Take(p, e)
    \/ Check(p)
    \/ Send(p)
    \/ RecordSuccess(p)
    \/ RecordFailure(p)
    \/ Complete(p)
    \/ Fail(p)
    \/ Bury(p)

-----------------------------------------------------------------------------
(* BullMQ and Redis                                                        *)

\* The lock of an active job ran out: it waits again or, stalled too often, fails.
Stalled(e) ==
    jobs' = [jobs EXCEPT ![e].stalls = @ + 1, ![e].owner = None,
                         ![e].state = IF jobs[e].stalls < MaxStalled THEN "waiting" ELSE "failed"]

\* Nobody renews the lock of a process that crashed.
Reclaim(e) ==
    /\ jobs[e] # None /\ jobs[e].state = "active" /\ jobs[e].owner = None
    /\ Stalled(e)
    /\ UNCHANGED <<mysql, dlq, relay, task, accepted, faults>>

\* A process that is alive was too slow to renew it.
StallsWhileRunning(e) ==
    /\ jobs[e] # None /\ jobs[e].state = "active" /\ jobs[e].owner # None
    /\ Count("stall")
    /\ Stalled(e)
    /\ UNCHANGED <<mysql, dlq, relay, task, accepted>>

\* removeOnComplete: after a day, or ten thousand younger ones.  No attempt
\* takes that long, and no poll that found the event undelivered before it was.
ForgetCompleted(e) ==
    /\ \A p \in Processes : task[p].event # e
    /\ Undelivered(e) \/ \A p \in Processes : e \notin relay[p].todo
    /\ jobs[e] # None /\ jobs[e].state = "completed"
    /\ jobs' = [jobs EXCEPT ![e] = None]
    /\ UNCHANGED <<mysql, dlq, relay, task, accepted, faults>>

RedisLoss ==
    /\ Count("redisLoss")
    /\ jobs' = [e \in Events |-> None]
    /\ dlq' = {}
    /\ UNCHANGED <<mysql, relay, task, accepted>>

\* A process dies, by itself or for a poll that rejects, and starts anew.
Crash(p) ==
    /\ Count("crash")
    /\ relay' = [relay EXCEPT ![p] = IdleRelay]
    /\ task' = [task EXCEPT ![p] = IdleTask]
    /\ jobs' = [e \in Events |->
                   IF jobs[e] # None /\ jobs[e].owner = p
                   THEN [jobs[e] EXCEPT !.owner = None] ELSE jobs[e]]
    /\ UNCHANGED <<mysql, dlq, accepted>>

-----------------------------------------------------------------------------
Next ==
    \/ \E e \in Events : Commit(e)
    \/ \E p \in Processes : RelayStep(p)
    \/ \E p \in Processes : AddOrMarkThrows(p)
    \/ \E e \in Events : ClaimExpires(e)
    \/ \E p \in Processes : TaskStep(p)
    \/ \E p \in Processes : TryThrows(p)
    \/ \E p \in Processes : AnswerLost(p)
    \/ \E p \in Processes : CatchThrows(p)
    \/ \E e \in Events : Reclaim(e)
    \/ \E e \in Events : StallsWhileRunning(e)
    \/ \E e \in Events : ForgetCompleted(e)
    \/ RedisLoss
    \/ \E p \in Processes : Crash(p)

Safety == Init /\ [][Next]_vars

\* Every process goes on polling and processing; claims and locks run out, and
\* so does the time for which a completed job is kept.
Fairness ==
    /\ \A p \in Processes : WF_vars(RelayStep(p)) /\ WF_vars(TaskStep(p))
    /\ \A e \in Events :
          WF_vars(ClaimExpires(e)) /\ WF_vars(Reclaim(e)) /\ WF_vars(ForgetCompleted(e))

Spec == Safety /\ Fairness
-----------------------------------------------------------------------------
Recorded(e, status) == \E n \in 1 .. MaxAttempts : attempts[e][n] = status

verdict ==
    [e \in Events |-> IF Recorded(e, "SUCCEEDED") THEN "SUCCEEDED"
                      ELSE IF Recorded(e, "DEAD_LETTERED") THEN "DEAD_LETTERED" ELSE None]

Promise == INSTANCE AtLeastOnce WITH committed <- {e \in Events : outbox[e] # None}

\* The pipeline keeps its promise: nothing is accepted again once a success is
\* on record, a recorded success is true and stays, and every committed event is
\* delivered or given up.
KeepsPromise == Promise!Spec

\* A published event is in the queue, waiting or being worked on, until it is
\* settled: no order of adding, marking, crashing and expiring leaves it in
\* neither place.  (As long as Redis keeps its data.)
QueuedUntilSettled ==
    \A e \in Events : outbox[e] = "PUBLISHED" /\ ~Settled(e) =>
        jobs[e] # None /\ jobs[e].state \in {"waiting", "active"}

\* A relay that was overtaken, for it was slow, never takes back what another
\* one has published.
PublishedIsFinal ==
    [][\A e \in Events : outbox[e] = "PUBLISHED" => outbox'[e] = "PUBLISHED"]_vars

\* SLO.md: a committed event succeeds or reaches a terminal state.  Redis may
\* lose everything on the way.
EveryEventSettles == \A e \in Events : outbox[e] = "PENDING" ~> Settled(e)

\* A job that has failed for good gets into the dead-letter queue, unless Redis
\* loses it first.  (As long as no process dies.)
FailedIsBuried ==
    \A e \in Events :
        jobs[e] # None /\ jobs[e].state = "failed" ~> e \in dlq \/ jobs[e] = None

\* THREAT_MODEL.md relies on a durable success check: what is on record as
\* delivered stays so.
SuccessIsDurable ==
    [][\A e \in Events : Recorded(e, "SUCCEEDED") => Recorded(e, "SUCCEEDED")']_vars
=============================================================================
