--------------------------- MODULE DeliveryProofs ---------------------------
(***************************************************************************)
(* Proofs about Delivery: its types, with the bounds on the attempts and   *)
(* stalls of a job that they rest on; that a published event stays so and  *)
(* stays in the queue until it is settled; and that every step keeps the   *)
(* promise of AtLeastOnce, through the faults that let it; and what it     *)
(* takes to lose a success that is on record, through any of them.         *)
(***************************************************************************)
EXTENDS Delivery, WellFoundedInduction, TLAPS

\* A claim takes nothing but what may be claimed.
LEMMA OldestIsSubset ==
    ASSUME NEW S, NEW limit
    PROVE  Oldest(S, limit) \subseteq S
  BY DEF Oldest

\* No claim and no relay takes a published event back (the WHERE clauses of
\* claim and of both updates in poll).
LEMMA RelayKeepsPublished ==
    ASSUME outbox \in [Events -> OutboxStatus \cup {None}],
           NEW p \in Processes, RelayStep(p),
           NEW e \in Events, outbox[e] = "PUBLISHED"
    PROVE  outbox'[e] = "PUBLISHED"
  <1>1. CASE Claim(p)
    <2>1. PICK batch : /\ batch = Oldest({d \in Events : Claimable(d)}, ClaimLimit)
                       /\ outbox' = [d \in Events |-> IF d \in batch THEN "PROCESSING" ELSE outbox[d]]
      BY <1>1 DEF Claim
    <2>2. ~Claimable(e)
      BY DEF Claimable
    <2>3. e \notin batch
      BY <2>1, <2>2, OldestIsSubset
    <2> QED
      BY <2>1, <2>3
  <1>2. CASE Add(p) \/ Reconcile(p) \/ ReAdd(p)
    BY <1>2 DEF Add, Reconcile, ReAdd, mysql
  <1>3. CASE Mark(p)
    BY <1>3 DEF Mark, SetProcessed
  <1>4. CASE Requeue(p)
    BY <1>4 DEF Requeue, SetProcessed
  <1> QED
    BY <1>1, <1>2, <1>3, <1>4 DEF RelayStep

\* Nor does any other step.
LEMMA StepKeepsPublished ==
    ASSUME outbox \in [Events -> OutboxStatus \cup {None}], [Next]_vars,
           NEW e \in Events, outbox[e] = "PUBLISHED"
    PROVE  outbox'[e] = "PUBLISHED"
  <1>1. CASE \E d \in Events : Commit(d)
    <2>1. PICK d \in Events : Commit(d)
      BY <1>1
    <2>2. d # e
      BY <2>1, NoneAssumption DEF Commit, OutboxStatus
    <2> QED
      BY <2>1, <2>2 DEF Commit
  <1>2. CASE \E p \in Processes : RelayStep(p)
    BY <1>2, RelayKeepsPublished
  <1>3. CASE \E p \in Processes : AddOrMarkThrows(p)
    BY <1>3 DEF AddOrMarkThrows, mysql
  <1>4. CASE \E d \in Events : ClaimExpires(d)
    BY <1>4 DEF ClaimExpires
  <1>5. CASE \E p \in Processes : TaskStep(p)
    BY <1>5 DEF TaskStep, Take, Check, Send, RecordSuccess, RecordFailure, Complete, Fail, Bury, mysql
  <1>6. CASE \E p \in Processes : TryThrows(p) \/ AnswerLost(p) \/ CatchThrows(p) \/ Crash(p)
    BY <1>6 DEF TryThrows, AnswerLost, CatchThrows, Crash, mysql
  <1>7. CASE \/ \E d \in Events : Reclaim(d) \/ StallsWhileRunning(d) \/ ForgetCompleted(d)
             \/ RedisLoss
    BY <1>7 DEF Reclaim, StallsWhileRunning, ForgetCompleted, RedisLoss, mysql
  <1>8. CASE UNCHANGED vars
    BY <1>8 DEF vars, mysql
  <1> QED
    BY <1>1, <1>2, <1>3, <1>4, <1>5, <1>6, <1>7, <1>8 DEF Next

-----------------------------------------------------------------------------
(* The inductive invariant                                                 *)

\* A job that is waiting or active has an attempt left, and one more stall.
LiveJobsBounded ==
    \A e \in Events :
        jobs[e] # None /\ jobs[e].state \in {"waiting", "active"} =>
            jobs[e].made < MaxAttempts /\ jobs[e].stalls <= MaxStalled

\* A job processor at work has an event, and one of its attempts.
BusyTasksHaveEvent ==
    \A p \in Processes :
        task[p].at # "idle" => task[p].event \in Events /\ task[p].attempt # 0

IInv == TypeOK /\ LiveJobsBounded /\ BusyTasksHaveEvent

LEMMA InitInvariant == Init => IInv
<1> SUFFICES ASSUME Init PROVE IInv
  OBVIOUS
<1>1. TypeOK
  BY AttemptsAssumption, BoundsAssumption, NoneAssumption
  DEF Init, TypeOK, IdleRelay, Relay, IdleTask, Task, OutboxStatus
<1> QED
  BY <1>1, AttemptsAssumption DEF Init, IInv, LiveJobsBounded, BusyTasksHaveEvent, IdleTask

\* A job that is added has all its attempts before it.
LEMMA AddedJobsBounded ==
    ASSUME jobs \in [Events -> Job \cup {None}], LiveJobsBounded, NEW d, AddJob(d)
    PROVE  jobs' \in [Events -> Job \cup {None}] /\ LiveJobsBounded'
<1>1. NewJob \in Job /\ NewJob.made < MaxAttempts /\ NewJob.stalls <= MaxStalled
  BY AttemptsAssumption, BoundsAssumption DEF NewJob, Job
<1>2. jobs' \in [Events -> Job \cup {None}]
  BY <1>1, Zenon DEF AddJob
<1>3. \A e \in Events : jobs'[e] = jobs[e] \/ jobs'[e] = NewJob
  BY DEF AddJob
<1> QED
  BY <1>1, <1>2, <1>3 DEF LiveJobsBounded

\* The relay's steps touch no attempt and no job but those they add.
LEMMA RelayInvariant ==
    ASSUME IInv, NEW p \in Processes, RelayStep(p) \/ AddOrMarkThrows(p)
    PROVE  IInv'
<1> USE DEF IInv
<1>1. CASE Claim(p)
  BY <1>1, OldestIsSubset
  DEF Claim, TypeOK, LiveJobsBounded, BusyTasksHaveEvent, Relay, OutboxStatus, redis
<1>2. CASE Add(p)
  BY <1>2, AddedJobsBounded DEF Add, TypeOK, BusyTasksHaveEvent, Relay, mysql
<1>3. CASE Mark(p)
  BY <1>3
  DEF Mark, SetProcessed, NextEvent, TypeOK, LiveJobsBounded, BusyTasksHaveEvent, Relay, OutboxStatus, redis
<1>4. CASE Requeue(p)
  BY <1>4
  DEF Requeue, SetProcessed, NextEvent, TypeOK, LiveJobsBounded, BusyTasksHaveEvent, Relay, OutboxStatus, redis
<1>5. CASE Reconcile(p)
  BY <1>5
  DEF Reconcile, IdleRelay, TypeOK, LiveJobsBounded, BusyTasksHaveEvent, Relay, mysql, redis
<1>6. CASE ReAdd(p)
  BY <1>6, AddedJobsBounded DEF ReAdd, NextEvent, TypeOK, BusyTasksHaveEvent, Relay, mysql
<1>7. CASE AddOrMarkThrows(p)
  BY <1>7, BoundsAssumption
  DEF AddOrMarkThrows, Count, May, TypeOK, LiveJobsBounded, BusyTasksHaveEvent, Relay, mysql, redis
<1> QED
  BY <1>1, <1>2, <1>3, <1>4, <1>5, <1>6, <1>7 DEF RelayStep

\* A fault that is counted keeps to the bound.
LEMMA FaultsBounded ==
    ASSUME NEW fault, Count(fault), faults \in 0 .. MaxFaults
    PROVE  faults' \in 0 .. MaxFaults
BY BoundsAssumption DEF Count, May

\* A processor that goes on keeps its event and its attempt.
LEMMA GotoKeepsTask ==
    ASSUME task \in [Processes -> Task], BusyTasksHaveEvent,
           NEW p \in Processes, task[p].at # "idle",
           NEW at \in {"check", "send", "recordSuccess", "recordFailure", "complete", "fail", "bury"},
           Goto(p, at)
    PROVE  task' \in [Processes -> Task] /\ BusyTasksHaveEvent'
<1>1. task' \in [Processes -> Task]
  BY DEF Goto, Task
<1>2. \A q \in Processes : /\ task'[q].event = task[q].event
                           /\ task'[q].attempt = task[q].attempt
                           /\ task'[q].at # "idle" => task[q].at # "idle"
  BY DEF Goto, Task
<1> QED
  BY <1>1, <1>2 DEF BusyTasksHaveEvent

\* So does one that is done, or that was never at work.
LEMMA IdleKeepsTasks ==
    ASSUME task \in [Processes -> Task], BusyTasksHaveEvent,
           NEW p \in Processes, task' = [task EXCEPT ![p] = IdleTask]
    PROVE  task' \in [Processes -> Task] /\ BusyTasksHaveEvent'
<1>1. IdleTask \in Task /\ IdleTask.at = "idle"
  BY AttemptsAssumption DEF IdleTask, Task
<1>2. task' \in [Processes -> Task]
  BY <1>1, Zenon
<1>3. \A q \in Processes : task'[q] = task[q] \/ task'[q] = IdleTask
  OBVIOUS
<1> QED
  BY <1>1, <1>2, <1>3 DEF BusyTasksHaveEvent

\* A record of an attempt is one of the three.
LEMMA UpsertType ==
    ASSUME attempts \in [Events -> [1 .. MaxAttempts -> DeliveryStatus \cup {None}]],
           NEW p, NEW status \in DeliveryStatus, Upsert(p, status)
    PROVE  attempts' \in [Events -> [1 .. MaxAttempts -> DeliveryStatus \cup {None}]]
BY DEF Upsert

\* The steps of a job processor that leave the jobs alone.
LEMMA AttemptInvariant ==
    ASSUME IInv, NEW p \in Processes,
           \/ Check(p) \/ Send(p) \/ RecordSuccess(p) \/ RecordFailure(p) \/ Bury(p)
           \/ TryThrows(p) \/ AnswerLost(p) \/ CatchThrows(p)
    PROVE  IInv'
<1> USE DEF IInv
<1>1. CASE Check(p)
  BY <1>1, GotoKeepsTask DEF Check, TypeOK, LiveJobsBounded, mysql, redis
<1>2. CASE Send(p)
  <2>1. accepted' \in [Events -> Nat]
    BY <1>2 DEF Send, TypeOK
  <2>2. task' \in [Processes -> Task] /\ BusyTasksHaveEvent'
    BY <1>2, GotoKeepsTask DEF Send, TypeOK
  <2> QED
    BY <1>2, <2>1, <2>2 DEF Send, TypeOK, LiveJobsBounded, mysql, redis
<1>3. CASE RecordSuccess(p)
  BY <1>3, GotoKeepsTask, UpsertType
  DEF RecordSuccess, TypeOK, LiveJobsBounded, redis, DeliveryStatus
<1>4. CASE RecordFailure(p)
  BY <1>4, GotoKeepsTask, UpsertType
  DEF RecordFailure, TypeOK, LiveJobsBounded, redis, DeliveryStatus
<1>5. CASE Bury(p)
  BY <1>5, IdleKeepsTasks DEF Bury, TypeOK, LiveJobsBounded, BusyTasksHaveEvent, mysql
<1>6. CASE TryThrows(p)
  BY <1>6, GotoKeepsTask, FaultsBounded DEF TryThrows, TypeOK, LiveJobsBounded, mysql, redis
<1>7. CASE AnswerLost(p)
  BY <1>7, GotoKeepsTask, UpsertType, FaultsBounded
  DEF AnswerLost, TypeOK, LiveJobsBounded, redis, DeliveryStatus
<1>8. CASE CatchThrows(p)
  BY <1>8, GotoKeepsTask, FaultsBounded DEF CatchThrows, TypeOK, LiveJobsBounded, mysql, redis
<1> QED
  BY <1>1, <1>2, <1>3, <1>4, <1>5, <1>6, <1>7, <1>8

\* The steps in which BullMQ hands out a job, or takes it back.
LEMMA JobInvariant ==
    ASSUME IInv, NEW p \in Processes,
           (\E e \in Events : Take(p, e)) \/ Complete(p) \/ Fail(p)
    PROVE  IInv'
<1> USE DEF IInv
<1>1. CASE \E e \in Events : Take(p, e)
  <2>1. PICK e \in Events : Take(p, e)
    BY <1>1
  <2>2. jobs[e] \in Job /\ jobs[e].made < MaxAttempts /\ jobs[e].stalls <= MaxStalled
    BY <2>1 DEF Take, TypeOK, LiveJobsBounded
  <2>3. jobs' \in [Events -> Job \cup {None}] /\ LiveJobsBounded'
    BY <2>1, <2>2 DEF Take, TypeOK, LiveJobsBounded, Job
  <2>4. jobs[e].made + 1 \in 1 .. MaxAttempts
    BY <2>2, AttemptsAssumption DEF Job
  <2>5. task' \in [Processes -> Task] /\ BusyTasksHaveEvent'
    BY <2>1, <2>4 DEF Take, TypeOK, BusyTasksHaveEvent, Task
  <2> QED
    BY <2>1, <2>3, <2>5 DEF Take, TypeOK, mysql
<1>2. CASE Complete(p)
  <2>1. jobs' \in [Events -> Job \cup {None}] /\ LiveJobsBounded'
    BY <1>2 DEF Complete, Holds, TypeOK, LiveJobsBounded, Job
  <2> QED
    BY <1>2, <2>1, IdleKeepsTasks DEF Complete, TypeOK, mysql
<1>3. CASE Fail(p)
  <2>1. CASE Holds(p)
    <3> DEFINE e == task[p].event
               made == jobs[e].made + 1
    <3>1. e \in Events
      BY <1>3 DEF Fail, BusyTasksHaveEvent
    <3>2. jobs[e] \in Job /\ jobs[e].made < MaxAttempts /\ jobs[e].stalls <= MaxStalled
      BY <2>1, <3>1 DEF Holds, TypeOK, LiveJobsBounded
    <3>3. made \in 1 .. MaxAttempts
      BY <3>2, AttemptsAssumption DEF Job
    <3>4. jobs' \in [Events -> Job \cup {None}] /\ LiveJobsBounded'
      <4> DEFINE state == IF made >= MaxAttempts THEN "failed" ELSE "waiting"
                 job == [state |-> state, made |-> made, stalls |-> jobs[e].stalls, owner |-> None]
      <4>1. jobs' = [jobs EXCEPT ![e] = job]
        BY <1>3, <2>1, <3>1, <3>2, Zenon DEF Fail, TypeOK
      <4>2. job \in Job /\ job.stalls = jobs[e].stalls /\ job.made = made /\ job.state = state
        BY <3>2, <3>3, AttemptsAssumption DEF Job
      <4>3. state = "waiting" => made < MaxAttempts
        BY <3>3, AttemptsAssumption
      <4> HIDE DEF job, made
      <4>4. jobs' \in [Events -> Job \cup {None}]
        BY <4>1, <4>2, <3>1 DEF TypeOK
      <4>5. \A d \in Events : jobs'[d] = IF d = e THEN job ELSE jobs[d]
        BY <4>1, <3>1 DEF TypeOK
      <4> QED
        BY <4>2, <4>3, <4>4, <4>5, <3>2 DEF LiveJobsBounded
    <3>5. task' = [task EXCEPT ![p] = IdleTask] \/ Goto(p, "bury")
      BY <1>3, <2>1 DEF Fail, Goto
    <3>6. task' \in [Processes -> Task] /\ BusyTasksHaveEvent'
      BY <1>3, <3>5, IdleKeepsTasks, GotoKeepsTask DEF Fail, TypeOK
    <3> QED
      BY <1>3, <3>4, <3>6 DEF Fail, TypeOK, mysql
  <2>2. CASE ~Holds(p)
    BY <1>3, <2>2, IdleKeepsTasks DEF Fail, TypeOK, LiveJobsBounded, mysql
  <2> QED
    BY <2>1, <2>2
<1> QED
  BY <1>1, <1>2, <1>3

\* A stall too many leaves a job that is not live any more.
LEMMA StalledKeepsBounds ==
    ASSUME jobs \in [Events -> Job \cup {None}], LiveJobsBounded, NEW e \in Events,
           jobs[e] # None, jobs[e].state = "active", Stalled(e)
    PROVE  jobs' \in [Events -> Job \cup {None}] /\ LiveJobsBounded'
<1>1. jobs[e] \in Job /\ jobs[e].made < MaxAttempts /\ jobs[e].stalls <= MaxStalled
  BY DEF LiveJobsBounded
<1>2. jobs[e].stalls + 1 \in 0 .. MaxStalled + 1
  BY <1>1, BoundsAssumption DEF Job
<1>3. jobs[e].stalls < MaxStalled => jobs[e].stalls + 1 <= MaxStalled
  BY <1>1, BoundsAssumption DEF Job
<1> QED
  BY <1>1, <1>2, <1>3 DEF Stalled, LiveJobsBounded, Job

\* What BullMQ, Redis, the API and the operating system do by themselves.
LEMMA EnvironmentInvariant ==
    ASSUME IInv,
           \/ \E e \in Events : \/ Commit(e) \/ ClaimExpires(e) \/ Reclaim(e)
                               \/ StallsWhileRunning(e) \/ ForgetCompleted(e)
           \/ RedisLoss
           \/ \E p \in Processes : Crash(p)
    PROVE  IInv'
<1> USE DEF IInv
<1>1. ASSUME NEW e \in Events, Commit(e) PROVE IInv'
  BY <1>1, NoneAssumption
  DEF Commit, TypeOK, LiveJobsBounded, BusyTasksHaveEvent, OutboxStatus, redis
<1>2. ASSUME NEW e \in Events, ClaimExpires(e) PROVE IInv'
  BY <1>2 DEF ClaimExpires, TypeOK, LiveJobsBounded, BusyTasksHaveEvent, redis
<1>3. ASSUME NEW e \in Events, Reclaim(e) PROVE IInv'
  BY <1>3, StalledKeepsBounds DEF Reclaim, TypeOK, BusyTasksHaveEvent, mysql
<1>4. ASSUME NEW e \in Events, StallsWhileRunning(e) PROVE IInv'
  BY <1>4, StalledKeepsBounds, FaultsBounded
  DEF StallsWhileRunning, TypeOK, BusyTasksHaveEvent, mysql
<1>5. ASSUME NEW e \in Events, ForgetCompleted(e) PROVE IInv'
  BY <1>5 DEF ForgetCompleted, TypeOK, LiveJobsBounded, BusyTasksHaveEvent, mysql
<1>6. CASE RedisLoss
  BY <1>6, FaultsBounded DEF RedisLoss, TypeOK, LiveJobsBounded, BusyTasksHaveEvent, mysql
<1>7. ASSUME NEW p \in Processes, Crash(p) PROVE IInv'
  <2>1. jobs' \in [Events -> Job \cup {None}] /\ LiveJobsBounded'
    <3>1. \A job \in Job : /\ [job EXCEPT !.owner = None] \in Job
                           /\ [job EXCEPT !.owner = None].state = job.state
                           /\ [job EXCEPT !.owner = None].made = job.made
                           /\ [job EXCEPT !.owner = None].stalls = job.stalls
      BY DEF Job
    <3>2. jobs \in [Events -> Job \cup {None}]
      BY DEF TypeOK
    <3>3. \A e \in Events : /\ jobs'[e] \in Job \cup {None}
                            /\ \/ jobs'[e] = jobs[e]
                               \/ jobs[e] # None /\ jobs'[e] = [jobs[e] EXCEPT !.owner = None]
      <4> TAKE e \in Events
      <4>1. jobs'[e] = IF jobs[e] # None /\ jobs[e].owner = p
                       THEN [jobs[e] EXCEPT !.owner = None] ELSE jobs[e]
        BY <1>7 DEF Crash
      <4>2. jobs[e] \in Job \cup {None}
        BY <3>2
      <4> QED
        BY <3>1, <4>1, <4>2
    <3>4. jobs' \in [Events -> Job \cup {None}]
      <4>1. jobs' = [e \in Events |-> jobs'[e]]
        BY <1>7 DEF Crash
      <4> QED
        BY <3>3, <4>1
    <3>5. LiveJobsBounded'
      BY <3>1, <3>2, <3>3 DEF LiveJobsBounded
    <3> QED
      BY <3>4, <3>5
  <2>2. relay' \in [Processes -> Relay] /\ IdleRelay.at = "idle"
    BY <1>7 DEF Crash, TypeOK, IdleRelay, Relay
  <2>3. \A q \in Processes : relay'[q] = relay[q] \/ relay'[q] = IdleRelay
    BY <1>7 DEF Crash, TypeOK
  <2>4. task' \in [Processes -> Task] /\ BusyTasksHaveEvent'
    BY <1>7, IdleKeepsTasks DEF Crash, TypeOK
  <2>5. faults' \in 0 .. MaxFaults
    BY <1>7, FaultsBounded DEF Crash, TypeOK
  <2> QED
    BY <1>7, <2>1, <2>2, <2>3, <2>4, <2>5 DEF Crash, TypeOK, mysql
<1> QED
  BY <1>1, <1>2, <1>3, <1>4, <1>5, <1>6, <1>7

LEMMA StepInvariant == IInv /\ [Next]_vars => IInv'
<1> SUFFICES ASSUME IInv, [Next]_vars PROVE IInv'
  OBVIOUS
<1>1. CASE UNCHANGED vars
  BY <1>1
  DEF vars, mysql, redis, IInv, TypeOK, LiveJobsBounded, BusyTasksHaveEvent
<1> QED
  BY <1>1, RelayInvariant, AttemptInvariant, JobInvariant, EnvironmentInvariant
  DEF Next, TaskStep

\* Every state of the pipeline is of its type; no job is attempted or stalls
\* more often than it may be, whatever fails.
THEOREM TypeCorrect == Safety => []TypeOK
<1>1. IInv => TypeOK
  BY DEF IInv
<1> QED
  BY <1>1, InitInvariant, StepInvariant, PTL DEF Safety

\* No claim, relay or requeue takes a published event back, with any number of
\* events, processes and faults.
THEOREM PublishedStaysPublished == Safety => PublishedIsFinal
<1>1. IInv /\ [Next]_vars => [\A e \in Events : outbox[e] = "PUBLISHED" => outbox'[e] = "PUBLISHED"]_vars
  BY StepKeepsPublished DEF IInv, TypeOK
<1> QED
  BY <1>1, InitInvariant, StepInvariant, PTL DEF Safety, PublishedIsFinal

-----------------------------------------------------------------------------
(* A published event stays in the queue                                    *)

\* The faults after which it does.  A job that stalls while it runs, or an
\* attempt without a record, may leave the queue unsettled, and Redis may lose
\* it; a job survives as many crashes as it may stall.
QueueSurvives ==
    /\ Faults \subseteq {"crash", "error", "inDoubt"}
    /\ "crash" \in Faults => MaxFaults <= MaxStalled

Live(e) == jobs[e] # None /\ jobs[e].state \in {"waiting", "active"}

\* The job of a process that crashed.
Orphaned(e) == jobs[e].state = "active" /\ jobs[e].owner = None

crashes == IF "crash" \in Faults THEN faults ELSE 0

\* A job ends with its event settled; a published event has a job; every stall,
\* and every job about to stall, is owed to a crash.
JobOK(e) ==
    /\ jobs[e] # None => Live(e) \/ Settled(e)
    /\ outbox[e] = "PUBLISHED" => jobs[e] # None \/ Settled(e)
    /\ jobs[e] # None => jobs[e].stalls + (IF Orphaned(e) THEN 1 ELSE 0) <= crashes

Working(p) == task[p].at \notin {"idle", "bury"}

\* A processor at work holds its job, and its attempt is the job's next; it ends
\* the job with its event settled.
TaskOK(p) ==
    /\ Working(p) => Holds(p) /\ task[p].attempt = jobs[task[p].event].made + 1
    /\ task[p].at = "complete" => Settled(task[p].event)
    /\ task[p].at = "fail" /\ finalAttempt(p) => Settled(task[p].event)

\* A relay marks what it has added.
RelayOK(p) == relay[p].at = "mark" => jobs[First(relay[p].todo)] # None

QueueOK ==
    /\ \A e \in Events : JobOK(e)
    /\ \A p \in Processes : TaskOK(p) /\ RelayOK(p)

QInv == IInv /\ QueueOK

\* Some event of a batch is its first: none of a nonempty set of naturals is
\* followed downwards for ever.
LEMMA FirstIsIn ==
    ASSUME NEW S \in SUBSET Events, S # {}
    PROVE  First(S) \in S
<1> DEFINE below == {ss \in Nat \X Nat : ss[1] < ss[2]}
<1>1. IsWellFoundedOn(below, Nat)
  BY NatLessThanWellFounded DEF OpToRel
<1>2. S \subseteq Nat
  BY EventsAssumption
<1>3. PICK e \in S : \A d \in S : <<d, e>> \notin below
  <2> HIDE DEF below
  <2> QED
    BY <1>1, <1>2, WFMin
<1>4. ASSUME NEW d \in S PROVE e <= d
  <2>1. d \in Nat /\ e \in Nat
    BY <1>2
  <2>2. <<d, e>> \in below <=> d < e
    BY <2>1
  <2> QED
    BY <1>3, <2>1, <2>2
<1> QED
  BY <1>4 DEF First

\* What touches neither an event's job nor its attempts, nor publishes it.
LEMMA JobFrame ==
    ASSUME NEW e \in Events, JobOK(e), faults \in Nat, faults' \in Nat, faults <= faults',
           jobs[e] # None => jobs[e].stalls \in Nat,
           jobs'[e] = jobs[e], attempts'[e] = attempts[e],
           outbox'[e] = "PUBLISHED" => outbox[e] = "PUBLISHED"
    PROVE  JobOK(e)'
<1>1. crashes \in Nat /\ crashes' \in Nat /\ crashes <= crashes'
  BY DEF crashes
<1>2. Live(e)' = Live(e) /\ Settled(e)' = Settled(e) /\ Orphaned(e)' = Orphaned(e)
  BY DEF Live, Settled, Orphaned
<1> DEFINE owed == IF Orphaned(e) THEN 1 ELSE 0
<1>3. owed \in Nat /\ owed' = owed
  BY <1>2
<1>4. jobs[e] # None => jobs[e].stalls + owed <= crashes'
  <2> HIDE DEF owed
  <2> QED
    BY <1>1, <1>3 DEF JobOK, owed
<1> QED
  BY <1>2, <1>3, <1>4 DEF JobOK

LEMMA TaskFrame ==
    ASSUME NEW p \in Processes, TaskOK(p), task'[p] = task[p],
           Working(p) => /\ jobs'[task[p].event] = jobs[task[p].event]
                         /\ attempts'[task[p].event] = attempts[task[p].event]
    PROVE  TaskOK(p)'
<1>1. Working(p)' = Working(p) /\ finalAttempt(p)' = finalAttempt(p)
  BY DEF Working, finalAttempt
<1>2. Working(p) => Holds(p)' = Holds(p) /\ Settled(task[p].event)' = Settled(task[p].event)
  BY DEF Holds, Settled
<1>3. task[p].at \in {"complete", "fail"} => Working(p)
  BY DEF Working
<1> QED
  BY <1>1, <1>2, <1>3 DEF TaskOK

\* No job goes, and the relay goes on, if it does, to something else.
LEMMA RelayFrame ==
    ASSUME NEW p \in Processes, RelayOK(p), relay[p].todo \in SUBSET Events,
           relay[p].at = "mark" => relay[p].todo # {},
           relay'[p] = relay[p] \/ relay'[p].at # "mark",
           \A e \in Events : jobs[e] # None /\ e \in relay[p].todo => jobs'[e] # None
    PROVE  RelayOK(p)'
BY FirstIsIn DEF RelayOK

\* What the relays do to the jobs and the outbox, if only a marked event is
\* published.
LEMMA RelayQueue ==
    ASSUME QInv, NEW p \in Processes, RelayStep(p) \/ AddOrMarkThrows(p)
    PROVE  QueueOK'
<1> USE DEF QInv, IInv, QueueOK
<1> DEFINE first == First(relay[p].todo)
<1>1. faults \in Nat /\ faults' \in Nat /\ faults <= faults'
  BY BoundsAssumption
  DEF TypeOK, RelayStep, Claim, Add, Mark, Requeue, Reconcile, ReAdd, AddOrMarkThrows, Count
<1>2. /\ task' = task /\ attempts' = attempts
      /\ \A q \in Processes \ {p} : relay'[q] = relay[q]
  BY DEF TypeOK, RelayStep, Claim, Add, Mark, Requeue, Reconcile, ReAdd, AddOrMarkThrows,
         NextEvent, mysql
<1>3. \A e \in Events : jobs[e] # None => jobs[e] \in Job /\ jobs[e].stalls \in Nat
  BY DEF TypeOK, Job
<1>4. \A q \in Processes : /\ relay[q].todo \in SUBSET Events
                           /\ relay[q].at = "mark" => relay[q].todo # {}
                           /\ Working(q) => task[q].event \in Events
  BY DEF TypeOK, Relay, Working, BusyTasksHaveEvent
<1>5. ASSUME jobs' = jobs,
             \A e \in Events : outbox'[e] = "PUBLISHED" => outbox[e] = "PUBLISHED",
             relay'[p].at # "mark"
      PROVE  QueueOK'
  <2>1. \A e \in Events : JobOK(e)'
    BY <1>1, <1>2, <1>3, <1>5, JobFrame
  <2>2. \A q \in Processes : TaskOK(q)'
    BY <1>2, <1>5, TaskFrame
  <2>3. \A q \in Processes : RelayOK(q)'
    BY <1>2, <1>4, <1>5, RelayFrame
  <2> QED
    BY <2>1, <2>2, <2>3
<1>6. ASSUME relay[p].todo # {}, AddJob(first), outbox' = outbox,
             relay'[p].at = "mark" => relay'[p].todo = relay[p].todo
      PROVE  QueueOK'
  <2>1. first \in Events
    BY <1>4, <1>6, FirstIsIn
  <2>2. \A e \in Events : jobs'[e] = IF e = first /\ jobs[e] = None THEN NewJob ELSE jobs[e]
    BY <1>6, <2>1 DEF AddJob, TypeOK
  <2>3. NewJob # None /\ NewJob.state = "waiting" /\ NewJob.stalls = 0
    <3>1. NewJob \in Job
      BY AttemptsAssumption, BoundsAssumption DEF NewJob, Job
    <3> QED
      BY <3>1, NobodyAssumption DEF NewJob
  <2>4. \A e \in Events : JobOK(e)'
    <3> TAKE e \in Events
    <3>1. CASE jobs'[e] = jobs[e]
      BY <1>1, <1>2, <1>3, <1>6, <3>1, JobFrame
    <3>2. CASE jobs'[e] = NewJob
      <4>1. crashes' \in Nat
        BY <1>1 DEF crashes
      <4>2. Live(e)' /\ ~Orphaned(e)'
        BY <2>3, <3>2 DEF Live, Orphaned
      <4> QED
        BY <2>3, <3>2, <4>1, <4>2 DEF JobOK
    <3> QED
      BY <2>2, <3>1, <3>2
  <2>5. \A q \in Processes : TaskOK(q)'
    <3> TAKE q \in Processes
    <3>1. Working(q) => jobs[task[q].event] # None
      BY DEF TaskOK, Holds
    <3> QED
      BY <1>2, <1>4, <2>2, <3>1, TaskFrame
  <2>6. \A e \in Events : jobs[e] # None => jobs'[e] # None
    BY <2>2
  <2>7. \A q \in Processes \ {p} : RelayOK(q)'
    BY <1>2, <1>4, <2>6, RelayFrame
  <2>8. RelayOK(p)'
    <3>1. jobs'[first] # None
      BY <2>1, <2>2, <2>3
    <3> QED
      BY <1>6, <3>1 DEF RelayOK
  <2> QED
    BY <2>4, <2>5, <2>7, <2>8
<1>7. CASE Claim(p)
  <2>1. /\ relay'[p].at # "mark" /\ jobs' = jobs
        /\ \A e \in Events : outbox'[e] = "PUBLISHED" => outbox[e] = "PUBLISHED"
    BY <1>7 DEF Claim, TypeOK, redis
  <2> QED
    BY <1>5, <2>1
<1>8. CASE Add(p)
  <2>1. relay[p].todo # {} /\ relay'[p].todo = relay[p].todo
    BY <1>8 DEF Add, TypeOK, Relay
  <2> QED
    BY <1>6, <1>8, <2>1 DEF Add, mysql
<1>9. CASE Mark(p)
  <2>1. relay[p].todo # {} /\ jobs[first] # None
    BY <1>9 DEF Mark, TypeOK, RelayOK
  <2>2. /\ jobs' = jobs /\ faults' = faults /\ relay'[p].at # "mark"
        /\ \A e \in Events : outbox'[e] = "PUBLISHED" => outbox[e] = "PUBLISHED" \/ e = first
    BY <1>9 DEF Mark, SetProcessed, NextEvent, TypeOK, redis
  <2>3. \A e \in Events \ {first} : JobOK(e)'
    BY <1>1, <1>2, <1>3, <2>2, JobFrame
  <2>4. ASSUME NEW e \in Events, e = first PROVE JobOK(e)'
    <3>1. Live(e)' = Live(e) /\ Settled(e)' = Settled(e) /\ Orphaned(e)' = Orphaned(e)
      BY <1>2, <2>2 DEF Live, Settled, Orphaned
    <3>2. crashes' = crashes
      BY <2>2 DEF crashes
    <3> QED
      BY <2>1, <2>2, <2>4, <3>1, <3>2 DEF JobOK
  <2>5. \A q \in Processes : TaskOK(q)' /\ RelayOK(q)'
    BY <1>2, <1>4, <2>2, TaskFrame, RelayFrame
  <2> QED
    BY <2>3, <2>4, <2>5
<1>10. CASE Requeue(p)
  <2>1. /\ relay'[p].at # "mark" /\ jobs' = jobs
        /\ \A e \in Events : outbox'[e] = "PUBLISHED" => outbox[e] = "PUBLISHED"
    BY <1>10 DEF Requeue, SetProcessed, NextEvent, TypeOK, redis
  <2> QED
    BY <1>5, <2>1
<1>11. CASE Reconcile(p)
  <2>1. relay'[p].at # "mark" /\ jobs' = jobs /\ outbox' = outbox
    BY <1>11 DEF Reconcile, IdleRelay, TypeOK, mysql, redis
  <2> QED
    BY <1>5, <2>1
<1>12. CASE ReAdd(p)
  <2>1. relay[p].todo # {} /\ relay'[p].at # "mark"
    BY <1>12 DEF ReAdd, NextEvent, TypeOK
  <2> QED
    BY <1>6, <1>12, <2>1 DEF ReAdd, mysql
<1>13. CASE AddOrMarkThrows(p)
  <2>1. relay'[p].at # "mark" /\ jobs' = jobs /\ outbox' = outbox
    BY <1>13 DEF AddOrMarkThrows, TypeOK, mysql, redis
  <2> QED
    BY <1>5, <2>1
<1> QED
  BY <1>7, <1>8, <1>9, <1>10, <1>11, <1>12, <1>13 DEF RelayStep

\* A processor writes under the attempt of a job it holds: no other is at work
\* on it, and the job is live.
LEMMA HolderIsAlone ==
    ASSUME QInv, NEW p \in Processes, Working(p)
    PROVE  /\ task[p].event \in Events
           /\ jobs[task[p].event] \in Job /\ Live(task[p].event) /\ ~Orphaned(task[p].event)
           /\ task[p].attempt \in 1 .. MaxAttempts
           /\ \A q \in Processes \ {p} : Working(q) => task[q].event # task[p].event
<1> USE DEF QInv, IInv, QueueOK
<1>1. task[p].event \in Events /\ task[p].attempt \in 1 .. MaxAttempts
  BY AttemptsAssumption DEF Working, BusyTasksHaveEvent, TypeOK, Task
<1>2. \A q \in Processes : Working(q) => Holds(q)
  BY DEF TaskOK
<1>3. jobs[task[p].event] \in Job /\ Live(task[p].event) /\ ~Orphaned(task[p].event)
  BY <1>1, <1>2, NobodyAssumption DEF Holds, Live, Orphaned, TypeOK
<1> QED
  BY <1>1, <1>2, <1>3 DEF Holds

\* The steps of a job processor that leave the jobs alone.
LEMMA AttemptQueue ==
    ASSUME QInv, QueueSurvives, NEW p \in Processes,
           \/ Check(p) \/ Send(p) \/ RecordSuccess(p) \/ RecordFailure(p) \/ Bury(p)
           \/ TryThrows(p) \/ AnswerLost(p) \/ CatchThrows(p)
    PROVE  QueueOK'
<1> USE DEF QInv, IInv, QueueOK
<1> DEFINE mine == task[p].event
<1>0. ~CatchThrows(p)
  BY DEF CatchThrows, Count, May, QueueSurvives
<1>1. faults \in Nat /\ faults' \in Nat /\ faults <= faults'
  BY <1>0, BoundsAssumption
  DEF TypeOK, Check, Send, RecordSuccess, RecordFailure, Bury, TryThrows, AnswerLost, Count
<1>2. outbox' = outbox /\ jobs' = jobs /\ relay' = relay
  BY <1>0 DEF Check, Send, RecordSuccess, RecordFailure, Bury, TryThrows, AnswerLost, mysql, redis
<1>3. \A q \in Processes \ {p} : task'[q] = task[q]
  BY <1>0
  DEF TypeOK, Check, Send, RecordSuccess, RecordFailure, Bury, TryThrows, AnswerLost, Goto
<1>4. attempts' # attempts => RecordSuccess(p) \/ RecordFailure(p) \/ AnswerLost(p)
  BY <1>0 DEF Check, Send, Bury, TryThrows, mysql
<1>5. \A e \in Events : attempts'[e] # attempts[e] => Working(p) /\ e = mine
  BY <1>4
  DEF TypeOK, RecordSuccess, RecordFailure, AnswerLost, Upsert, Working
<1>6. \A e \in Events : jobs[e] # None => jobs[e].stalls \in Nat
  BY DEF TypeOK, Job
<1>7. \A e \in Events : JobOK(e)'
  <2> TAKE e \in Events
  <2>1. CASE attempts'[e] = attempts[e]
    BY <1>1, <1>2, <1>6, <2>1, JobFrame
  <2>2. CASE attempts'[e] # attempts[e]
    <3>1. Live(e) /\ ~Orphaned(e)
      BY <1>5, <2>2, HolderIsAlone
    <3>2. Live(e)' /\ ~Orphaned(e)'
      BY <1>2, <3>1 DEF Live, Orphaned
    <3>3. crashes \in Nat /\ crashes' \in Nat /\ crashes <= crashes'
      BY <1>1 DEF crashes
    <3>4. jobs[e] # None /\ jobs[e].stalls + 0 <= crashes
      BY <3>1 DEF JobOK, Live
    <3> QED
      BY <1>2, <1>6, <3>2, <3>3, <3>4 DEF JobOK, Live
  <2> QED
    BY <2>1, <2>2
<1>8. \A q \in Processes \ {p} : TaskOK(q)'
  <2> TAKE q \in Processes \ {p}
  <2>1. Working(q) => attempts'[task[q].event] = attempts[task[q].event]
    BY <1>5, HolderIsAlone
  <2> QED
    BY <1>2, <1>3, <2>1, TaskFrame
<1>9. \A q \in Processes : RelayOK(q)'
  BY <1>2 DEF RelayOK
<1>10. ASSUME Working(p), NEW at, Goto(p, at),
              at = "complete" \/ (at = "fail" /\ finalAttempt(p)) =>
                  \A e \in Events : e = mine => Settled(e)'
       PROVE  TaskOK(p)'
  <2>1. task'[p].at = at /\ task'[p].event = mine /\ task'[p].attempt = task[p].attempt
    BY <1>10 DEF Goto, TypeOK, Task
  <2>2. Holds(p)' /\ task[p].attempt = jobs[mine].made + 1
    BY <1>2, <1>10, <2>1 DEF TaskOK, Holds
  <2> QED
    BY <1>2, <1>10, <2>1, <2>2, HolderIsAlone DEF TaskOK, finalAttempt
<1>11. ASSUME Working(p), NEW status \in Terminal, Upsert(p, status)
       PROVE  \A e \in Events : e = mine => Settled(e)'
  <2>1. attempts'[mine][task[p].attempt] = status
    BY <1>11, HolderIsAlone DEF Upsert, TypeOK
  <2> QED
    BY <1>11, <2>1, HolderIsAlone DEF Settled
<1>12. TaskOK(p)'
  <2>1. CASE Check(p)
    <3>1. attempts' = attempts /\ Working(p)
      BY <2>1 DEF Check, Working, mysql
    <3>2. alreadyDelivered(p) => \A e \in Events : e = mine => Settled(e)'
      BY <3>1 DEF alreadyDelivered, Settled, Terminal
    <3> QED
      BY <1>10, <2>1, <3>1, <3>2 DEF Check
  <2>2. CASE Send(p)
    BY <1>10, <2>2 DEF Send, Working
  <2>3. CASE RecordSuccess(p)
    BY <1>10, <1>11, <2>3 DEF RecordSuccess, Working, Terminal
  <2>4. CASE RecordFailure(p)
    BY <1>10, <1>11, <2>4 DEF RecordFailure, Working, Terminal
  <2>5. CASE Bury(p)
    BY <2>5 DEF Bury, TypeOK, TaskOK, Working, IdleTask
  <2>6. CASE TryThrows(p)
    BY <1>10, <2>6 DEF TryThrows, Working
  <2>7. CASE AnswerLost(p)
    BY <1>10, <2>7 DEF AnswerLost, Working
  <2> QED
    BY <1>0, <2>1, <2>2, <2>3, <2>4, <2>5, <2>6, <2>7
<1> QED
  BY <1>7, <1>8, <1>9, <1>12

\* The steps in which BullMQ hands out a job, or takes it back: an attempt that
\* ends the job has left its event settled.
LEMMA JobQueue ==
    ASSUME QInv, NEW p \in Processes,
           (\E e \in Events : Take(p, e)) \/ Complete(p) \/ Fail(p)
    PROVE  QueueOK'
<1> USE DEF QInv, IInv, QueueOK
<1>1. /\ outbox' = outbox /\ attempts' = attempts /\ relay' = relay /\ faults' = faults
      /\ faults \in Nat
      /\ \A q \in Processes \ {p} : task'[q] = task[q]
  <2>1. CASE \E e \in Events : Take(p, e)
    BY <2>1, BoundsAssumption DEF TypeOK, Take, mysql
  <2>2. CASE Complete(p)
    BY <2>2, BoundsAssumption DEF TypeOK, Complete, mysql
  <2>3. CASE Fail(p)
    <3>1. outbox' = outbox /\ attempts' = attempts /\ relay' = relay /\ faults' = faults
      BY <2>3 DEF Fail, mysql
    <3>2. \A q \in Processes \ {p} : task'[q] = task[q]
      BY <2>3 DEF Fail, TypeOK
    <3> QED
      BY <3>1, <3>2, BoundsAssumption DEF TypeOK
  <2> QED
    BY <2>1, <2>2, <2>3
<1>2. \A e \in Events : jobs[e] # None => jobs[e] \in Job /\ jobs[e].stalls \in Nat
  BY DEF TypeOK, Job
<1>3. ASSUME NEW e \in Events, jobs[e] # None, NEW job \in Job,
             jobs' = [jobs EXCEPT ![e] = job], job.stalls = jobs[e].stalls,
             job.state = "active" => job.owner # None,
             job.state \in {"waiting", "active"} \/ Settled(e),
             \A q \in Processes \ {p} : Working(q) => task[q].event # e,
             TaskOK(p)'
      PROVE  QueueOK'
  <2>1. \A d \in Events : jobs'[d] = IF d = e THEN job ELSE jobs[d]
    BY <1>3 DEF TypeOK
  <2>2. job # None
    BY <1>3, NobodyAssumption
  <2>3. \A d \in Events \ {e} : JobOK(d)'
    BY <1>1, <1>2, <2>1, JobFrame
  <2>4. JobOK(e)'
    <3>1. jobs'[e] = job /\ ~Orphaned(e)' /\ (Live(e)' \/ Settled(e)')
      BY <1>1, <1>3, <2>1, <2>2 DEF Live, Settled, Orphaned
    <3>2. crashes' = crashes /\ crashes \in Nat /\ jobs[e].stalls \in Nat
      BY <1>1, <1>2, <1>3 DEF crashes
    <3>3. jobs[e].stalls <= crashes
      <4> DEFINE owed == IF Orphaned(e) THEN 1 ELSE 0
      <4>1. owed \in Nat
        OBVIOUS
      <4>2. jobs[e].stalls + owed <= crashes
        BY <1>3 DEF JobOK
      <4> HIDE DEF owed
      <4> QED
        BY <3>2, <4>1, <4>2
    <3> QED
      BY <1>3, <2>2, <3>1, <3>2, <3>3 DEF JobOK
  <2>5. \A q \in Processes \ {p} : TaskOK(q)'
    <3> TAKE q \in Processes \ {p}
    <3>1. Working(q) => task[q].event \in Events /\ task[q].event # e
      BY <1>3, HolderIsAlone
    <3> QED
      BY <1>1, <2>1, <3>1, TaskFrame
  <2>6. \A q \in Processes : RelayOK(q)'
    <3>1. \A d \in Events : jobs[d] # None => jobs'[d] # None
      BY <2>1, <2>2
    <3> QED
      BY <1>1, <3>1, RelayFrame DEF TypeOK, Relay
  <2> QED
    BY <1>3, <2>3, <2>4, <2>5, <2>6
<1>4. ASSUME NEW e \in Events, Take(p, e) PROVE QueueOK'
  <2> DEFINE job == [jobs[e] EXCEPT !.state = "active", !.owner = p]
  <2>1. jobs[e] \in Job /\ jobs[e] # None
    BY <1>2, <1>4 DEF Take
  <2>2. /\ job \in Job /\ job.stalls = jobs[e].stalls /\ job.made = jobs[e].made
        /\ job.state = "active" /\ job.owner = p
    BY <2>1 DEF Job
  <2>3. jobs' = [jobs EXCEPT ![e] = job]
    BY <1>4 DEF Take, TypeOK
  <2> HIDE DEF job
  <2>4. \A q \in Processes : Working(q) => task[q].event # e
    BY <1>4 DEF Take, TaskOK, Holds
  <2>5. jobs'[e] = job
    BY <2>3 DEF TypeOK
  <2>6. TaskOK(p)'
    <3>1. /\ task'[p].at = "check" /\ task'[p].event = e
          /\ task'[p].attempt = jobs[e].made + 1
      BY <1>4 DEF Take, TypeOK
    <3> QED
      BY <2>2, <2>5, <3>1, NobodyAssumption DEF TaskOK, Holds, Working
  <2>7. p # None
    BY NobodyAssumption
  <2> QED
    BY <1>3, <2>1, <2>2, <2>3, <2>4, <2>6, <2>7
<1>5. ASSUME task' = [task EXCEPT ![p] = IdleTask] \/ Goto(p, "bury")
      PROVE  TaskOK(p)'
  <2>1. task'[p].at \in {"idle", "bury"}
    BY <1>5 DEF TypeOK, Goto, Task, IdleTask
  <2> QED
    BY <2>1 DEF TaskOK, Working
<1> DEFINE e == task[p].event
<1>6. CASE Complete(p)
  <2> DEFINE job == [jobs[e] EXCEPT !.state = "completed", !.owner = None]
  <2>1. Working(p) /\ Settled(e) /\ Holds(p)
    BY <1>6 DEF Complete, Working, TaskOK
  <2>2. job \in Job /\ job.stalls = jobs[e].stalls /\ job.state = "completed"
    BY <2>1, HolderIsAlone DEF Job
  <2>3. jobs' = [jobs EXCEPT ![e] = job]
    BY <1>6, <2>1, HolderIsAlone DEF Complete, TypeOK
  <2> HIDE DEF job
  <2> QED
    BY <1>3, <1>5, <1>6, <2>1, <2>2, <2>3, HolderIsAlone DEF Complete, Holds
<1>7. CASE Fail(p)
  <2> DEFINE made == jobs[e].made + 1
             state == IF made >= MaxAttempts THEN "failed" ELSE "waiting"
             job == [state |-> state, made |-> made, stalls |-> jobs[e].stalls, owner |-> None]
  <2>1. Working(p) /\ Holds(p) /\ task[p].attempt = made
    BY <1>7 DEF Fail, Working, TaskOK
  <2>2. e \in Events /\ jobs[e] \in Job /\ made \in 1 .. MaxAttempts
    BY <2>1, HolderIsAlone
  <2>3. state = "failed" => Settled(e)
    BY <1>7, <2>1 DEF Fail, TaskOK, finalAttempt
  <2>4. jobs' = [jobs EXCEPT ![e] = job]
    BY <1>7, <2>1, <2>2, Zenon DEF Fail, TypeOK
  <2>5. job \in Job /\ job.stalls = jobs[e].stalls /\ job.state = state
    BY <2>2, AttemptsAssumption DEF Job
  <2>6. state \in {"failed", "waiting"}
    OBVIOUS
  <2>7. TaskOK(p)'
    BY <1>5, <1>7, <2>1 DEF Fail, Goto
  <2> HIDE DEF job, state, made
  <2> QED
    BY <1>3, <2>1, <2>2, <2>3, <2>4, <2>5, <2>6, <2>7, HolderIsAlone DEF Holds
<1> QED
  BY <1>4, <1>6, <1>7

\* An orphaned job has a stall left for each crash still to come.
LEMMA ReclaimQueue ==
    ASSUME QInv, QueueSurvives, NEW e \in Events, Reclaim(e)
    PROVE  QueueOK'
<1> USE DEF QInv, IInv, QueueOK
<1> DEFINE job == [jobs[e] EXCEPT !.stalls = @ + 1, !.owner = None, !.state = "waiting"]
<1>1. jobs[e] \in Job /\ jobs[e] # None /\ Orphaned(e) /\ jobs[e].stalls \in Nat
  BY DEF Reclaim, TypeOK, Orphaned, Job
<1>2. jobs[e].stalls + 1 <= crashes
  BY <1>1 DEF JobOK
<1>3. crashes <= MaxStalled /\ crashes \in Nat
  <2>1. faults \in Nat /\ faults <= MaxFaults
    BY BoundsAssumption DEF TypeOK
  <2>2. "crash" \in Faults
    BY <1>1, <1>2, <2>1 DEF crashes
  <2> QED
    BY <2>1, <2>2, BoundsAssumption DEF QueueSurvives, crashes
<1>4. jobs[e].stalls < MaxStalled
  BY <1>1, <1>2, <1>3, BoundsAssumption
<1>5. jobs' = [jobs EXCEPT ![e] = job]
  BY <1>4 DEF Reclaim, Stalled, TypeOK
<1>6. job \in Job /\ job.stalls = jobs[e].stalls + 1 /\ job.state = "waiting"
  <2> DEFINE stalls == jobs[e].stalls + 1
  <2>1. stalls \in 0 .. MaxStalled + 1
    BY <1>1, <1>4, BoundsAssumption
  <2> HIDE DEF stalls
  <2>2. [jobs[e] EXCEPT !.stalls = stalls, !.owner = None, !.state = "waiting"] \in Job
    BY <1>1, <2>1 DEF Job
  <2> QED
    BY <1>1, <2>2 DEF Job, stalls
<1> HIDE DEF job
<1>7. \A d \in Events : jobs'[d] = IF d = e THEN job ELSE jobs[d]
  BY <1>5 DEF TypeOK
<1>8. job # None
  BY <1>6, NobodyAssumption
<1>9. /\ outbox' = outbox /\ attempts' = attempts /\ relay' = relay /\ task' = task
      /\ faults' = faults
  BY DEF Reclaim, mysql
<1>10. JobOK(e)'
  <2>1. Live(e)' /\ ~Orphaned(e)'
    BY <1>6, <1>7, <1>8 DEF Live, Orphaned
  <2>2. crashes' = crashes
    BY <1>9 DEF crashes
  <2> QED
    BY <1>1, <1>2, <1>6, <1>7, <1>8, <2>1, <2>2 DEF JobOK
<1>11. \A d \in Events \ {e} : JobOK(d)'
  <2>1. \A d \in Events : jobs[d] # None => jobs[d].stalls \in Nat
    BY DEF TypeOK, Job
  <2>2. faults \in Nat
    BY BoundsAssumption DEF TypeOK
  <2> QED
    BY <1>7, <1>9, <2>1, <2>2, JobFrame
<1>12. \A q \in Processes : TaskOK(q)'
  <2>1. \A q \in Processes : Working(q) => task[q].event \in Events /\ task[q].event # e
    BY <1>1, HolderIsAlone
  <2> QED
    BY <1>7, <1>9, <2>1, TaskFrame
<1>13. \A q \in Processes : RelayOK(q)'
  BY <1>7, <1>8, <1>9, RelayFrame DEF TypeOK, Relay
<1> QED
  BY <1>10, <1>11, <1>12, <1>13

\* What BullMQ forgets is settled, and no poll is about to mark it.
LEMMA ForgetQueue ==
    ASSUME QInv, NEW e \in Events, ForgetCompleted(e)
    PROVE  QueueOK'
<1> USE DEF QInv, IInv, QueueOK
<1>1. \A d \in Events : jobs'[d] = IF d = e THEN None ELSE jobs[d]
  BY DEF ForgetCompleted, TypeOK
<1>2. /\ outbox' = outbox /\ attempts' = attempts /\ relay' = relay /\ task' = task
      /\ faults' = faults
  BY DEF ForgetCompleted, mysql
<1>3. Settled(e)
  BY DEF ForgetCompleted, JobOK, Live
<1>4. JobOK(e)'
  BY <1>1, <1>2, <1>3 DEF JobOK, Settled
<1>5. \A d \in Events \ {e} : JobOK(d)'
  <2>1. \A d \in Events : jobs[d] # None => jobs[d].stalls \in Nat
    BY DEF TypeOK, Job
  <2>2. faults \in Nat
    BY BoundsAssumption DEF TypeOK
  <2> QED
    BY <1>1, <1>2, <2>1, <2>2, JobFrame
<1>6. \A q \in Processes : TaskOK(q)'
  <2>1. \A q \in Processes : Working(q) => task[q].event \in Events /\ task[q].event # e
    BY HolderIsAlone DEF ForgetCompleted
  <2> QED
    BY <1>1, <1>2, <2>1, TaskFrame
<1>7. \A q \in Processes : RelayOK(q)'
  <2>1. \A q \in Processes : e \notin relay[q].todo
    BY <1>3 DEF ForgetCompleted, Undelivered
  <2>2. \A q \in Processes : \A d \in Events :
           jobs[d] # None /\ d \in relay[q].todo => jobs'[d] # None
    BY <1>1, <2>1
  <2> QED
    BY <1>2, <2>2, RelayFrame DEF TypeOK, Relay
<1> QED
  BY <1>4, <1>5, <1>6, <1>7

\* A process that crashes leaves its jobs orphaned, and everything else to the
\* others.
LEMMA CrashQueue ==
    ASSUME QInv, NEW p \in Processes, Crash(p)
    PROVE  QueueOK'
<1> USE DEF QInv, IInv, QueueOK
<1>1. /\ outbox' = outbox /\ attempts' = attempts
      /\ "crash" \in Faults /\ faults \in Nat /\ faults' = faults + 1
  BY BoundsAssumption DEF Crash, Count, May, TypeOK, mysql
<1>2. crashes \in Nat /\ crashes' = crashes + 1
  BY <1>1 DEF crashes
<1>3. \A e \in Events : jobs[e] # None => jobs[e] \in Job /\ jobs[e].stalls \in Nat
  BY DEF TypeOK, Job
<1>4. \A e \in Events : jobs[e] # None =>
         /\ jobs'[e] # None /\ jobs'[e].state = jobs[e].state
         /\ jobs'[e].stalls = jobs[e].stalls /\ jobs'[e].made = jobs[e].made
         /\ jobs[e].owner # p => jobs'[e].owner = jobs[e].owner
  <2> SUFFICES ASSUME NEW e \in Events, jobs[e] # None
               PROVE  /\ jobs'[e] # None /\ jobs'[e].state = jobs[e].state
                      /\ jobs'[e].stalls = jobs[e].stalls /\ jobs'[e].made = jobs[e].made
                      /\ jobs[e].owner # p => jobs'[e].owner = jobs[e].owner
    OBVIOUS
  <2> DEFINE job == [jobs[e] EXCEPT !.owner = None]
  <2>1. /\ job \in Job /\ job.state = jobs[e].state /\ job.stalls = jobs[e].stalls
        /\ job.made = jobs[e].made
    BY <1>3 DEF Job
  <2>2. jobs'[e] = IF jobs[e].owner = p THEN job ELSE jobs[e]
    BY DEF Crash
  <2> HIDE DEF job
  <2> QED
    BY <2>1, <2>2, NobodyAssumption
<1>5. \A e \in Events : jobs[e] = None => jobs'[e] = None
  BY DEF Crash
<1>6. \A e \in Events : JobOK(e)'
  <2> TAKE e \in Events
  <2>1. (jobs'[e] = None <=> jobs[e] = None) /\ Live(e)' = Live(e) /\ Settled(e)' = Settled(e)
    BY <1>1, <1>4, <1>5 DEF Live, Settled
  <2>2. ASSUME jobs[e] # None PROVE jobs'[e].stalls + (IF Orphaned(e)' THEN 1 ELSE 0) <= crashes'
    <3>1. jobs[e].stalls \in Nat /\ jobs'[e].stalls = jobs[e].stalls
      BY <1>3, <1>4, <2>2
    <3>2. jobs[e].stalls + (IF Orphaned(e) THEN 1 ELSE 0) <= crashes
      BY <2>2 DEF JobOK
    <3>3. jobs[e].stalls <= crashes
      BY <1>2, <3>1, <3>2
    <3> QED
      BY <1>2, <3>1, <3>3
  <2> QED
    BY <1>1, <2>1, <2>2 DEF JobOK
<1>7. \A q \in Processes : TaskOK(q)'
  <2> TAKE q \in Processes
  <2>1. CASE q = p
    <3>1. task'[q].at = "idle"
      BY <2>1 DEF Crash, TypeOK, IdleTask
    <3> QED
      BY <3>1 DEF TaskOK, Working
  <2>2. CASE q # p
    <3>1. task'[q] = task[q]
      BY <2>2 DEF Crash, TypeOK
    <3>2. Working(q) => /\ Holds(q)' /\ task[q].event \in Events
                        /\ jobs'[task[q].event].made = jobs[task[q].event].made
      BY <1>4, <2>2, <3>1, HolderIsAlone DEF TaskOK, Holds
    <3>3. \A e : Settled(e)' = Settled(e)
      BY <1>1 DEF Settled
    <3> QED
      BY <3>1, <3>2, <3>3 DEF TaskOK, Working, finalAttempt
  <2> QED
    BY <2>1, <2>2
<1>8. \A q \in Processes : RelayOK(q)'
  <2>1. \A q \in Processes : relay'[q] = relay[q] \/ relay'[q].at # "mark"
    BY DEF Crash, TypeOK, IdleRelay
  <2> QED
    BY <1>4, <2>1, RelayFrame DEF TypeOK, Relay
<1> QED
  BY <1>6, <1>7, <1>8

LEMMA QueueStep ==
    ASSUME QInv, QueueSurvives, [Next]_vars
    PROVE  QInv'
<1>1. ASSUME jobs' = jobs, attempts' = attempts, relay' = relay, task' = task, faults' = faults,
             \A e \in Events : outbox'[e] = "PUBLISHED" => outbox[e] = "PUBLISHED"
      PROVE  QueueOK'
  <2> USE <1>1 DEF QInv, IInv, QueueOK
  <2>1. \A e \in Events : JobOK(e)'
    <3>1. \A e \in Events : jobs[e] # None => jobs[e].stalls \in Nat
      BY DEF TypeOK, Job
    <3>2. faults \in Nat
      BY BoundsAssumption DEF TypeOK
    <3> QED
      BY <3>1, <3>2, JobFrame
  <2>2. \A q \in Processes : TaskOK(q)'
    BY TaskFrame
  <2> QED
    BY <2>1, <2>2 DEF RelayOK
<1>2. ASSUME NEW e \in Events, Commit(e) PROVE QueueOK'
  BY <1>1, <1>2 DEF Commit, redis, QInv, IInv, TypeOK
<1>3. ASSUME NEW e \in Events, ClaimExpires(e) PROVE QueueOK'
  BY <1>1, <1>3 DEF ClaimExpires, redis
<1>4. ASSUME UNCHANGED vars PROVE QueueOK'
  BY <1>1, <1>4 DEF vars, mysql, redis
<1>5. ASSUME NEW e \in Events PROVE ~StallsWhileRunning(e)
  BY DEF StallsWhileRunning, Count, May, QueueSurvives
<1>6. ~RedisLoss
  BY DEF RedisLoss, Count, May, QueueSurvives
<1>7. QueueOK'
  BY <1>2, <1>3, <1>4, <1>5, <1>6, RelayQueue, AttemptQueue, JobQueue, ReclaimQueue,
     ForgetQueue, CrashQueue
  DEF Next, TaskStep
<1> QED
  BY <1>7, StepInvariant DEF QInv

LEMMA QueueInit == Init => QInv
<1> SUFFICES ASSUME Init PROVE QInv
  OBVIOUS
<1>1. (\A e \in Events : JobOK(e)) /\ (\A p \in Processes : TaskOK(p) /\ RelayOK(p))
  BY NoneAssumption
  DEF Init, JobOK, TaskOK, RelayOK, Working, IdleTask, IdleRelay, OutboxStatus
<1> QED
  BY <1>1, InitInvariant DEF QInv, QueueOK

\* A published event is in the queue, waiting or being worked on, until it is
\* settled, with any number of events, relays and attempts, under any errors and
\* lost answers and as many crashes as a job may stall.
THEOREM PublishedIsQueued ==
    ASSUME QueueSurvives
    PROVE  Safety => []QueuedUntilSettled
<1>1. QInv => QueuedUntilSettled
  BY DEF QInv, QueueOK, JobOK, Live, QueuedUntilSettled
<1>2. QInv /\ [Next]_vars => QInv'
  BY QueueStep
<1> QED
  BY <1>1, <1>2, QueueInit, PTL DEF Safety

-----------------------------------------------------------------------------
(* The pipeline takes the steps it promised                                *)

\* The faults after which it does: crashes, or a single error.  After a second
\* fault an error hides the recorded success from the attempt that repeats it.
FewFaults ==
    /\ QueueSurvives
    /\ Faults \subseteq {"crash", "error"}
    /\ "error" \in Faults => MaxFaults <= 1

Delivered(e) == Recorded(e, "SUCCEEDED")

\* As long as nothing has failed, what may be claimed again is still being
\* handled by some relay, and no relay adds anew what has been delivered.
Undisturbed(e) ==
    /\ outbox[e] = "PROCESSING" =>
          \E p \in Processes : relay[p].at \in {"add", "mark"} /\ e \in relay[p].todo
    /\ outbox[e] \in {"PENDING", None} => jobs[e] = None /\ ~Delivered(e)
    /\ jobs[e] = None /\ (\E p \in Processes : e \in relay[p].todo) => ~Delivered(e)

\* A job is of a committed event; a recorded success is true; a job goes on after
\* it only by a fault; an attempt but the last is never the end.
EventOK(e) ==
    /\ jobs[e] # None => outbox[e] # None
    /\ Delivered(e) => accepted[e] > 0
    /\ Live(e) /\ Delivered(e) =>
          faults > 0 \/ \E p \in Processes : task[p].at = "complete" /\ task[p].event = e
    /\ \A n \in 1 .. MaxAttempts : attempts[e][n] = "DEAD_LETTERED" => n = MaxAttempts
    /\ faults = 0 => Undisturbed(e)

\* A processor past its check works on an event that is not delivered.
ProcessOK(p) ==
    /\ \A e \in relay[p].todo : outbox[e] # None
    /\ task[p].at = "recordSuccess" => accepted[task[p].event] > 0
    /\ task[p].at \in {"send", "recordSuccess", "recordFailure", "fail"} =>
          ~Delivered(task[p].event)
    /\ faults = 0 => relay[p].at # "requeue" /\ \A e \in relay[p].todo : outbox[e] # "PENDING"

PromiseOK ==
    /\ \A e \in Events : EventOK(e)
    /\ \A p \in Processes : ProcessOK(p)

PInv == QInv /\ PromiseOK

\* The relays: what they may add anew was never delivered, unless something failed.
LEMMA RelayPromise ==
    ASSUME PInv, NEW p \in Processes, RelayStep(p) \/ AddOrMarkThrows(p)
    PROVE  PromiseOK' /\ (\A e \in Events : (outbox'[e] = None) = (outbox[e] = None))
<1> USE DEF PInv, PromiseOK
<1>0. TypeOK
  BY DEF QInv, IInv
<1>1. /\ task' = task /\ attempts' = attempts /\ accepted' = accepted
      /\ \A q \in Processes \ {p} : relay'[q] = relay[q]
  BY <1>0
  DEF TypeOK, RelayStep, Claim, Add, Mark, Requeue, Reconcile, ReAdd, AddOrMarkThrows,
      NextEvent, mysql
<1>2. faults \in Nat /\ faults' \in Nat /\ (faults' = faults \/ faults' > 0)
  BY <1>0, BoundsAssumption
  DEF TypeOK, RelayStep, Claim, Add, Mark, Requeue, Reconcile, ReAdd, AddOrMarkThrows, Count
<1>3. \A e \in Events : Delivered(e)' = Delivered(e)
  BY <1>1 DEF Delivered, Recorded
<1>4. \A q \in Processes : relay[q] \in Relay /\ relay[q].todo \in SUBSET Events
  BY <1>0 DEF TypeOK, Relay
<1>5. \A e \in Events : (outbox'[e] = None) = (outbox[e] = None)
  <2>1. CASE Claim(p)
    <3>1. PICK batch : /\ batch = Oldest({d \in Events : Claimable(d)}, ClaimLimit)
                       /\ outbox' = [d \in Events |-> IF d \in batch THEN "PROCESSING" ELSE outbox[d]]
      BY <2>1 DEF Claim
    <3>2. \A e \in batch : outbox[e] # None
      BY <3>1, OldestIsSubset, NoneAssumption DEF Claimable, OutboxStatus
    <3> QED
      BY <3>1, <3>2, NoneAssumption DEF OutboxStatus
  <2>2. CASE Mark(p)
    BY <1>0, <2>2, NoneAssumption DEF Mark, SetProcessed, TypeOK, OutboxStatus
  <2>3. CASE Requeue(p)
    BY <1>0, <2>3, NoneAssumption DEF Requeue, SetProcessed, TypeOK, OutboxStatus
  <2> QED
    BY <2>1, <2>2, <2>3 DEF RelayStep, Add, Reconcile, ReAdd, AddOrMarkThrows, mysql
<1>6. relay'[p].todo \subseteq relay[p].todo \/ Claim(p) \/ Reconcile(p)
  <2>1. CASE Add(p)
    BY <1>0, <2>1 DEF Add, TypeOK, Relay
  <2>2. CASE AddOrMarkThrows(p)
    BY <1>0, <2>2 DEF AddOrMarkThrows, TypeOK, Relay
  <2>3. CASE Mark(p) \/ Requeue(p) \/ ReAdd(p)
    BY <1>0, <2>3 DEF Mark, Requeue, ReAdd, NextEvent, TypeOK
  <2> QED
    BY <2>1, <2>2, <2>3 DEF RelayStep
<1>7. ASSUME Claim(p)
      PROVE  /\ relay'[p].todo \in SUBSET Events
             /\ relay'[p].todo # {} => relay'[p].at = "add"
             /\ \A e \in relay'[p].todo : Claimable(e) /\ outbox'[e] = "PROCESSING"
             /\ \A e \in Events \ relay'[p].todo : outbox'[e] = outbox[e]
             /\ jobs' = jobs
  <2> DEFINE batch == Oldest({d \in Events : Claimable(d)}, ClaimLimit)
  <2>1. relay'[p].todo = batch /\ (batch # {} => relay'[p].at = "add")
    BY <1>0, <1>7 DEF Claim, TypeOK
  <2>2. outbox' = [d \in Events |-> IF d \in batch THEN "PROCESSING" ELSE outbox[d]]
    BY <1>7 DEF Claim
  <2>3. batch \subseteq {d \in Events : Claimable(d)}
    BY OldestIsSubset
  <2>4. jobs' = jobs
    BY <1>7 DEF Claim, redis
  <2> HIDE DEF batch
  <2> QED
    BY <2>1, <2>2, <2>3, <2>4
<1>8. ASSUME Reconcile(p)
      PROVE  /\ relay'[p].todo \in SUBSET {e \in Events : Undelivered(e)}
             /\ outbox' = outbox /\ jobs' = jobs
  BY <1>0, <1>8 DEF Reconcile, IdleRelay, TypeOK, mysql, redis
<1>9. \A e \in Events :
         \/ jobs'[e] = jobs[e]
         \/ jobs[e] = None /\ jobs'[e] # None /\ e \in relay[p].todo
  <2>1. CASE Add(p) \/ ReAdd(p)
    <3>1. First(relay[p].todo) \in relay[p].todo
      BY <1>0, <1>4, <2>1, FirstIsIn DEF Add, ReAdd, TypeOK
    <3>2. NewJob # None
      BY AttemptsAssumption, BoundsAssumption, NobodyAssumption DEF NewJob, Job
    <3> QED
      BY <1>0, <2>1, <3>1, <3>2 DEF Add, ReAdd, AddJob, TypeOK
  <2>2. CASE ~(Add(p) \/ ReAdd(p))
    BY <1>7, <1>8, <2>2 DEF RelayStep, Mark, Requeue, AddOrMarkThrows, redis
  <2> QED
    BY <2>1, <2>2
<1>10. \A e \in Events : outbox'[e] = "PENDING" => outbox[e] = "PENDING" \/ faults' > 0
  <2>1. CASE Requeue(p)
    <3>1. faults # 0 /\ faults' = faults
      BY <2>1 DEF Requeue, ProcessOK
    <3> QED
      BY <1>2, <3>1
  <2>2. CASE Mark(p)
    BY <1>0, <2>2 DEF Mark, SetProcessed, TypeOK
  <2>3. CASE Claim(p)
    BY <1>7, <2>3
  <2> QED
    BY <1>8, <2>1, <2>2, <2>3 DEF RelayStep, Add, ReAdd, AddOrMarkThrows, mysql
<1>11. ASSUME faults' = 0, NEW e \in Events PROVE Undisturbed(e)'
  <2>1. faults = 0 /\ Undisturbed(e)
    BY <1>2, <1>11 DEF EventOK
  <2>2. outbox'[e] \in {"PENDING", None} => jobs'[e] = None /\ ~Delivered(e)
    <3>1. outbox'[e] \in {"PENDING", None} => outbox[e] \in {"PENDING", None}
      BY <1>2, <1>5, <1>10, <1>11
    <3> QED
      BY <1>9, <2>1, <3>1 DEF Undisturbed, ProcessOK
  <2>3. ASSUME jobs'[e] = None, NEW q \in Processes, e \in relay'[q].todo
        PROVE  ~Delivered(e)
    <3>1. jobs[e] = None
      BY <1>9, <2>3
    <3>2. CASE e \in relay[q].todo
      BY <2>1, <3>1, <3>2 DEF Undisturbed
    <3>3. CASE e \notin relay[q].todo
      <4>1. q = p
        BY <1>1, <2>3, <3>3
      <4>2. CASE Claim(p)
        BY <1>7, <2>1, <2>3, <3>1, <4>1, <4>2 DEF Claimable, Undisturbed
      <4>3. CASE Reconcile(p)
        BY <1>8, <2>3, <4>1, <4>3 DEF Undelivered, Settled, Delivered, Recorded, Terminal
      <4> QED
        BY <1>6, <2>3, <3>3, <4>1, <4>2, <4>3
    <3> QED
      BY <3>2, <3>3
  <2>4. ASSUME outbox'[e] = "PROCESSING"
        PROVE  \E q \in Processes : relay'[q].at \in {"add", "mark"} /\ e \in relay'[q].todo
    <3>1. CASE Claim(p) /\ e \in relay'[p].todo
      BY <1>7, <3>1
    <3>2. CASE ~(Claim(p) /\ e \in relay'[p].todo)
      <4>1. outbox[e] = "PROCESSING"
        <5>1. CASE Claim(p)
          BY <1>7, <2>4, <3>2, <5>1
        <5>2. CASE Mark(p)
          BY <1>0, <2>4, <5>2 DEF Mark, SetProcessed, TypeOK
        <5>3. CASE Requeue(p)
          BY <2>1, <5>3 DEF Requeue, ProcessOK
        <5> QED
          BY <1>8, <2>4, <5>1, <5>2, <5>3 DEF RelayStep, Add, ReAdd, AddOrMarkThrows, mysql
      <4>2. PICK q \in Processes : relay[q].at \in {"add", "mark"} /\ e \in relay[q].todo
        BY <2>1, <4>1 DEF Undisturbed
      <4>3. CASE q # p
        BY <1>1, <4>2, <4>3
      <4>4. CASE q = p
        <5>1. CASE Add(p)
          BY <1>0, <4>2, <4>4, <5>1 DEF Add, TypeOK, Relay
        <5>2. CASE Mark(p)
          <6>1. e # First(relay[p].todo)
            BY <1>0, <2>4, <5>2 DEF Mark, SetProcessed, TypeOK
          <6> QED
            BY <1>0, <4>2, <4>4, <5>2, <6>1 DEF Mark, NextEvent, TypeOK
        <5>3. ~AddOrMarkThrows(p)
          BY <1>2, <1>11, <2>1 DEF AddOrMarkThrows, Count
        <5> QED
          BY <4>2, <4>4, <5>1, <5>2, <5>3 DEF RelayStep, Claim, Requeue, Reconcile, ReAdd
      <4> QED
        BY <4>3, <4>4
    <3> QED
      BY <3>1, <3>2
  <2> QED
    BY <1>3, <2>2, <2>3, <2>4 DEF Undisturbed
<1>12. ASSUME NEW e \in Events PROVE EventOK(e)'
  <2>1. jobs'[e] # None => outbox'[e] # None
    BY <1>5, <1>9 DEF EventOK, ProcessOK
  <2>2. ASSUME Live(e)', Delivered(e), faults' = 0
        PROVE  \E q \in Processes : task[q].at = "complete" /\ task[q].event = e
    <3>1. faults = 0
      BY <1>2, <2>2
    <3>2. Live(e)
      BY <1>9, <2>2, <3>1 DEF Live, EventOK, Undisturbed
    <3> QED
      BY <2>2, <3>1, <3>2 DEF EventOK
  <2> QED
    BY <1>1, <1>2, <1>3, <1>11, <2>1, <2>2 DEF EventOK
<1>13. ASSUME NEW q \in Processes PROVE ProcessOK(q)'
  <2>1. \A e \in relay'[q].todo : outbox[e] # None
    <3>1. CASE relay'[q].todo \subseteq relay[q].todo
      BY <3>1 DEF ProcessOK
    <3>2. CASE Claim(p) /\ q = p
      BY <1>7, <3>2, NoneAssumption DEF Claimable, OutboxStatus
    <3>3. CASE Reconcile(p) /\ q = p
      BY <1>8, <3>3, NoneAssumption DEF Undelivered, OutboxStatus
    <3> QED
      BY <1>1, <1>6, <3>1, <3>2, <3>3
  <2>2. relay'[q].todo \subseteq Events
    BY <1>1, <1>4, <1>6, <1>7, <1>8
  <2>3. ASSUME faults' = 0 PROVE relay'[q].at # "requeue"
    <3>1. faults = 0 /\ relay[q].at # "requeue"
      BY <1>2, <2>3 DEF ProcessOK
    <3>2. ~AddOrMarkThrows(p)
      BY <1>2, <2>3, <3>1 DEF AddOrMarkThrows, Count
    <3>3. relay'[p].at # "requeue"
      <4>1. CASE Claim(p)
        BY <1>0, <4>1 DEF Claim, TypeOK
      <4>2. CASE Add(p)
        BY <1>0, <4>2 DEF Add, TypeOK, Relay
      <4>3. CASE Reconcile(p)
        BY <1>0, <4>3 DEF Reconcile, IdleRelay, TypeOK
      <4>4. CASE Mark(p) \/ Requeue(p) \/ ReAdd(p)
        BY <1>0, <4>4 DEF Mark, Requeue, ReAdd, NextEvent, TypeOK
      <4> QED
        BY <3>2, <4>1, <4>2, <4>3, <4>4 DEF RelayStep
    <3> QED
      BY <1>1, <3>1, <3>3
  <2>4. ASSUME faults' = 0, NEW e \in relay'[q].todo PROVE outbox'[e] # "PENDING"
    <3>1. faults = 0 /\ e \in Events
      BY <1>2, <2>2, <2>4
    <3>2. CASE Claim(p) /\ e \in relay'[p].todo
      BY <1>7, <3>2
    <3>3. CASE Reconcile(p) /\ e \in relay'[p].todo
      BY <1>8, <3>3 DEF Undelivered
    <3>4. CASE e \in relay[q].todo
      BY <1>2, <1>10, <2>4, <3>1, <3>4 DEF ProcessOK
    <3> QED
      BY <1>1, <1>6, <2>4, <3>2, <3>3, <3>4
  <2> QED
    BY <1>1, <1>3, <1>5, <2>1, <2>2, <2>3, <2>4 DEF ProcessOK, Delivered, Recorded
<1> QED
  BY <1>5, <1>12, <1>13

\* What an attempt writes is found under its number, and nowhere else.
LEMMA UpsertValue ==
    ASSUME PInv, NEW p \in Processes, Working(p), NEW status, Upsert(p, status)
    PROVE  \A e \in Events : \A n \in 1 .. MaxAttempts :
              attempts'[e][n] = IF e = task[p].event /\ n = task[p].attempt
                                THEN status ELSE attempts[e][n]
<1>1. attempts \in [Events -> [1 .. MaxAttempts -> DeliveryStatus \cup {None}]]
  BY DEF PInv, QInv, IInv, TypeOK
<1>2. task[p].event \in Events /\ task[p].attempt \in 1 .. MaxAttempts
  BY HolderIsAlone DEF PInv
<1> QED
  BY <1>1, <1>2 DEF Upsert

\* No error strikes an attempt that repeats a recorded success.
LEMMA ErrorFindsNoSuccess ==
    ASSUME PInv, FewFaults, NEW p \in Processes, TryThrows(p)
    PROVE  ~Delivered(task[p].event)
<1> USE DEF PInv, PromiseOK
<1> DEFINE mine == task[p].event
<1>1. CASE task[p].at = "recordSuccess"
  BY <1>1 DEF ProcessOK
<1>2. CASE task[p].at = "check"
  <2>1. Working(p)
    BY <1>2 DEF Working
  <2>2. mine \in Events /\ Live(mine)
    BY <2>1, HolderIsAlone
  <2>3. faults = 0
    BY BoundsAssumption DEF TryThrows, Count, May, FewFaults, QInv, IInv, TypeOK
  <2>4. \A q \in Processes : ~(task[q].at = "complete" /\ task[q].event = mine)
    BY <1>2, <2>1, HolderIsAlone DEF Working
  <2> QED
    BY <2>2, <2>3, <2>4 DEF EventOK
<1> QED
  BY <1>1, <1>2 DEF TryThrows

\* An attempt goes past its check only if nothing has been delivered, and records
\* as a success only what the provider has accepted.
LEMMA AttemptPromise ==
    ASSUME PInv, FewFaults, NEW p \in Processes,
           \/ Check(p) \/ Send(p) \/ RecordSuccess(p) \/ RecordFailure(p) \/ Bury(p)
           \/ TryThrows(p)
    PROVE  PromiseOK'
<1> USE DEF PInv, PromiseOK
<1> DEFINE mine == task[p].event
<1>0. TypeOK
  BY DEF QInv, IInv
<1>1. outbox' = outbox /\ jobs' = jobs /\ relay' = relay
  BY DEF Check, Send, RecordSuccess, RecordFailure, Bury, TryThrows, mysql, redis
<1>2. faults \in Nat /\ faults' \in Nat /\ (faults' = faults \/ faults' > 0)
  BY <1>0, BoundsAssumption
  DEF TypeOK, Check, Send, RecordSuccess, RecordFailure, Bury, TryThrows, Count
<1>3. \A q \in Processes \ {p} : task'[q] = task[q]
  BY <1>0 DEF TypeOK, Check, Send, RecordSuccess, RecordFailure, Bury, TryThrows, Goto
<1>4. \A e \in Events : accepted[e] \in Nat /\ accepted'[e] \in Nat /\ accepted[e] <= accepted'[e]
  BY <1>0 DEF TypeOK, Check, Send, RecordSuccess, RecordFailure, Bury, TryThrows
<1>5. Working(p) \/ Bury(p)
  BY DEF Check, Send, RecordSuccess, RecordFailure, TryThrows, Working
<1>6. Working(p) => /\ mine \in Events /\ jobs[mine] # None
                    /\ task[p].attempt \in 1 .. MaxAttempts
                    /\ \A q \in Processes \ {p} : Working(q) => task[q].event # mine
  BY HolderIsAlone DEF Live
<1>7. \/ attempts' = attempts
      \/ RecordSuccess(p) \/ RecordFailure(p)
  BY DEF Check, Send, Bury, TryThrows, mysql
<1>8. \A e \in Events : \A n \in 1 .. MaxAttempts :
         attempts'[e][n] = IF (RecordSuccess(p) \/ RecordFailure(p)) /\ e = mine /\ n = task[p].attempt
                           THEN IF RecordSuccess(p) THEN "SUCCEEDED"
                                ELSE IF finalAttempt(p) THEN "DEAD_LETTERED" ELSE "RETRYING"
                           ELSE attempts[e][n]
  <2>1. CASE RecordSuccess(p)
    BY <2>1, UpsertValue DEF RecordSuccess, Working
  <2>2. CASE RecordFailure(p)
    <3>1. ~RecordSuccess(p) /\ Working(p)
      BY <2>2 DEF RecordSuccess, RecordFailure, Working
    <3> QED
      BY <2>2, <3>1, UpsertValue DEF RecordFailure
  <2>3. CASE ~(RecordSuccess(p) \/ RecordFailure(p))
    BY <1>7, <2>3
  <2> QED
    BY <2>1, <2>2, <2>3
<1>9. \A e \in Events : Delivered(e)' => Delivered(e) \/ (RecordSuccess(p) /\ e = mine)
  BY <1>8 DEF Delivered, Recorded
<1>10. ASSUME NEW e \in Events PROVE EventOK(e)'
  <2>1. Delivered(e)' => accepted'[e] > 0
    BY <1>4, <1>9 DEF EventOK, ProcessOK, RecordSuccess
  <2>2. ASSUME Live(e), Delivered(e)', faults' = 0
        PROVE  \E q \in Processes : task'[q].at = "complete" /\ task'[q].event = e
    <3>1. CASE RecordSuccess(p) /\ e = mine
      <4>1. task'[p].at = "complete" /\ task'[p].event = e
        BY <1>0, <3>1 DEF RecordSuccess, Goto, TypeOK, Task
      <4> QED
        BY <4>1
    <3>2. CASE Delivered(e)
      <4>1. PICK q \in Processes : task[q].at = "complete" /\ task[q].event = e
        BY <1>2, <2>2, <3>2 DEF EventOK
      <4>2. q # p
        BY <4>1 DEF Check, Send, RecordSuccess, RecordFailure, Bury, TryThrows
      <4> QED
        BY <1>3, <4>1, <4>2
    <3> QED
      BY <1>9, <2>2, <3>1, <3>2
  <2>3. \A n \in 1 .. MaxAttempts : attempts'[e][n] = "DEAD_LETTERED" => n = MaxAttempts
    BY <1>8, AttemptsAssumption DEF EventOK, finalAttempt
  <2>4. faults' = 0 => Undisturbed(e)'
    <3>1. RecordSuccess(p) => jobs[mine] # None
      BY <1>6 DEF RecordSuccess, Working
    <3> QED
      BY <1>1, <1>2, <1>9, <3>1 DEF EventOK, Undisturbed
  <2> QED
    BY <1>1, <1>2, <2>1, <2>2, <2>3, <2>4 DEF EventOK, Live
<1>11. ASSUME NEW q \in Processes, q # p PROVE ProcessOK(q)'
  <2>1. Working(q) => task[q].event \in Events
    BY HolderIsAlone
  <2>2. Working(q) => (Delivered(task[q].event)' => Delivered(task[q].event))
    <3>1. Working(q) /\ RecordSuccess(p) => task[q].event # mine
      BY <1>6, <1>11 DEF RecordSuccess, Working
    <3>2. task'[q].event = task[q].event
      BY <1>3, <1>11
    <3> QED
      BY <1>9, <2>1, <3>1, <3>2
  <2> QED
    BY <1>1, <1>2, <1>3, <1>4, <1>11, <2>1, <2>2 DEF ProcessOK, Working
<1>12. ASSUME NEW at, Goto(p, at), Working(p),
              at = "recordSuccess" => accepted'[mine] > 0,
              at \in {"send", "recordSuccess", "recordFailure", "fail"} =>
                  ~Delivered(mine) /\ ~RecordSuccess(p)
       PROVE  ProcessOK(p)'
  <2>1. task'[p].at = at /\ task'[p].event = mine
    BY <1>0, <1>12 DEF Goto, TypeOK, Task
  <2>2. at \in {"send", "recordSuccess", "recordFailure", "fail"} => ~Delivered(task[p].event)'
    BY <1>6, <1>9, <1>12, <2>1
  <2> QED
    BY <1>1, <1>2, <1>12, <2>1, <2>2 DEF ProcessOK
<1>13. ProcessOK(p)'
  <2>1. CASE Check(p)
    <3>1. alreadyDelivered(p) <=> Delivered(mine)
      BY DEF alreadyDelivered, Delivered, Recorded
    <3> QED
      BY <1>12, <2>1, <3>1 DEF Check, Working, RecordSuccess
  <2>2. CASE Send(p)
    <3>1. ~Delivered(mine) /\ ~RecordSuccess(p) /\ Working(p)
      BY <2>2 DEF Send, RecordSuccess, ProcessOK, Working
    <3>2. CASE Goto(p, "recordFailure")
      BY <1>12, <3>1, <3>2
    <3>3. CASE Goto(p, "recordSuccess") /\ accepted' = [accepted EXCEPT ![mine] = @ + 1]
      <4>1. accepted'[mine] > 0
        BY <1>0, <1>6, <3>1, <3>3 DEF TypeOK
      <4> QED
        BY <1>12, <3>1, <3>3, <4>1
    <3> QED
      BY <2>2, <3>2, <3>3 DEF Send
  <2>3. CASE RecordSuccess(p)
    BY <1>12, <2>3 DEF RecordSuccess, Working
  <2>4. CASE RecordFailure(p)
    BY <1>12, <2>4 DEF RecordFailure, RecordSuccess, ProcessOK, Working
  <2>5. CASE Bury(p)
    <3>1. task'[p].at = "idle"
      BY <1>0, <2>5 DEF Bury, TypeOK, IdleTask
    <3> QED
      BY <1>1, <1>2, <3>1 DEF ProcessOK
  <2>6. CASE TryThrows(p)
    <3>1. ~Delivered(mine)
      BY <2>6, ErrorFindsNoSuccess
    <3>2. ~RecordSuccess(p)
      BY <1>0, <2>6 DEF TryThrows, RecordSuccess, Goto, TypeOK, Task
    <3> QED
      BY <1>12, <2>6, <3>1, <3>2 DEF TryThrows, Working
  <2> QED
    BY <2>1, <2>2, <2>3, <2>4, <2>5, <2>6
<1> QED
  BY <1>10, <1>11, <1>13

\* A job that is handed out again was not delivered, unless something failed.
LEMMA JobPromise ==
    ASSUME PInv, NEW p \in Processes,
           (\E e \in Events : Take(p, e)) \/ Complete(p) \/ Fail(p)
    PROVE  PromiseOK'
<1> USE DEF PInv, PromiseOK
<1> DEFINE mine == task[p].event
<1>0. TypeOK /\ QueueOK
  BY DEF QInv, IInv
<1>1. /\ outbox' = outbox /\ attempts' = attempts /\ relay' = relay /\ accepted' = accepted
      /\ faults' = faults
  <2>1. CASE Fail(p)
    BY <2>1 DEF Fail, mysql
  <2>2. CASE Complete(p)
    BY <2>2 DEF Complete, mysql
  <2>3. CASE \E e \in Events : Take(p, e)
    BY <2>3 DEF Take, mysql
  <2> QED
    BY <2>1, <2>2, <2>3
<1>2. \A q \in Processes \ {p} : task'[q] = task[q]
  <2>1. CASE Fail(p)
    BY <1>0, <2>1 DEF Fail, TypeOK
  <2>2. CASE Complete(p)
    BY <1>0, <2>2 DEF Complete, TypeOK
  <2>3. CASE \E e \in Events : Take(p, e)
    BY <1>0, <2>3 DEF Take, TypeOK
  <2> QED
    BY <2>1, <2>2, <2>3
<1>3. task'[p].at \in {"check", "idle", "bury"}
  <2>1. CASE Fail(p)
    <3>1. task' = [task EXCEPT ![p] = IdleTask] \/ Goto(p, "bury")
      BY <2>1 DEF Fail, Goto
    <3> QED
      BY <1>0, <3>1 DEF Goto, IdleTask, TypeOK, Task
  <2>2. CASE Complete(p)
    BY <1>0, <2>2 DEF Complete, TypeOK, IdleTask
  <2>3. CASE \E e \in Events : Take(p, e)
    BY <1>0, <2>3 DEF Take, TypeOK
  <2> QED
    BY <2>1, <2>2, <2>3
<1>4. ASSUME NEW e \in Events, NEW job \in Job, jobs[e] # None,
             jobs' = [jobs EXCEPT ![e] = job],
             faults = 0 /\ job.state \in {"waiting", "active"} => ~Delivered(e),
             task[p].at = "complete" => mine = e
      PROVE  PromiseOK'
  <2>1. \A d \in Events : jobs'[d] = IF d = e THEN job ELSE jobs[d]
    BY <1>0, <1>4 DEF TypeOK
  <2>2. job # None
    BY <1>4, NobodyAssumption
  <2>3. \A d \in Events : Delivered(d)' = Delivered(d)
    BY <1>1 DEF Delivered, Recorded
  <2>4. ASSUME NEW d \in Events PROVE EventOK(d)'
    <3>1. ASSUME Live(d)', Delivered(d), faults = 0
          PROVE  \E q \in Processes : task'[q].at = "complete" /\ task'[q].event = d
      <4>1. d # e
        BY <1>4, <2>1, <3>1 DEF Live
      <4>2. PICK q \in Processes : task[q].at = "complete" /\ task[q].event = d
        BY <2>1, <3>1, <4>1 DEF EventOK, Live
      <4>3. q # p
        BY <1>4, <4>1, <4>2
      <4> QED
        BY <1>2, <4>2, <4>3
    <3>2. faults \in Nat
      BY <1>0, BoundsAssumption DEF TypeOK
    <3>3. faults = 0 => Undisturbed(d)'
      BY <1>1, <1>4, <2>1, <2>2, <2>3 DEF EventOK, Undisturbed
    <3> QED
      BY <1>1, <1>4, <2>1, <2>2, <2>3, <3>1, <3>2, <3>3 DEF EventOK
  <2>5. ASSUME NEW q \in Processes PROVE ProcessOK(q)'
    <3>1. CASE q = p
      BY <1>1, <1>3, <3>1 DEF ProcessOK
    <3>2. CASE q # p
      BY <1>1, <1>2, <3>2 DEF ProcessOK, Delivered, Recorded
    <3> QED
      BY <3>1, <3>2
  <2> QED
    BY <2>4, <2>5
<1>5. ASSUME NEW e \in Events, Take(p, e) PROVE PromiseOK'
  <2> DEFINE job == [jobs[e] EXCEPT !.state = "active", !.owner = p]
  <2>1. jobs[e] \in Job /\ jobs[e] # None
    BY <1>0, <1>5 DEF Take, TypeOK
  <2>2. job \in Job
    BY <2>1 DEF Job
  <2>3. jobs' = [jobs EXCEPT ![e] = job]
    BY <1>0, <1>5 DEF Take, TypeOK
  <2>4. \A q \in Processes : ~(task[q].at = "complete" /\ task[q].event = e)
    BY <1>0, <1>5 DEF Take, QueueOK, TaskOK, Holds, Working
  <2>5. faults = 0 => ~Delivered(e)
    BY <1>5, <2>4 DEF Take, EventOK, Live
  <2> HIDE DEF job
  <2> QED
    BY <1>4, <1>5, <2>1, <2>2, <2>3, <2>5 DEF Take
<1>6. CASE Complete(p)
  <2> DEFINE job == [jobs[mine] EXCEPT !.state = "completed", !.owner = None]
  <2>1. Working(p) /\ Holds(p)
    BY <1>0, <1>6 DEF Complete, Working, QueueOK, TaskOK
  <2>2. mine \in Events /\ jobs[mine] \in Job /\ jobs[mine] # None
    BY <2>1, HolderIsAlone DEF Live
  <2>3. job \in Job /\ job.state = "completed"
    BY <2>2 DEF Job
  <2>4. jobs' = [jobs EXCEPT ![mine] = job]
    BY <1>0, <1>6, <2>1, <2>2 DEF Complete, TypeOK
  <2> HIDE DEF job
  <2> QED
    BY <1>4, <2>2, <2>3, <2>4
<1>7. CASE Fail(p)
  <2> DEFINE made == jobs[mine].made + 1
             state == IF made >= MaxAttempts THEN "failed" ELSE "waiting"
             job == [state |-> state, made |-> made, stalls |-> jobs[mine].stalls, owner |-> None]
  <2>1. Working(p) /\ Holds(p) /\ task[p].attempt = made /\ ~Delivered(mine)
    BY <1>0, <1>7 DEF Fail, Working, QueueOK, TaskOK, ProcessOK
  <2>2. mine \in Events /\ jobs[mine] \in Job /\ jobs[mine] # None /\ made \in 1 .. MaxAttempts
    BY <2>1, HolderIsAlone DEF Live
  <2>3. jobs' = [jobs EXCEPT ![mine] = job]
    BY <1>0, <1>7, <2>1, <2>2, Zenon DEF Fail, TypeOK
  <2>4. job \in Job
    BY <2>2, AttemptsAssumption DEF Job
  <2> HIDE DEF job, made, state
  <2> QED
    BY <1>4, <2>1, <2>2, <2>3, <2>4
<1> QED
  BY <1>5, <1>6, <1>7

\* What BullMQ, the API and the operating system do by themselves.
LEMMA EnvironmentPromise ==
    ASSUME PInv,
           \/ \E e \in Events : Commit(e) \/ ClaimExpires(e) \/ Reclaim(e) \/ ForgetCompleted(e)
           \/ \E p \in Processes : Crash(p)
           \/ UNCHANGED vars
    PROVE  PromiseOK'
<1> USE DEF PInv, PromiseOK
<1>0. TypeOK /\ QueueOK /\ faults \in Nat
  BY BoundsAssumption DEF QInv, IInv, TypeOK
<1>1. attempts' = attempts /\ accepted' = accepted
  BY DEF Commit, ClaimExpires, Reclaim, ForgetCompleted, Crash, vars, mysql
<1>2. \A e \in Events : Delivered(e)' = Delivered(e)
  BY <1>1 DEF Delivered, Recorded
<1>3. ASSUME outbox' = outbox, relay' = relay, task' = task, faults' = faults,
             \A e \in Events : jobs'[e] # None => jobs[e] # None,
             \A e \in Events : jobs'[e] # jobs[e] /\ faults = 0 =>
                 ~Delivered(e) \/ (jobs'[e] = None /\ \A q \in Processes : e \notin relay[q].todo)
      PROVE  PromiseOK'
  <2>1. ASSUME NEW e \in Events PROVE EventOK(e)'
    <3>1. faults = 0 => Undisturbed(e)'
      BY <1>2, <1>3 DEF EventOK, Undisturbed
    <3>2. Live(e)' /\ Delivered(e) /\ faults = 0 => Live(e)
      BY <1>3 DEF Live
    <3> QED
      BY <1>0, <1>1, <1>2, <1>3, <2>1, <3>1, <3>2 DEF EventOK
  <2>2. ASSUME NEW q \in Processes PROVE ProcessOK(q)'
    BY <1>1, <1>3 DEF ProcessOK, Delivered, Recorded
  <2> QED
    BY <2>1, <2>2
<1>4. ASSUME NEW e \in Events, Commit(e) PROVE PromiseOK'
  <2>1. /\ jobs' = jobs /\ relay' = relay /\ task' = task /\ faults' = faults
        /\ outbox[e] = None /\ outbox'[e] = "PENDING" /\ "PENDING" # None
        /\ \A d \in Events \ {e} : outbox'[d] = outbox[d]
    BY <1>0, <1>4, NoneAssumption DEF Commit, redis, TypeOK, OutboxStatus
  <2>2. ASSUME NEW d \in Events PROVE EventOK(d)'
    <3>1. faults = 0 => Undisturbed(d)'
      BY <1>2, <2>1 DEF EventOK, Undisturbed
    <3> QED
      BY <1>1, <1>2, <2>1, <3>1 DEF EventOK, Live
  <2>3. ASSUME NEW q \in Processes PROVE ProcessOK(q)'
    <3>1. relay[q].todo \subseteq Events \ {e}
      BY <1>0, <2>1 DEF ProcessOK, TypeOK, Relay
    <3> QED
      BY <1>1, <2>1, <3>1 DEF ProcessOK, Delivered, Recorded
  <2> QED
    BY <2>2, <2>3
<1>5. ASSUME NEW e \in Events, ClaimExpires(e) PROVE PromiseOK'
  BY <1>3, <1>5 DEF ClaimExpires, redis
<1>6. ASSUME NEW e \in Events, Reclaim(e) PROVE PromiseOK'
  <2>1. \A d \in Events \ {e} : jobs'[d] = jobs[d]
    BY <1>0, <1>6 DEF Reclaim, Stalled, TypeOK
  <2>2. \A q \in Processes : ~(task[q].at = "complete" /\ task[q].event = e)
    BY <1>0, <1>6, NobodyAssumption DEF Reclaim, QueueOK, TaskOK, Holds, Working
  <2>3. jobs[e] # None /\ (faults = 0 => ~Delivered(e))
    BY <1>6, <2>2 DEF Reclaim, EventOK, Live
  <2> QED
    BY <1>3, <1>6, <2>1, <2>3 DEF Reclaim, mysql
<1>7. ASSUME NEW e \in Events, ForgetCompleted(e) PROVE PromiseOK'
  <2>1. /\ jobs[e] # None /\ jobs'[e] = None
        /\ \A d \in Events \ {e} : jobs'[d] = jobs[d]
    BY <1>0, <1>7 DEF ForgetCompleted, TypeOK
  <2>2. \A q \in Processes : e \notin relay[q].todo
    BY <1>0, <1>7 DEF ForgetCompleted, Undelivered, QueueOK, JobOK, Live
  <2> QED
    BY <1>3, <1>7, <2>1, <2>2 DEF ForgetCompleted, mysql
<1>8. ASSUME NEW p \in Processes, Crash(p) PROVE PromiseOK'
  <2>1. outbox' = outbox /\ faults' > 0
    BY <1>0, <1>8 DEF Crash, Count, mysql
  <2>2. \A e \in Events : jobs'[e] # None => jobs[e] # None
    BY <1>8 DEF Crash
  <2>3. \A q \in Processes : \/ relay'[q] = relay[q] /\ task'[q] = task[q]
                             \/ relay'[q] = IdleRelay /\ task'[q] = IdleTask
    BY <1>0, <1>8 DEF Crash, TypeOK
  <2>4. ASSUME NEW q \in Processes PROVE ProcessOK(q)'
    <3>1. CASE relay'[q] = relay[q] /\ task'[q] = task[q]
      BY <1>1, <2>1, <3>1 DEF ProcessOK, Delivered, Recorded
    <3>2. CASE relay'[q] = IdleRelay /\ task'[q] = IdleTask
      BY <2>1, <3>2 DEF ProcessOK, IdleRelay, IdleTask
    <3> QED
      BY <2>3, <3>1, <3>2
  <2> QED
    BY <1>1, <1>2, <2>1, <2>2, <2>4 DEF EventOK
<1>9. ASSUME UNCHANGED vars PROVE PromiseOK'
  BY <1>3, <1>9 DEF vars, mysql, redis
<1> QED
  BY <1>4, <1>5, <1>6, <1>7, <1>8, <1>9

LEMMA PromiseInit == Init => PInv
<1> SUFFICES ASSUME Init PROVE PInv
  OBVIOUS
<1>1. \A e \in Events : EventOK(e)
  BY NoneAssumption
  DEF Init, EventOK, Undisturbed, Live, Delivered, Recorded, OutboxStatus, DeliveryStatus, IdleRelay
<1>2. \A p \in Processes : ProcessOK(p)
  BY DEF Init, ProcessOK, IdleRelay, IdleTask
<1> QED
  BY <1>1, <1>2, QueueInit DEF PInv, PromiseOK

\* The actions that few faults leave.
LEMMA StepsLeft ==
    ASSUME FewFaults, [Next]_vars
    PROVE  \/ \E p \in Processes : RelayStep(p) \/ AddOrMarkThrows(p)
           \/ \E p \in Processes :
                 \/ Check(p) \/ Send(p) \/ RecordSuccess(p) \/ RecordFailure(p) \/ Bury(p)
                 \/ TryThrows(p)
           \/ \E p \in Processes : (\E e \in Events : Take(p, e)) \/ Complete(p) \/ Fail(p)
           \/ \E e \in Events : Commit(e) \/ ClaimExpires(e) \/ Reclaim(e) \/ ForgetCompleted(e)
           \/ \E p \in Processes : Crash(p)
           \/ UNCHANGED vars
<1>1. \A p \in Processes : ~AnswerLost(p) /\ ~CatchThrows(p)
  BY DEF AnswerLost, CatchThrows, Count, May, FewFaults
<1>2. ~RedisLoss /\ \A e \in Events : ~StallsWhileRunning(e)
  BY DEF RedisLoss, StallsWhileRunning, Count, May, FewFaults
<1> QED
  BY <1>1, <1>2 DEF Next, TaskStep

LEMMA PromiseInvariant ==
    ASSUME PInv, FewFaults, [Next]_vars
    PROVE  PInv'
<1>1. QInv'
  BY QueueStep DEF PInv, FewFaults
<1>2. PromiseOK'
  BY StepsLeft, RelayPromise, AttemptPromise, JobPromise, EnvironmentPromise
<1> QED
  BY <1>1, <1>2 DEF PInv

\* What leaves the same events committed, and the provider and the records alone,
\* is no step of the promise.
LEMMA PromiseStutters ==
    ASSUME accepted' = accepted, attempts' = attempts,
           \A e \in Events : (outbox'[e] = None) = (outbox[e] = None)
    PROVE  UNCHANGED Promise!vars
<1>1. {e \in Events : outbox'[e] # None} = {e \in Events : outbox[e] # None}
  OBVIOUS
<1>2. verdict' = verdict
  BY DEF verdict, Recorded
<1> QED
  BY <1>1, <1>2 DEF Promise!vars

\* A verdict on one event, if only its attempts have changed.
LEMMA PromiseSettles ==
    ASSUME NEW e \in Events, NEW v \in {"SUCCEEDED", "DEAD_LETTERED"},
           outbox' = outbox, accepted' = accepted, outbox[e] # None,
           ~Recorded(e, "SUCCEEDED"), v = "SUCCEEDED" => accepted[e] > 0,
           \A d \in Events \ {e} : attempts'[d] = attempts[d],
           verdict'[e] = v
    PROVE  Promise!Next
<1>1. \A d \in Events \ {e} : verdict'[d] = verdict[d]
  BY DEF verdict, Recorded
<1>2. verdict' = [verdict EXCEPT ![e] = v]
  <2>1. verdict = [d \in Events |-> verdict[d]] /\ verdict' = [d \in Events |-> verdict'[d]]
    BY DEF verdict
  <2> HIDE DEF verdict
  <2> QED
    BY <1>1, <2>1
<1>3. verdict[e] # "SUCCEEDED"
  BY NoneAssumption DEF verdict, DeliveryStatus
<1> QED
  BY <1>2, <1>3 DEF Promise!Next, Promise!Settle

\* Every step of the pipeline is one of the promise, or none.
LEMMA PromiseStep ==
    ASSUME PInv, FewFaults, [Next]_vars
    PROVE  [Promise!Next]_(Promise!vars)
<1> USE DEF PInv, PromiseOK
<1>0. TypeOK
  BY DEF QInv, IInv
<1> DEFINE Promised == [Promise!Next]_(Promise!vars)
<1>1. ASSUME accepted' = accepted, attempts' = attempts, outbox' = outbox PROVE Promised
  BY <1>1, PromiseStutters
<1>2. ASSUME NEW p \in Processes, RelayStep(p) \/ AddOrMarkThrows(p) PROVE Promised
  <2>1. accepted' = accepted /\ attempts' = attempts
    BY <1>2
    DEF RelayStep, Claim, Add, Mark, Requeue, Reconcile, ReAdd, AddOrMarkThrows, mysql
  <2> QED
    BY <1>2, <2>1, RelayPromise, PromiseStutters
<1>3. ASSUME NEW p \in Processes, Working(p)
      PROVE  task[p].event \in Events /\ outbox[task[p].event] # None
  BY <1>3, HolderIsAlone DEF EventOK, Live
<1>4. ASSUME NEW p \in Processes, Check(p) \/ Bury(p) \/ TryThrows(p) PROVE Promised
  BY <1>1, <1>4 DEF Check, Bury, TryThrows, mysql
<1>5. ASSUME NEW p \in Processes, Send(p) PROVE Promised
  <2> DEFINE e == task[p].event
  <2>1. outbox' = outbox /\ attempts' = attempts
    BY <1>5 DEF Send, mysql
  <2>2. e \in Events /\ outbox[e] # None /\ ~Recorded(e, "SUCCEEDED")
    BY <1>3, <1>5 DEF Send, Working, ProcessOK, Delivered
  <2>3. verdict' = verdict /\ verdict[e] # "SUCCEEDED"
    BY <2>1, <2>2, NoneAssumption DEF verdict, Recorded, DeliveryStatus
  <2>4. CASE accepted' = [accepted EXCEPT ![e] = @ + 1]
    <3>1. Promise!Accept(e)
      BY <2>1, <2>2, <2>3, <2>4 DEF Promise!Accept
    <3> QED
      BY <2>2, <3>1 DEF Promise!Next
  <2>5. CASE accepted' = accepted
    BY <1>1, <2>1, <2>5
  <2> QED
    BY <1>5, <2>4, <2>5 DEF Send
<1>6. ASSUME NEW p \in Processes, RecordSuccess(p) PROVE Promised
  <2> DEFINE e == task[p].event
  <2>1. Working(p) /\ outbox' = outbox /\ accepted' = accepted /\ Upsert(p, "SUCCEEDED")
    BY <1>6 DEF RecordSuccess, Working
  <2>2. /\ e \in Events /\ outbox[e] # None /\ task[p].attempt \in 1 .. MaxAttempts
        /\ ~Recorded(e, "SUCCEEDED") /\ accepted[e] > 0
    BY <1>3, <1>6, <2>1, HolderIsAlone DEF RecordSuccess, ProcessOK, Delivered
  <2>3. \A d \in Events \ {e} : attempts'[d] = attempts[d]
    BY <1>0, <2>1 DEF Upsert, TypeOK
  <2>4. attempts'[e][task[p].attempt] = "SUCCEEDED"
    BY <2>1, <2>2, UpsertValue
  <2>5. \A d \in Events : d = e => verdict'[d] = "SUCCEEDED"
    BY <2>2, <2>4 DEF verdict, Recorded
  <2> QED
    BY <2>1, <2>2, <2>3, <2>5, PromiseSettles
<1>7. ASSUME NEW p \in Processes, RecordFailure(p) PROVE Promised
  <2> DEFINE e == task[p].event
             status == IF finalAttempt(p) THEN "DEAD_LETTERED" ELSE "RETRYING"
  <2>1. Working(p) /\ outbox' = outbox /\ accepted' = accepted /\ Upsert(p, status)
    BY <1>7 DEF RecordFailure, Working
  <2>2. /\ e \in Events /\ outbox[e] # None /\ task[p].attempt \in 1 .. MaxAttempts
        /\ ~Recorded(e, "SUCCEEDED")
    BY <1>3, <1>7, <2>1, HolderIsAlone DEF RecordFailure, ProcessOK, Delivered
  <2>3. \A d \in Events \ {e} : attempts'[d] = attempts[d]
    BY <1>0, <2>1 DEF Upsert, TypeOK
  <2>4. \A n \in 1 .. MaxAttempts :
           attempts'[e][n] = IF n = task[p].attempt THEN status ELSE attempts[e][n]
    BY <2>1, <2>2, UpsertValue
  <2>5. \A n \in 1 .. MaxAttempts : attempts'[e][n] # "SUCCEEDED"
    BY <2>2, <2>4 DEF Recorded
  <2>6. CASE finalAttempt(p)
    <3>1. \A d \in Events : d = e => verdict'[d] = "DEAD_LETTERED"
      BY <2>2, <2>4, <2>5, <2>6 DEF verdict, Recorded
    <3> QED
      BY <2>1, <2>2, <2>3, <3>1, PromiseSettles
  <2>7. CASE ~finalAttempt(p)
    <3>1. task[p].attempt # MaxAttempts
      BY <2>2, <2>7, AttemptsAssumption DEF finalAttempt
    <3>2. attempts[e][task[p].attempt] # "DEAD_LETTERED"
      BY <2>2, <3>1 DEF EventOK
    <3>3. \A n \in 1 .. MaxAttempts :
             (attempts'[e][n] = "DEAD_LETTERED") = (attempts[e][n] = "DEAD_LETTERED")
      BY <2>4, <2>7, <3>2
    <3>4. \A d \in Events : verdict'[d] = verdict[d]
      <4>1. \A d \in Events : d = e => verdict'[d] = verdict[d]
        BY <2>2, <2>5, <3>3 DEF verdict, Recorded
      <4>2. \A d \in Events \ {e} : verdict'[d] = verdict[d]
        BY <2>3 DEF verdict, Recorded
      <4> QED
        BY <4>1, <4>2
    <3>5. verdict' = verdict
      <4>1. verdict = [d \in Events |-> verdict[d]] /\ verdict' = [d \in Events |-> verdict'[d]]
        BY DEF verdict
      <4> HIDE DEF verdict
      <4> QED
        BY <3>4, <4>1
    <3> QED
      BY <2>1, <3>5 DEF Promise!vars
  <2> QED
    BY <2>6, <2>7
<1>8. ASSUME NEW p \in Processes, (\E e \in Events : Take(p, e)) \/ Complete(p) \/ Fail(p)
      PROVE  Promised
  <2>1. CASE \E e \in Events : Take(p, e)
    BY <1>1, <2>1 DEF Take, mysql
  <2>2. CASE Complete(p)
    BY <1>1, <2>2 DEF Complete, mysql
  <2>3. CASE Fail(p)
    BY <1>1, <2>3 DEF Fail, mysql
  <2> QED
    BY <1>8, <2>1, <2>2, <2>3
<1>9. ASSUME NEW e \in Events, Commit(e) PROVE Promised
  <2>1. {d \in Events : outbox'[d] # None} = {d \in Events : outbox[d] # None} \cup {e}
    BY <1>0, <1>9, NoneAssumption DEF Commit, TypeOK, OutboxStatus
  <2>2. accepted' = accepted /\ verdict' = verdict
    BY <1>9 DEF Commit, verdict, Recorded
  <2>3. Promise!Commit(e)
    BY <2>1, <2>2 DEF Promise!Commit
  <2> QED
    BY <2>3 DEF Promise!Next
<1>10. ASSUME NEW e \in Events, ClaimExpires(e) \/ Reclaim(e) \/ ForgetCompleted(e) PROVE Promised
  BY <1>1, <1>10 DEF ClaimExpires, Reclaim, ForgetCompleted, mysql
<1>11. ASSUME NEW p \in Processes, Crash(p) PROVE Promised
  BY <1>1, <1>11 DEF Crash, mysql
<1>12. ASSUME UNCHANGED vars PROVE Promised
  BY <1>1, <1>12 DEF vars, mysql
<1> QED
  BY <1>2, <1>4, <1>5, <1>6, <1>7, <1>8, <1>9, <1>10, <1>11, <1>12, StepsLeft

\* The pipeline starts and goes on as AtLeastOnce says, with any number of events,
\* processes and attempts, through a single error, or through as many crashes as a
\* job may stall: nothing is sent again once a success is on record, and a
\* recorded success is true and stays.  (That every event is settled is for TLC.)
THEOREM StepsKeepPromise ==
    ASSUME FewFaults
    PROVE  Safety => Promise!Init /\ [][Promise!Next]_(Promise!vars)
<1>1. Init => Promise!Init
  <2> SUFFICES ASSUME Init PROVE Promise!Init
    OBVIOUS
  <2>1. verdict = [e \in Events |-> None]
    BY NoneAssumption DEF Init, verdict, Recorded, DeliveryStatus
  <2> QED
    BY <2>1 DEF Init, Promise!Init
<1>2. PInv /\ [Next]_vars => PInv'
  BY PromiseInvariant
<1>3. PInv /\ [Next]_vars => [Promise!Next]_(Promise!vars)
  BY PromiseStep
<1> QED
  BY <1>1, <1>2, <1>3, PromiseInit, PTL DEF Safety

-----------------------------------------------------------------------------
(* What it takes to lose a recorded success                                *)

\* The steps that may lead to it: Redis loses the jobs while a processor is at
\* work, a job stalls while it is running, MySQL's answer to a success is lost,
\* or an error keeps an attempt from finding the success on record.
Undermines ==
    \/ RedisLoss /\ \E p \in Processes : Working(p)
    \/ \E e \in Events : StallsWhileRunning(e)
    \/ \E p \in Processes : AnswerLost(p)
    \/ \E p \in Processes : TryThrows(p) /\ Delivered(task[p].event)

Sending(p) == task[p].at \in {"send", "recordSuccess", "recordFailure"}

\* A processor at work holds its job, so it is alone with the event; past its
\* check, the event is not delivered.
AloneOK(p) ==
    /\ Working(p) => Holds(p)
    /\ Sending(p) => ~Delivered(task[p].event)

DInv == IInv /\ \A p \in Processes : AloneOK(p)

LEMMA AloneWithEvent ==
    ASSUME DInv, NEW p \in Processes, Working(p)
    PROVE  /\ task[p].event \in Events
           /\ \A q \in Processes \ {p} : Working(q) => task[q].event # task[p].event
BY DEF DInv, AloneOK, IInv, BusyTasksHaveEvent, Working, Holds

\* A processor stays alone if neither its job nor what is on record of its event
\* changes.
LEMMA AloneFrame ==
    ASSUME NEW p \in Processes, AloneOK(p), task'[p] = task[p],
           Working(p) => /\ jobs'[task[p].event] = jobs[task[p].event]
                         /\ attempts'[task[p].event] = attempts[task[p].event]
    PROVE  AloneOK(p)'
<1>1. Working(p)' = Working(p) /\ Sending(p)' = Sending(p)
  BY DEF Working, Sending
<1>2. Sending(p) => Working(p)
  BY DEF Working, Sending
<1>3. Working(p) => Holds(p)' = Holds(p)
  BY DEF Holds
<1>4. Working(p) => Delivered(task[p].event)' = Delivered(task[p].event)
  BY DEF Delivered, Recorded
<1> QED
  BY <1>1, <1>2, <1>3, <1>4 DEF AloneOK

\* The relays add jobs where there are none.
LEMMA RelayAlone ==
    ASSUME DInv, NEW p \in Processes, RelayStep(p) \/ AddOrMarkThrows(p)
    PROVE  attempts' = attempts /\ \A q \in Processes : AloneOK(q)'
<1>1. task' = task /\ attempts' = attempts
  BY DEF RelayStep, Claim, Add, Mark, Requeue, Reconcile, ReAdd, AddOrMarkThrows, mysql
<1>2. \A e \in Events : jobs[e] # None => jobs'[e] = jobs[e]
  <2>1. jobs' = jobs \/ \E d : AddJob(d)
    BY DEF RelayStep, Claim, Add, Mark, Requeue, Reconcile, ReAdd, AddOrMarkThrows, redis
  <2>2. DOMAIN jobs = Events
    BY DEF DInv, IInv, TypeOK
  <2> QED
    BY <2>1, <2>2 DEF AddJob
<1>3. \A q \in Processes : Working(q) => jobs'[task[q].event] = jobs[task[q].event]
  BY <1>2, AloneWithEvent DEF DInv, AloneOK, Holds
<1> QED
  BY <1>1, <1>3, AloneFrame DEF DInv

\* The steps of an attempt that leave the jobs alone: it goes on to send only
\* what is not delivered.
LEMMA AttemptAlone ==
    ASSUME DInv, ~Undermines, NEW p \in Processes,
           \/ Check(p) \/ Send(p) \/ RecordSuccess(p) \/ RecordFailure(p) \/ Bury(p)
           \/ TryThrows(p) \/ AnswerLost(p) \/ CatchThrows(p)
    PROVE  /\ \A q \in Processes : AloneOK(q)'
           /\ \A e \in Events : Delivered(e) => Delivered(e)'
<1> DEFINE mine == task[p].event
<1>0. TypeOK /\ AloneOK(p) /\ ~AnswerLost(p)
  BY DEF DInv, IInv, Undermines
<1>1. jobs' = jobs /\ \A q \in Processes \ {p} : task'[q] = task[q]
  BY <1>0
  DEF TypeOK, Check, Send, RecordSuccess, RecordFailure, Bury, TryThrows, CatchThrows, Goto, redis
<1>2. \A e \in Events : attempts'[e] # attempts[e] => Working(p) /\ e = mine
  BY <1>0
  DEF TypeOK, Check, Send, RecordSuccess, RecordFailure, Bury, TryThrows, CatchThrows,
      Upsert, Working, mysql
<1>3. \A q \in Processes \ {p} : AloneOK(q)'
  <2> TAKE q \in Processes \ {p}
  <2>1. Working(q) => attempts'[task[q].event] = attempts[task[q].event]
    BY <1>2, AloneWithEvent
  <2> QED
    BY <1>1, <2>1, AloneFrame DEF DInv
<1>4. AloneOK(p)'
  <2>1. CASE Bury(p)
    BY <1>0, <2>1 DEF Bury, TypeOK, AloneOK, Working, Sending, IdleTask
  <2>2. ASSUME Working(p), NEW at, Goto(p, at),
               at \in {"send", "recordSuccess", "recordFailure"} =>
                   ~Delivered(mine) /\ attempts' = attempts
        PROVE  AloneOK(p)'
    <3>1. task'[p].at = at /\ task'[p].event = mine
      BY <1>0, <2>2 DEF Goto, TypeOK, Task
    <3>2. Holds(p)'
      BY <1>0, <1>1, <2>2, <3>1 DEF AloneOK, Holds
    <3>3. Sending(p)' => ~Delivered(task[p].event)'
      BY <2>2, <3>1 DEF Sending, Delivered, Recorded
    <3> QED
      BY <3>1, <3>2, <3>3 DEF AloneOK
  <2>3. CASE Check(p)
    <3>1. attempts' = attempts /\ Working(p) /\ (~alreadyDelivered(p) => ~Delivered(mine))
      BY <2>3 DEF Check, Working, alreadyDelivered, Delivered, Recorded, mysql
    <3> QED
      BY <2>2, <2>3, <3>1 DEF Check
  <2>4. CASE Send(p)
    <3>1. attempts' = attempts /\ Working(p) /\ ~Delivered(mine)
      BY <1>0, <2>4 DEF Send, Working, Sending, AloneOK, mysql
    <3> QED
      BY <2>2, <2>4, <3>1 DEF Send
  <2>5. CASE RecordSuccess(p) \/ RecordFailure(p) \/ CatchThrows(p)
    BY <2>2, <2>5 DEF RecordSuccess, RecordFailure, CatchThrows, Working
  <2>6. CASE TryThrows(p)
    <3>1. attempts' = attempts /\ Working(p) /\ ~Delivered(mine)
      BY <2>6 DEF TryThrows, Working, Undermines, mysql
    <3> QED
      BY <2>2, <2>6, <3>1 DEF TryThrows
  <2> QED
    BY <1>0, <2>1, <2>3, <2>4, <2>5, <2>6
<1>5. ASSUME NEW e \in Events, Delivered(e) PROVE Delivered(e)'
  <2>1. CASE attempts'[e] = attempts[e]
    BY <1>5, <2>1 DEF Delivered, Recorded
  <2>2. CASE attempts'[e] # attempts[e]
    <3>1. e = mine
      BY <1>2, <2>2
    <3>2. attempts' = attempts \/ Sending(p)
      BY <1>0
      DEF Check, Send, RecordSuccess, RecordFailure, Bury, TryThrows, CatchThrows, Sending, mysql
    <3> QED
      BY <1>0, <1>5, <2>2, <3>1, <3>2 DEF AloneOK
  <2> QED
    BY <2>1, <2>2
<1> QED
  BY <1>3, <1>4, <1>5

\* The steps that hand out a job or end it, and those around the processors.
LEMMA JobAlone ==
    ASSUME DInv, NEW p \in Processes,
           (\E e \in Events : Take(p, e)) \/ Complete(p) \/ Fail(p) \/ Crash(p)
    PROVE  attempts' = attempts /\ \A q \in Processes : AloneOK(q)'
<1>0. TypeOK /\ \A q \in Processes : AloneOK(q)
  BY DEF DInv, IInv
<1>1. attempts' = attempts
  BY DEF Take, Complete, Fail, Crash, mysql
<1>2. \A q \in Processes \ {p} : task'[q] = task[q]
  BY <1>0 DEF TypeOK, Take, Complete, Fail, Crash
<1>3. \A q \in Processes \ {p} : Working(q) => jobs'[task[q].event] = jobs[task[q].event]
  <2> SUFFICES ASSUME NEW q \in Processes \ {p}, Working(q)
               PROVE  jobs'[task[q].event] = jobs[task[q].event]
    OBVIOUS
  <2>1. /\ task[q].event \in Events /\ Holds(q)
        /\ Working(p) => task[p].event # task[q].event
    BY <1>0, AloneWithEvent DEF AloneOK
  <2>2. CASE \E e \in Events : Take(p, e)
    BY <1>0, <2>1, <2>2 DEF Take, Holds, TypeOK
  <2>3. CASE Complete(p) \/ Fail(p)
    <3>1. Working(p)
      BY <2>3 DEF Complete, Fail, Working
    <3> QED
      BY <1>0, <2>1, <2>3, <3>1 DEF Complete, Fail, TypeOK
  <2>4. CASE Crash(p)
    BY <2>1, <2>4 DEF Crash, Holds
  <2> QED
    BY <2>2, <2>3, <2>4
<1>4. AloneOK(p)'
  <2>1. CASE \E e \in Events : Take(p, e)
    <3>1. PICK e \in Events : Take(p, e)
      BY <2>1
    <3>2. task'[p].at = "check" /\ task'[p].event = e
      BY <1>0, <3>1 DEF Take, TypeOK
    <3>3. jobs[e] \in Job /\ jobs' = [jobs EXCEPT ![e].state = "active", ![e].owner = p]
      BY <1>0, <3>1 DEF Take, TypeOK
    <3>4. jobs'[e] \in Job /\ jobs'[e].state = "active" /\ jobs'[e].owner = p
      BY <1>0, <3>3 DEF Job, TypeOK
    <3> QED
      BY <3>2, <3>4, NobodyAssumption DEF AloneOK, Holds, Sending
  <2>2. CASE Complete(p) \/ Fail(p) \/ Crash(p)
    <3>1. task'[p].at \in {"idle", "bury"}
      BY <1>0, <2>2 DEF Complete, Fail, Crash, TypeOK, Task, IdleTask
    <3> QED
      BY <3>1 DEF AloneOK, Working, Sending
  <2> QED
    BY <2>1, <2>2
<1> QED
  BY <1>0, <1>1, <1>2, <1>3, <1>4, AloneFrame

\* What happens to a job that nobody is at work on, and to the outbox.
LEMMA EnvironmentAlone ==
    ASSUME DInv, ~Undermines,
           \/ \E e \in Events : \/ Commit(e) \/ ClaimExpires(e) \/ Reclaim(e)
                                \/ StallsWhileRunning(e) \/ ForgetCompleted(e)
           \/ RedisLoss
    PROVE  attempts' = attempts /\ \A q \in Processes : AloneOK(q)'
<1>0. TypeOK /\ \A q \in Processes : AloneOK(q)
  BY DEF DInv, IInv
<1>1. task' = task /\ attempts' = attempts
  BY DEF Commit, ClaimExpires, Reclaim, StallsWhileRunning, ForgetCompleted, RedisLoss, mysql
<1>2. ASSUME NEW q \in Processes, Working(q) PROVE jobs'[task[q].event] = jobs[task[q].event]
  <2>1. task[q].event \in Events /\ Holds(q) /\ q # None
    BY <1>0, <1>2, AloneWithEvent, NobodyAssumption DEF AloneOK
  <2>2. ~RedisLoss /\ \A e \in Events : ~StallsWhileRunning(e)
    BY <1>2 DEF Undermines
  <2>3. ASSUME NEW e \in Events, Commit(e) \/ ClaimExpires(e)
        PROVE  jobs'[task[q].event] = jobs[task[q].event]
    BY <2>3 DEF Commit, ClaimExpires, redis
  <2>4. ASSUME NEW e \in Events, Reclaim(e) \/ ForgetCompleted(e)
        PROVE  jobs'[task[q].event] = jobs[task[q].event]
    BY <1>0, <2>1, <2>4 DEF Reclaim, Stalled, ForgetCompleted, Holds, TypeOK
  <2> QED
    BY <2>2, <2>3, <2>4
<1> QED
  BY <1>0, <1>1, <1>2, AloneFrame

\* A step that does not undermine it keeps the processors apart, and keeps every
\* success that is on record.
LEMMA AloneStep ==
    ASSUME DInv, [Next]_vars, [~Undermines]_vars
    PROVE  DInv' /\ [\A e \in Events : Recorded(e, "SUCCEEDED") => Recorded(e, "SUCCEEDED")']_vars
<1>1. IInv'
  BY StepInvariant DEF DInv
<1>2. ASSUME attempts' = attempts
      PROVE  \A e \in Events : Delivered(e) => Delivered(e)'
  BY <1>2 DEF Delivered, Recorded
<1>3. CASE UNCHANGED vars
  <2>1. \A p \in Processes : AloneOK(p)'
    BY <1>3, AloneFrame DEF DInv, vars, mysql, redis
  <2> QED
    BY <1>1, <1>3, <2>1 DEF DInv
<1>4. CASE Next /\ ~Undermines
  <2>1. (\A p \in Processes : AloneOK(p)') /\ (\A e \in Events : Delivered(e) => Delivered(e)')
    BY <1>2, <1>4, RelayAlone, AttemptAlone, JobAlone, EnvironmentAlone DEF Next, TaskStep
  <2> QED
    BY <1>1, <2>1 DEF DInv, Delivered
<1> QED
  BY <1>3, <1>4

LEMMA AloneInit == Init => DInv
BY InitInvariant DEF Init, DInv, AloneOK, IdleTask, Working, Sending

\* Whatever faults there are, and however many: as long as no step undermines it,
\* a recorded success stays.  Crashes, claims that run out, errors of the relay,
\* refusals by the provider and attempts without a record do not take one back.
THEOREM SuccessLostOnlyIfUndermined ==
    Safety /\ [][~Undermines]_vars => SuccessIsDurable
BY AloneInit, AloneStep, PTL DEF Safety, SuccessIsDurable

\* In particular, processes may crash and lose records of failures at will.
COROLLARY CrashesKeepSuccess ==
    ASSUME Faults \subseteq {"crash", "lostRecord"}
    PROVE  Safety => SuccessIsDurable
<1>1. [Next]_vars => [~Undermines]_vars
  BY DEF Undermines, RedisLoss, StallsWhileRunning, AnswerLost, TryThrows, Count, May
<1> QED
  BY <1>1, SuccessLostOnlyIfUndermined, PTL DEF Safety
=============================================================================
