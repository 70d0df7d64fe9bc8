----------------------------- MODULE Migrations -----------------------------
(***************************************************************************)
(* The schema of a release and how it gets there: scripts/migrate.mjs, run *)
(* by the pods of the migration Job before the application's Deployments,  *)
(* against a new database or beside the API of the previous release.       *)
(*                                                                         *)
(* A migration is one query of several statements.  MySQL executes them    *)
(* one after another, and each commits by itself: there is no transaction  *)
(* to roll back.  The ledger is written when the query is done.            *)
(***************************************************************************)
EXTENDS Integers, Sequences, FiniteSets

CONSTANTS
    None,
    Pods,             \* of the Job
    Rows,             \* outbox rows that the previous release writes
    MaxDisturbances   \* bound: deaths of pods, rewritten files

ASSUME MigrationAssumption ==
    /\ None \notin Pods /\ None \notin {"missing", "original", "rewritten"}
    /\ MaxDisturbances \in Nat
    /\ IsFiniteSet(Rows)

VARIABLES
    schema,       \* the statements in effect
    ledger,       \* schema_migrations: file -> checksum, or None
    checksums,    \* file -> its checksum in the image the Job runs
    session,      \* the pod that has the named lock, or None
    job,          \* pod -> [at, file, next]: its position, file and statement
    granted,      \* this Job has granted the application's database user access
    appUser,      \* the user that the Job's environment names: "valid", "invalid" or "none"
    release,      \* "none", "previous" or "current"
    owner,        \* outbox row -> "known", "missing" (no merchant_id), or None: no such row
    disturbances  \* how many there have been

migrationVars ==
    <<schema, ledger, checksums, session, job, granted, appUser, release, owner, disturbances>>

-----------------------------------------------------------------------------
(* The files, in the order of their names, and their statements            *)

Statements ==
    <<<<"merchants", "stores", "invoices", "invoice_lines", "idempotency_records",
        "outbox_events", "delivery_attempts">>,
      <<"widenStatus", "keyIdempotency", "keyDelivery", "addOwner", "backfill",
        "requireOwner", "payments", "refunds", "receipts", "audit_events",
        "blockUpdate", "blockDelete">>>>

Files == DOMAIN Statements

StatementsOf(f) == {Statements[f][s] : s \in DOMAIN Statements[f]}

\* CREATE TABLE IF NOT EXISTS, a MODIFY to the same type and an UPDATE may be
\* executed again.  ADD COLUMN, ADD KEY, CREATE TABLE and CREATE TRIGGER may not.
Repeatable == StatementsOf(1) \cup {"widenStatus", "backfill"}

Original == "original"
Rewritten == "rewritten"

Idle == [at |-> "idle", file |-> 1, next |-> 1]

Positions == {"idle", "lock", "check", "run", "grant", "succeeded", "failed", "timedOut", "dead"}

MigrationTypeOK ==
    /\ schema \subseteq UNION {StatementsOf(f) : f \in Files}
    /\ ledger \in [Files -> {Original, Rewritten, None}]
    /\ checksums \in [Files -> {Original, Rewritten}]
    /\ session \in Pods \cup {None}
    /\ job \in [Pods -> [at : Positions, file : Files, next : 1 .. 13]]
    /\ granted \in BOOLEAN
    /\ appUser \in {"none", "valid", "invalid"}
    /\ release \in {"none", "previous", "current"}
    /\ owner \in [Rows -> {"known", "missing", None}]
    /\ disturbances \in 0 .. MaxDisturbances

\* A new database, or one that the first migration has made for the previous release.
MigrationInit ==
    /\ \/ release = "none" /\ schema = {} /\ ledger = [f \in Files |-> None]
       \/ /\ release = "previous" /\ schema = StatementsOf(1)
          /\ ledger = [f \in Files |-> IF f = 1 THEN Original ELSE None]
    /\ granted = FALSE
    /\ appUser \in {"none", "valid", "invalid"}
    /\ checksums = [f \in Files |-> Original]
    /\ session = None
    /\ job = [p \in Pods |-> Idle]
    /\ owner = [r \in Rows |-> None]
    /\ disturbances = 0

-----------------------------------------------------------------------------
(* migrate.mjs                                                             *)

Goto(p, position, file, next) ==
    job' = [job EXCEPT ![p] = [at |-> position, file |-> file, next |-> next]]

Stop(p, position) == Goto(p, position, job[p].file, job[p].next)

\* The end of the session, by RELEASE_LOCK, connection.end() or the pod's death.
EndSession(p) == session' = IF session = p THEN None ELSE session

\* The Job starts a pod: the first one, or another when one has not succeeded.
Start(p) ==
    /\ release # "current"
    /\ job[p].at \in {"idle", "failed", "timedOut", "dead"}
    /\ Goto(p, "lock", 1, 1)
    /\ UNCHANGED <<schema, ledger, checksums, session, granted, appUser, release, owner, disturbances>>

\* Seeded fault: nobody looks at what GET_LOCK returned.
GetLockOrNot(p) ==
    /\ job[p].at = "lock"
    /\ session' = IF session = None THEN p ELSE session
    /\ Goto(p, "check", 1, 1)
    /\ UNCHANGED <<schema, ledger, checksums, granted, appUser, release, owner, disturbances>>

GetLock(p) ==
    /\ job[p].at = "lock" /\ session = None
    /\ session' = p
    /\ Goto(p, "check", 1, 1)
    /\ UNCHANGED <<schema, ledger, checksums, granted, appUser, release, owner, disturbances>>

\* Another session has had it for 60 seconds.
LockTimesOut(p) ==
    /\ job[p].at = "lock" /\ session # None
    /\ Stop(p, "timedOut")
    /\ UNCHANGED <<schema, ledger, checksums, session, granted, appUser, release, owner, disturbances>>

\* The next file, or the grants after the last one.
NextFile(p) ==
    IF job[p].file = Len(Statements)
    THEN Stop(p, "grant") ELSE Goto(p, "check", job[p].file + 1, 1)

Known(p) == ledger[job[p].file] # None

\* Seeded fault: the comparison is the wrong way round.
Differs(p) == checksums[job[p].file] = ledger[job[p].file]

Drifted(p) == ledger[job[p].file] # checksums[job[p].file]

\* The file is in the ledger, unchanged, or changed since.
Verify(p) ==
    /\ job[p].at = "check" /\ Known(p)
    /\ \/ Drifted(p) /\ Stop(p, "failed") /\ EndSession(p)
       \/ ~Drifted(p) /\ NextFile(p) /\ UNCHANGED session
    /\ UNCHANGED <<schema, ledger, checksums, granted, appUser, release, owner, disturbances>>

\* Seeded fault: the file is entered in the ledger before its statements are executed.
EnterAndApply(p) ==
    /\ job[p].at = "check" /\ ~Known(p)
    /\ ledger' = [ledger EXCEPT ![job[p].file] = checksums[job[p].file]]
    /\ Goto(p, "run", job[p].file, 1)
    /\ UNCHANGED <<schema, checksums, session, granted, appUser, release, owner, disturbances>>

Apply(p) ==
    /\ job[p].at = "check" /\ ~Known(p)
    /\ Goto(p, "run", job[p].file, 1)
    /\ UNCHANGED <<schema, ledger, checksums, session, granted, appUser, release, owner, disturbances>>

Current(p) == Statements[job[p].file][job[p].next]

\* MySQL refuses to add what is there, and NOT NULL to a column with a NULL in it.
Refused(s) ==
    \/ s \in schema \ Repeatable
    \/ s = "requireOwner" /\ \E r \in Rows : owner[r] = "missing"

\* The next statement of the query.
Execute(p) ==
    /\ job[p].at = "run" /\ job[p].next <= Len(Statements[job[p].file])
    /\ \/ /\ Refused(Current(p))
          /\ Stop(p, "failed") /\ EndSession(p)
          /\ UNCHANGED <<schema, owner>>
       \/ /\ ~Refused(Current(p))
          /\ schema' = schema \cup {Current(p)}
          /\ owner' = [r \in Rows |-> IF Current(p) = "backfill" /\ owner[r] # None
                                      THEN "known" ELSE owner[r]]
          /\ Goto(p, "run", job[p].file, job[p].next + 1)
          /\ UNCHANGED session
    /\ UNCHANGED <<ledger, checksums, granted, appUser, release, disturbances>>

\* INSERT INTO schema_migrations; the name is its primary key.
Record(p) ==
    /\ job[p].at = "run" /\ job[p].next > Len(Statements[job[p].file])
    /\ \/ /\ Known(p)
          /\ Stop(p, "failed") /\ EndSession(p) /\ UNCHANGED ledger
       \/ /\ ~Known(p)
          /\ ledger' = [ledger EXCEPT ![job[p].file] = checksums[job[p].file]]
          /\ NextFile(p) /\ UNCHANGED session
    /\ UNCHANGED <<schema, checksums, granted, appUser, release, owner, disturbances>>

\* provisionApplicationUser, whose three statements may all be repeated: no
\* user is named and nothing is done; it is granted access; or a part of it is
\* missing or unsafe, and the pod fails.
GrantAccess(p) ==
    /\ job[p].at = "grant"
    /\ EndSession(p)
    /\ \/ appUser = "none" /\ Stop(p, "succeeded") /\ UNCHANGED granted
       \/ appUser = "valid" /\ Stop(p, "succeeded") /\ granted' = TRUE
       \/ appUser = "invalid" /\ Stop(p, "failed") /\ UNCHANGED granted
    /\ UNCHANGED <<schema, ledger, checksums, appUser, release, owner, disturbances>>

PodStep(p) ==
    GetLock(p) \/ LockTimesOut(p) \/ Verify(p) \/ Apply(p) \/ Execute(p) \/ Record(p) \/ GrantAccess(p)

-----------------------------------------------------------------------------
(* What happens around it                                                  *)

Disturb == disturbances < MaxDisturbances /\ disturbances' = disturbances + 1

\* The pod dies, is replaced, or loses its connection.  What it has sent and
\* MySQL goes on with counts as sent by a pod that dies later.
Die(p) ==
    /\ job[p].at \in {"lock", "check", "run", "grant"}
    /\ Disturb
    /\ Stop(p, "dead") /\ EndSession(p)
    /\ UNCHANGED <<schema, ledger, checksums, granted, appUser, release, owner>>

\* Somebody rewrites a file that has been applied, or restores it, between two
\* runs of the Job.
Rewrite(f) ==
    /\ release # "current" /\ ledger[f] # None
    /\ \A p \in Pods : job[p].at \in {"idle", "failed", "timedOut", "dead"}
    /\ Disturb
    /\ checksums' = [checksums EXCEPT ![f] = IF @ = Original THEN Rewritten ELSE Original]
    /\ UNCHANGED <<schema, ledger, session, job, granted, appUser, release, owner>>

\* The previous release changes an invoice.  Its INSERT into the outbox knows
\* no merchant_id, and fails once the column is required.
PreviousWrites(r) ==
    /\ release = "previous" /\ owner[r] = None
    /\ "requireOwner" \notin schema
    /\ owner' = [owner EXCEPT ![r] = "missing"]
    /\ UNCHANGED <<schema, ledger, checksums, session, job, granted, appUser, release, disturbances>>

\* Seeded fault: it is enough that a pod has ended.
HasEnded(p) == job[p].at \in {"succeeded", "failed"}

HasSucceeded(p) == job[p].at = "succeeded"

\* Sync waves: the Deployments follow when the hook has succeeded, and the
\* Job is deleted.  A row that has its merchant is like any row of the new
\* release, and no longer followed.
Rollout ==
    /\ release # "current"
    /\ \E p \in Pods : HasSucceeded(p)
    /\ release' = "current"
    /\ job' = [p \in Pods |-> Idle]
    /\ session' = None
    /\ owner' = [r \in Rows |-> IF owner[r] = "known" THEN None ELSE owner[r]]
    /\ disturbances' = 0   \* counted anew for every release
    /\ UNCHANGED <<schema, ledger, checksums, granted, appUser>>

MigrationNext ==
    \/ \E p \in Pods : Start(p) \/ PodStep(p) \/ Die(p)
    \/ \E f \in Files : Rewrite(f)
    \/ \E r \in Rows : PreviousWrites(r)
    \/ Rollout

-----------------------------------------------------------------------------
\* The ledger tells the truth: of a file that it names, and of every file
\* before it, all statements are in effect, whichever pods died on the way.
LedgerIsTrue ==
    \A f \in Files : ledger[f] # None => \A g \in 1 .. f : StatementsOf(g) \subseteq schema

\* The Job has granted access, or leaves it to others whom the application connects as.
AccessSettled == granted \/ appUser = "none"

\* ACCEPTANCE.md: migrations run before application promotion.  The new
\* release never meets a database that lacks a table, a column or the grants
\* that the Job was to make, or an outbox row without the merchant it needs,
\* whatever befell the Job and whichever user it was given.
NewReleaseFindsSchema ==
    release = "current" =>
        /\ \A f \in Files : StatementsOf(f) \subseteq schema
        /\ AccessSettled
        /\ \A r \in Rows : owner[r] # "missing"

\* A row of the previous release came after the backfill.
LateRow == "backfill" \in schema /\ \E r \in Rows : owner[r] = "missing"

\* The named lock keeps the pods apart: unless a pod has died, a file was
\* rewritten, the previous release wrote after the backfill or the Job was
\* given half a user, no pod fails except for having waited too long.
OnlyDisturbedPodsFail ==
    (\E p \in Pods : job[p].at = "failed") =>
        disturbances > 0 \/ LateRow \/ appUser = "invalid"

\* Left alone, the migration gets through and the release is rolled out.
RolloutGoesThrough ==
    <>(release = "current" \/ disturbances > 0 \/ LateRow \/ appUser = "invalid")
=============================================================================
