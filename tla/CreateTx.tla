------------------------------ MODULE CreateTx ------------------------------
(***************************************************************************)
(* InvoiceService.create of Billing, statement by statement.  Several      *)
(* handlers (two API replicas, each with a pool of connections) work on    *)
(* create requests, some of which are retries of one another: they share   *)
(* an idempotency key.                                                     *)
(*                                                                         *)
(* The transaction is READ COMMITTED: its lookup of the key is a plain     *)
(* read of committed rows, and only the unique index of                    *)
(* idempotency_records decides between two handlers that both found        *)
(* nothing.  The INSERT that comes second waits for the first, and then    *)
(* either fails with ER_DUP_ENTRY or, if the first was rolled back, tries  *)
(* again holding a lock on the gap.                                        *)
(*                                                                         *)
(* The handler's writes are applied at Commit; nobody reads them before.   *)
(* The INSERTs of the invoice, its lines, the outbox event and the audit   *)
(* event wait for nobody and are part of the step that follows them.  A    *)
(* request that fails its store authorization or its arithmetic ends       *)
(* before it has written anything and is left out.                         *)
(***************************************************************************)
EXTENDS Billing, RowLocks

CONSTANT MaxFaults    \* bound: crashes, lost connections, timeouts of a wait

VARIABLES
    pc,        \* handler -> the statement it is about to execute
    order,     \* handler -> the request it works on, or None
    draft,     \* handler -> the id it drew for its invoice, or None
    answer,    \* handler -> what it tells the client, or None
    faults     \* how many faults there have been

Handlers == Transactions

ASSUME FaultsAssumption == MaxFaults \in Nat

tables == <<invoices, payments, refunds, receipts, idempotency, outbox, audit>>
createVars == <<pc, order, draft, answer, faults, locks>>
allVars == <<tables, createVars>>

Statements == {"findKey", "insertInvoice", "insertKey", "commit", "findWinner"}

\* 201 with the invoice of the response body, 409, and 500 or no answer at all.
Answers == [outcome : {"created", "replayed"}, invoice : Invoices]
           \cup [outcome : {"conflict", "error"}]

CreateTypeOK ==
    /\ TypeOK
    /\ pc \in [Handlers -> Statements \cup {"idle", "answer"}]
    /\ order \in [Handlers -> Orders \cup {None}]
    /\ draft \in [Handlers -> Invoices \cup {None}]
    /\ answer \in [Handlers -> Answers \cup {None}]
    /\ faults \in 0 .. MaxFaults
    /\ \A h \in Handlers : pc[h] \in {"idle", "answer", "findWinner"} => locks[h] = {}

-----------------------------------------------------------------------------
KeyEntries == {k \in Keys : idempotency[k] # None} \cup Pending("keys")

\* An entry that is there is checked for being a duplicate, under an S lock.
Wants(h) ==
    IF pc[h] # "insertKey" THEN {}
    ELSE IF order[h].key \in KeyEntries
         THEN {<<"keys", order[h].key, "S">>}
         ELSE {<<"keys", order[h].key, "insert">>}

WaitsFor == [h \in Handlers |-> Holders(h, Wants(h))]

\* When a pending entry is rolled back, those who waited to check it are
\* granted their S lock on the gap it leaves.
Bequeathed(g, h) ==
    IF h \in WaitsFor[g]
    THEN {<<w[1], w[2], "gap">> : w \in {v \in Wants(g) : v[3] = "S"}} ELSE {}

\* Seeded fault: the connection goes back to its pool with the transaction open.
LeaveOpen(h) == UNCHANGED locks

Rollback(h) ==
    locks' = [g \in Handlers |-> IF g = h THEN {} ELSE locks[g] \cup Bequeathed(g, h)]

At(h, statement) == pc[h] = statement /\ WaitsFor[h] = {}

Goto(h, statement) == pc' = [pc EXCEPT ![h] = statement]

Reply(h, what) ==
    /\ Goto(h, "answer")
    /\ answer' = [answer EXCEPT ![h] = what]
    /\ draft' = [draft EXCEPT ![h] = None]
    /\ UNCHANGED <<order, faults>>

\* Seeded fault: the stored response goes to whoever sends the key.
SameKey(h) == idempotency[order[h].key] # None

\* The key is on record, for the very request the handler works on.
SameRequest(h) ==
    /\ idempotency[order[h].key] # None
    /\ idempotency[order[h].key].hash = order[h].hash

Replay(h) == [outcome |-> "replayed", invoice |-> idempotency[order[h].key].invoice]

-----------------------------------------------------------------------------
CreateInit ==
    /\ Init
    /\ pc = [h \in Handlers |-> "idle"]
    /\ order = [h \in Handlers |-> None]
    /\ draft = [h \in Handlers |-> None]
    /\ answer = [h \in Handlers |-> None]
    /\ locks = [h \in Handlers |-> {}]
    /\ faults = 0

\* A client may send a request at any time, again and to several replicas.
Receive(h, o) ==
    /\ pc[h] = "idle"
    /\ Goto(h, "findKey")
    /\ order' = [order EXCEPT ![h] = o]
    /\ UNCHANGED <<tables, draft, answer, faults, locks>>

FindKey(h) ==
    /\ At(h, "findKey")
    /\ \/ SameRequest(h) /\ Reply(h, Replay(h))
       \/ /\ idempotency[order[h].key] # None
          /\ idempotency[order[h].key].hash # order[h].hash
          /\ Reply(h, [outcome |-> "conflict"])
       \/ /\ idempotency[order[h].key] = None
          /\ Goto(h, "insertInvoice")
          /\ UNCHANGED <<order, draft, answer, faults>>
    /\ UNCHANGED <<tables, locks>>

\* randomUUID() never returns an id that is in use.
InsertInvoice(h) ==
    /\ At(h, "insertInvoice")
    /\ \E i \in Invoices \ {draft[g] : g \in Handlers} :
           /\ invoices[i] = None
           /\ draft' = [draft EXCEPT ![h] = i]
    /\ Goto(h, "insertKey")
    /\ UNCHANGED <<tables, order, answer, faults, locks>>

\* Seeded fault: an idempotency record replaces the one that is there.
AlwaysInserts(h) == TRUE

\* No entry is in the way of the INSERT.
KeyIsFree(h) == order[h].key \notin KeyEntries

\* The INSERT succeeds, or fails with ER_DUP_ENTRY and rolls everything back.
InsertKey(h) ==
    /\ At(h, "insertKey")
    /\ IF KeyIsFree(h)
       THEN Goto(h, "commit") /\ Grant(h, Wants(h)) /\ UNCHANGED draft
       ELSE /\ Goto(h, "findWinner") /\ Rollback(h)
            /\ draft' = [draft EXCEPT ![h] = None]
    /\ UNCHANGED <<tables, order, answer, faults>>

Commit(h) ==
    LET o == order[h]
        i == draft[h]
    IN  /\ At(h, "commit")
        /\ invoices' = [invoices EXCEPT ![i] =
                           [total |-> o.total, status |-> "ISSUED", version |-> 1]]
        /\ idempotency' = [idempotency EXCEPT ![o.key] = [hash |-> o.hash, invoice |-> i]]
        /\ emit(i, "invoice.issued.v1", "ISSUED", None)
        /\ record(i, "invoice.created", None)
        /\ Release(h)
        /\ Reply(h, [outcome |-> "created", invoice |-> i])
        /\ UNCHANGED <<payments, refunds, receipts>>

\* The catch of ER_DUP_ENTRY: a new read, outside the transaction.
FindWinner(h) ==
    /\ At(h, "findWinner")
    /\ Reply(h, IF SameRequest(h) THEN Replay(h) ELSE [outcome |-> "conflict"])
    /\ UNCHANGED <<tables, locks>>

\* The answer reaches the client.
Answer(h) ==
    /\ pc[h] = "answer"
    /\ Goto(h, "idle")
    /\ order' = [order EXCEPT ![h] = None]
    /\ answer' = [answer EXCEPT ![h] = None]
    /\ UNCHANGED <<tables, draft, faults, locks>>

\* Waiting handlers have all written as much: any of the cycle may be chosen.
DeadlockVictim(h) ==
    /\ \E C \in WaitCycles(WaitsFor) : h \in C
    /\ Rollback(h)
    /\ Reply(h, [outcome |-> "error"])
    /\ UNCHANGED tables

\* A replica crashes, loses its connection or waits for a lock too long: what
\* is open rolls back, and what has committed is not answered.
Fault(h) ==
    /\ pc[h] # "idle" /\ answer[h] # [outcome |-> "error"]
    /\ faults < MaxFaults
    /\ faults' = faults + 1
    /\ Rollback(h)
    /\ Goto(h, "answer")
    /\ answer' = [answer EXCEPT ![h] = [outcome |-> "error"]]
    /\ draft' = [draft EXCEPT ![h] = None]
    /\ UNCHANGED <<tables, order>>

HandlerStep(h) ==
    \/ FindKey(h)
    \/ InsertInvoice(h)
    \/ InsertKey(h)
    \/ Commit(h)
    \/ FindWinner(h)
    \/ Answer(h)

CreateNext ==
    \/ \E h \in Handlers, o \in Orders : Receive(h, o)
    \/ \E h \in Handlers : HandlerStep(h)
    \/ \E h \in Handlers : DeadlockVictim(h)
    \/ \E h \in Handlers : Fault(h)

CreateSafety == CreateInit /\ [][CreateNext]_allVars

\* A replica goes on with what it has begun, the server grants locks that come
\* free and breaks deadlocks.  Clients need not send, and nothing need fail.
Fairness ==
    \A h \in Handlers : /\ WF_allVars(HandlerStep(h))
                       /\ WF_allVars(DeadlockVictim(h))

CreateSpec == CreateSafety /\ Fairness
-----------------------------------------------------------------------------
\* DRILLS.md: of many clients that send one key and body at the same time,
\* every one that succeeds is told the same invoice.  Whoever is told an
\* invoice, by the handler that created it, by a lookup or by the catch of
\* ER_DUP_ENTRY, is told the one that is on record for its key and its body.
AnswersAgree ==
    \A h \in Handlers :
        answer[h] # None /\ answer[h].outcome \in {"created", "replayed"} =>
            idempotency[order[h].key] = [hash |-> order[h].hash, invoice |-> answer[h].invoice]

\* A client that waits for another's transaction is answered in the end.
EveryRequestEnds ==
    \A h \in Handlers : pc[h] # "idle" ~> pc[h] = "idle"
=============================================================================
