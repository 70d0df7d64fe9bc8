-------------------------- MODULE CreateTxProofs --------------------------
(***************************************************************************)
(* Theorems about InvoiceService.create: for any handlers, keys, orders    *)
(* and faults, whoever is told an invoice is told the one on record, and   *)
(* what the handlers do to the tables is what Billing allows.              *)
(***************************************************************************)
EXTENDS CreateTx, BillingProofs

-----------------------------------------------------------------------------
(* The invariant                                                           *)

\* A handler between the two INSERTs and COMMIT has drawn an id.
Writing == {"insertKey", "commit"}

Locks == {"keys"} \X Keys \X {"S", "X", "gap"}

KeyLock(h) == <<"keys", order[h].key, "X">>

CreateTypes ==
    /\ TypeOK
    /\ pc \in [Handlers -> Statements \cup {"idle", "answer"}]
    /\ order \in [Handlers -> Orders \cup {None}]
    /\ draft \in [Handlers -> Invoices \cup {None}]
    /\ answer \in [Handlers -> Answers \cup {None}]
    /\ faults \in 0 .. MaxFaults
    /\ locks \in [Handlers -> SUBSET Locks]

\* Outside of its INSERTs a handler holds nothing; it works on a request and
\* has an answer only at the end.
WorkOf(h) ==
    /\ pc[h] # "idle" => order[h] \in Orders
    /\ pc[h] # "answer" => answer[h] = None
    /\ pc[h] \notin Writing => locks[h] = {}
    /\ pc[h] \in Writing => draft[h] \in Invoices /\ invoices[draft[h]] = None
    /\ pc[h] = "commit" => /\ idempotency[order[h].key] = None
                           /\ KeyLock(h) \in locks[h]

\* Two handlers draw two ids, and only one can come to commit for a key.
Apart(g, h) ==
    /\ pc[g] \in Writing /\ pc[h] \in Writing => draft[g] # draft[h]
    /\ pc[g] = "commit" /\ pc[h] = "commit" => order[g].key # order[h].key

\* What AnswersAgree says of one handler.
AnswerOf(h) ==
    answer[h] # None /\ answer[h].outcome \in {"created", "replayed"} =>
        idempotency[order[h].key] = [hash |-> order[h].hash, invoice |-> answer[h].invoice]

CreateInv ==
    /\ CreateTypes
    /\ \A h \in Handlers : WorkOf(h) /\ AnswerOf(h)
    /\ \A g, h \in Handlers : g # h => Apart(g, h)

-----------------------------------------------------------------------------
(* Locks                                                                   *)

\* What a statement asks for and is granted are locks of the index of keys.
LEMMA WantsTypes ==
    ASSUME CreateTypes, NEW h \in Handlers, WorkOf(h)
    PROVE  Granted(Wants(h)) \subseteq Locks
<1>1. CASE pc[h] # "insertKey"
  BY <1>1 DEF Wants, Granted
<1>2. CASE pc[h] = "insertKey"
  <2>1. order[h].key \in Keys
    BY <1>2, RequestTypes DEF WorkOf
  <2> QED
    BY <1>2, <2>1 DEF Wants, Granted, Locks
<1> QED
  BY <1>1, <1>2

\* A rollback takes h's locks away; the others keep theirs, and who was not
\* waiting gets none.
LEMMA RollbackLocks ==
    ASSUME CreateTypes, NEW h \in Handlers, \A g \in Handlers : WorkOf(g), Rollback(h)
    PROVE  /\ locks' \in [Handlers -> SUBSET Locks]
           /\ locks'[h] = {}
           /\ \A g \in Handlers \ {h} : /\ locks[g] \subseteq locks'[g]
                                        /\ pc[g] \notin Writing => locks'[g] = locks[g]
<1>1. ASSUME NEW g \in Handlers
      PROVE  /\ Bequeathed(g, h) \subseteq Locks
             /\ pc[g] # "insertKey" => Bequeathed(g, h) = {}
  <2>1. CASE pc[g] # "insertKey"
    <3>1. Wants(g) = {}
      BY <2>1 DEF Wants
    <3> QED
      BY <3>1, <2>1 DEF Bequeathed
  <2>2. CASE pc[g] = "insertKey"
    <3>1. order[g].key \in Keys
      BY <2>2, RequestTypes DEF WorkOf
    <3>2. Wants(g) \in {{<<"keys", order[g].key, "S">>}, {<<"keys", order[g].key, "insert">>}}
      BY <2>2 DEF Wants
    <3>3. \A w \in Wants(g) : w[1] = "keys" /\ w[2] = order[g].key
      BY <3>2
    <3> QED
      BY <2>2, <3>1, <3>3 DEF Bequeathed, Locks
  <2> QED
    BY <2>1, <2>2
<1>2. locks' = [g \in Handlers |-> IF g = h THEN {} ELSE locks[g] \cup Bequeathed(g, h)]
  BY DEF Rollback
<1> HIDE DEF Locks
<1>3. locks' \in [Handlers -> SUBSET Locks]
  BY <1>1, <1>2 DEF CreateTypes
<1> QED
  BY <1>1, <1>2, <1>3 DEF Writing

-----------------------------------------------------------------------------
(* One lemma per action                                                    *)

LEMMA CreateInvInit == CreateInit => CreateInv
BY TypeOKInit, FaultsAssumption
DEF CreateInit, CreateInv, CreateTypes, WorkOf, AnswerOf, Apart, Writing, Init

LEMMA ReceiveKeeps ==
    ASSUME CreateInv, NEW h \in Handlers, NEW o \in Orders, Receive(h, o)
    PROVE  CreateInv'
<1>1. CreateTypes'
  BY DEF CreateInv, CreateTypes, TypeOK, Receive, Goto, Statements, tables
<1>2. \A g \in Handlers : WorkOf(g)' /\ AnswerOf(g)'
  BY DEF CreateInv, CreateTypes, WorkOf, AnswerOf, Writing, KeyLock, Receive, Goto, tables
<1>3. \A f, g \in Handlers : f # g => Apart(f, g)'
  BY DEF CreateInv, CreateTypes, Apart, Writing, Receive, Goto, tables
<1> QED
  BY <1>1, <1>2, <1>3 DEF CreateInv

\* An answer read from the record of the handler's key agrees with it.
LEMMA ReplayAgrees ==
    ASSUME CreateInv, NEW h \in Handlers, order[h] \in Orders, SameRequest(h)
    PROVE  /\ Replay(h) \in Answers
           /\ idempotency[order[h].key] =
                  [hash |-> order[h].hash, invoice |-> Replay(h).invoice]
<1>1. order[h].key \in Keys
  BY RequestTypes
<1>2. idempotency[order[h].key] \in KeyRow
  BY <1>1 DEF CreateInv, CreateTypes, TypeOK, SameRequest
<1> QED
  BY <1>2 DEF SameRequest, Replay, KeyRow, Answers

\* The handler is at its answer, and what it held is gone.
Ends(h, what) ==
    /\ pc' = [pc EXCEPT ![h] = "answer"]
    /\ answer' = [answer EXCEPT ![h] = what]
    /\ draft' = [draft EXCEPT ![h] = None]
    /\ order' = order
    /\ locks' \in [Handlers -> SUBSET Locks]
    /\ locks'[h] = {}
    /\ \A g \in Handlers \ {h} : /\ locks[g] \subseteq locks'[g]
                                 /\ pc[g] \notin Writing => locks'[g] = locks[g]

\* An end without COMMIT, with an answer that is on record or an error.
LEMMA EndKeeps ==
    ASSUME CreateInv, NEW h \in Handlers, pc[h] # "idle", UNCHANGED tables,
           NEW what \in Answers, Ends(h, what), faults' \in 0 .. MaxFaults,
           what.outcome \in {"created", "replayed"} =>
               idempotency[order[h].key] = [hash |-> order[h].hash, invoice |-> what.invoice]
    PROVE  CreateInv'
<1>1. CreateTypes'
  BY DEF CreateInv, CreateTypes, TypeOK, Ends, tables
<1> HIDE DEF Locks
<1>2. \A g \in Handlers : WorkOf(g)' /\ AnswerOf(g)'
  BY DEF CreateInv, CreateTypes, WorkOf, AnswerOf, Writing, KeyLock, Ends, tables
<1>3. \A f, g \in Handlers : f # g => Apart(f, g)'
  BY DEF CreateInv, CreateTypes, Apart, Writing, Ends
<1> QED
  BY <1>1, <1>2, <1>3 DEF CreateInv

\* The lookups before and after the transaction hold nothing and release nothing.
LEMMA LookupEnds ==
    ASSUME CreateInv, NEW h \in Handlers, pc[h] \notin Writing, UNCHANGED locks,
           NEW what, Reply(h, what)
    PROVE  Ends(h, what)
BY DEF CreateInv, CreateTypes, WorkOf, Reply, Goto, Ends

LEMMA RollbackEnds ==
    ASSUME CreateInv, NEW h \in Handlers, Rollback(h), order' = order,
           NEW what, pc' = [pc EXCEPT ![h] = "answer"],
           answer' = [answer EXCEPT ![h] = what], draft' = [draft EXCEPT ![h] = None]
    PROVE  Ends(h, what)
BY RollbackLocks DEF CreateInv, Ends

LEMMA FindKeyKeeps ==
    ASSUME CreateInv, NEW h \in Handlers, FindKey(h)
    PROVE  CreateInv'
<1>1. /\ pc[h] = "findKey" /\ order[h] \in Orders
      /\ UNCHANGED <<tables, locks, order, faults>>
      /\ faults \in 0 .. MaxFaults
  BY DEF FindKey, Reply, At, CreateInv, CreateTypes, WorkOf
<1>2. CASE Goto(h, "insertInvoice") /\ UNCHANGED <<draft, answer>>
  <2>1. CreateTypes'
    BY <1>1, <1>2 DEF CreateInv, CreateTypes, TypeOK, Goto, Statements, tables
  <2>2. \A g \in Handlers : WorkOf(g)' /\ AnswerOf(g)'
    BY <1>1, <1>2 DEF CreateInv, CreateTypes, WorkOf, AnswerOf, Writing, KeyLock, Goto, tables
  <2>3. \A f, g \in Handlers : f # g => Apart(f, g)'
    BY <1>1, <1>2 DEF CreateInv, CreateTypes, Apart, Writing, Goto
  <2> QED
    BY <2>1, <2>2, <2>3 DEF CreateInv
<1>3. ASSUME NEW what \in Answers, Reply(h, what),
             what.outcome \in {"created", "replayed"} =>
                 idempotency[order[h].key] = [hash |-> order[h].hash, invoice |-> what.invoice]
      PROVE  CreateInv'
  BY <1>1, <1>3, LookupEnds, EndKeeps DEF Writing
<1> QED
  BY <1>1, <1>2, <1>3, ReplayAgrees DEF FindKey, Answers

LEMMA FindWinnerKeeps ==
    ASSUME CreateInv, NEW h \in Handlers, FindWinner(h)
    PROVE  CreateInv'
<1>1. /\ pc[h] = "findWinner" /\ order[h] \in Orders
      /\ UNCHANGED <<tables, locks, order, faults>>
      /\ faults \in 0 .. MaxFaults
  BY DEF FindWinner, Reply, At, CreateInv, CreateTypes, WorkOf
<1>2. ASSUME NEW what \in Answers, Reply(h, what),
             what.outcome \in {"created", "replayed"} =>
                 idempotency[order[h].key] = [hash |-> order[h].hash, invoice |-> what.invoice]
      PROVE  CreateInv'
  BY <1>1, <1>2, LookupEnds, EndKeeps DEF Writing
<1> QED
  BY <1>1, <1>2, ReplayAgrees DEF FindWinner, Answers

LEMMA ErrorKeeps ==
    ASSUME CreateInv, NEW h \in Handlers, DeadlockVictim(h) \/ Fault(h)
    PROVE  CreateInv'
<1>1. [outcome |-> "error"] \in Answers
  BY DEF Answers
<1>2. /\ UNCHANGED tables
      /\ Ends(h, [outcome |-> "error"])
      /\ faults' \in 0 .. MaxFaults
  BY RollbackEnds, FaultsAssumption
  DEF DeadlockVictim, Fault, Reply, Goto, CreateInv, CreateTypes
<1>3. pc[h] # "idle"
  <2>1. DeadlockVictim(h) => pc[h] = "insertKey"
    BY DEF DeadlockVictim, WaitCycles, WaitsFor, Holders, Wants
  <2> QED
    BY <2>1 DEF Fault
<1> QED
  BY <1>1, <1>2, <1>3, EndKeeps

LEMMA AnswerKeeps ==
    ASSUME CreateInv, NEW h \in Handlers, Answer(h)
    PROVE  CreateInv'
<1>1. CreateTypes'
  BY DEF CreateInv, CreateTypes, TypeOK, Answer, Goto, tables
<1>2. \A g \in Handlers : WorkOf(g)' /\ AnswerOf(g)'
  BY DEF CreateInv, CreateTypes, WorkOf, AnswerOf, Writing, KeyLock, Answer, Goto, tables
<1>3. \A f, g \in Handlers : f # g => Apart(f, g)'
  BY DEF CreateInv, CreateTypes, Apart, Writing, Answer, Goto
<1> QED
  BY <1>1, <1>2, <1>3 DEF CreateInv

LEMMA InsertInvoiceKeeps ==
    ASSUME CreateInv, NEW h \in Handlers, InsertInvoice(h)
    PROVE  CreateInv'
<1>1. PICK i \in Invoices \ {draft[g] : g \in Handlers} :
          invoices[i] = None /\ draft' = [draft EXCEPT ![h] = i]
  BY DEF InsertInvoice
<1>2. /\ pc[h] = "insertInvoice" /\ pc' = [pc EXCEPT ![h] = "insertKey"]
      /\ UNCHANGED <<tables, order, answer, faults, locks>>
  BY DEF InsertInvoice, At, Goto
<1>3. CreateTypes'
  BY <1>1, <1>2 DEF CreateInv, CreateTypes, TypeOK, Statements, tables
<1>4. \A g \in Handlers : WorkOf(g)' /\ AnswerOf(g)'
  BY <1>1, <1>2 DEF CreateInv, CreateTypes, WorkOf, AnswerOf, Writing, KeyLock, tables
<1>5. \A f, g \in Handlers : f # g => Apart(f, g)'
  BY <1>1, <1>2 DEF CreateInv, CreateTypes, Apart, Writing
<1> QED
  BY <1>3, <1>4, <1>5 DEF CreateInv

\* The unique index of idempotency_records: a key nobody holds and nobody has
\* committed becomes the handler's.
LEMMA InsertKeyKeeps ==
    ASSUME CreateInv, NEW h \in Handlers, InsertKey(h)
    PROVE  CreateInv'
<1>1. /\ pc[h] = "insertKey" /\ order[h] \in Orders /\ order[h].key \in Keys
      /\ UNCHANGED <<tables, order, answer, faults>>
  BY RequestTypes DEF InsertKey, At, CreateInv, WorkOf
<1>2. CASE KeyIsFree(h)
  <2>1. /\ pc' = [pc EXCEPT ![h] = "commit"]
        /\ draft' = draft
        /\ locks' = [locks EXCEPT ![h] = @ \cup Granted(Wants(h))]
    BY <1>2 DEF InsertKey, Goto, Grant
  <2>2. Granted(Wants(h)) = {KeyLock(h)}
    <3>1. Wants(h) = {<<"keys", order[h].key, "insert">>}
      BY <1>1, <1>2 DEF Wants, KeyIsFree
    <3> QED
      BY <3>1 DEF Granted, KeyLock
  <2>3. idempotency[order[h].key] = None
    BY <1>1, <1>2 DEF KeyIsFree, KeyEntries
  <2>4. ASSUME NEW g \in Handlers, pc[g] = "commit" PROVE order[g].key # order[h].key
    <3>1. KeyLock(g) \in UNION {locks[t] : t \in Transactions}
      BY <2>4 DEF CreateInv, WorkOf, Handlers
    <3>2. order[g].key \in KeyEntries
      BY <3>1 DEF KeyEntries, Pending, KeyLock
    <3> QED
      BY <1>2, <3>2 DEF KeyIsFree
  <2>5. CreateTypes'
    BY <1>1, <2>1, <2>2 DEF CreateInv, CreateTypes, TypeOK, Statements, KeyLock, Locks, tables
  <2>6. \A g \in Handlers : WorkOf(g)' /\ AnswerOf(g)'
    BY <1>1, <2>1, <2>2, <2>3
    DEF CreateInv, CreateTypes, WorkOf, AnswerOf, Writing, KeyLock, tables
  <2>7. \A f, g \in Handlers : f # g => Apart(f, g)'
    BY <1>1, <2>1, <2>4 DEF CreateInv, CreateTypes, Apart, Writing
  <2> QED
    BY <2>5, <2>6, <2>7 DEF CreateInv
<1>3. CASE ~KeyIsFree(h)
  <2>1. /\ pc' = [pc EXCEPT ![h] = "findWinner"]
        /\ draft' = [draft EXCEPT ![h] = None]
        /\ Rollback(h)
    BY <1>3 DEF InsertKey, Goto
  <2>2. /\ locks' \in [Handlers -> SUBSET Locks]
        /\ locks'[h] = {}
        /\ \A g \in Handlers \ {h} : /\ locks[g] \subseteq locks'[g]
                                     /\ pc[g] \notin Writing => locks'[g] = locks[g]
    BY <2>1, RollbackLocks DEF CreateInv
  <2>3. CreateTypes'
    BY <1>1, <2>1, <2>2 DEF CreateInv, CreateTypes, TypeOK, Statements, tables
  <2> HIDE DEF Locks
  <2>4. \A g \in Handlers : WorkOf(g)' /\ AnswerOf(g)'
    BY <1>1, <2>1, <2>2 DEF CreateInv, CreateTypes, WorkOf, AnswerOf, Writing, KeyLock, tables
  <2>5. \A f, g \in Handlers : f # g => Apart(f, g)'
    BY <1>1, <2>1 DEF CreateInv, CreateTypes, Apart, Writing
  <2> QED
    BY <2>3, <2>4, <2>5 DEF CreateInv
<1> QED
  BY <1>2, <1>3

-----------------------------------------------------------------------------
(* COMMIT                                                                  *)

\* The refinement: of all statements only COMMIT changes the tables, and it
\* does what Billing's action does.
LEMMA CommitCreates ==
    ASSUME CreateInv, NEW h \in Handlers, Commit(h)
    PROVE  CreateInvoice(order[h], draft[h])
BY DEF CreateInv, WorkOf, Writing, Commit, At, CreateInvoice, KeyIsNew

LEMMA CommitKeeps ==
    ASSUME CreateInv, NEW h \in Handlers, Commit(h)
    PROVE  CreateInv'
<1> DEFINE k == order[h].key
           i == draft[h]
           what == [outcome |-> "created", invoice |-> i]
<1>1. /\ pc[h] = "commit" /\ order[h] \in Orders /\ k \in Keys /\ order[h].hash \in Nat
      /\ i \in Invoices /\ invoices[i] = None /\ idempotency[k] = None
  BY RequestTypes DEF Commit, At, CreateInv, WorkOf, Writing
<1>2. /\ \A j \in Invoices \ {i} : invoices'[j] = invoices[j]
      /\ \A l \in Keys \ {k} : idempotency'[l] = idempotency[l]
      /\ idempotency'[k] = [hash |-> order[h].hash, invoice |-> i]
  BY <1>1 DEF Commit, CreateInv, CreateTypes, TypeOK
<1>3. /\ pc' = [pc EXCEPT ![h] = "answer"] /\ answer' = [answer EXCEPT ![h] = what]
      /\ draft' = [draft EXCEPT ![h] = None] /\ locks' = [locks EXCEPT ![h] = {}]
      /\ order' = order /\ faults' = faults
  BY DEF Commit, Reply, Goto, Release
<1>4. CreateTypes'
  <2>1. TypeOK'
    BY <1>1, CommitCreates, TypeOKStep DEF CreateInv, CreateTypes, Next
  <2>2. what \in Answers
    BY <1>1 DEF Answers
  <2> HIDE DEF what
  <2> QED
    BY <1>3, <2>1, <2>2 DEF CreateInv, CreateTypes
<1>5. WorkOf(h)' /\ AnswerOf(h)'
  BY <1>1, <1>2, <1>3 DEF CreateInv, CreateTypes, WorkOf, AnswerOf, Writing
<1>6. ASSUME NEW g \in Handlers \ {h} PROVE WorkOf(g)' /\ AnswerOf(g)'
  <2>1. /\ pc'[g] = pc[g] /\ answer'[g] = answer[g] /\ draft'[g] = draft[g]
        /\ order'[g] = order[g] /\ locks'[g] = locks[g]
    BY <1>3 DEF CreateInv, CreateTypes
  <2>2. WorkOf(g) /\ AnswerOf(g) /\ Apart(g, h)
    BY DEF CreateInv
  <2>3. pc[g] # "idle" => order[g].key \in Keys /\ order[g].hash \in Nat
    BY <2>2, RequestTypes DEF WorkOf
  <2>4. WorkOf(g)'
    BY <1>1, <1>2, <2>1, <2>2, <2>3 DEF WorkOf, Writing, KeyLock, Apart
  <2>5. ASSUME answer[g] # None, answer[g].outcome \in {"created", "replayed"}
        PROVE  idempotency'[order[g].key] = idempotency[order[g].key]
    <3>1. pc[g] # "idle" /\ order[g].key \in Keys /\ order[g].hash \in Nat
      BY <2>2, <2>3, <2>5 DEF WorkOf
    <3>2. answer[g].invoice \in Invoices
      BY <2>5 DEF CreateInv, CreateTypes, Answers
    <3>3. idempotency[order[g].key] \in KeyRow
      BY <2>2, <2>5, <3>1, <3>2 DEF AnswerOf, KeyRow
    <3>4. idempotency[order[g].key] # None
      BY <3>3, NoneAssumption
    <3> QED
      BY <1>1, <1>2, <3>1, <3>4
  <2>6. AnswerOf(g)'
    BY <2>1, <2>2, <2>5 DEF AnswerOf
  <2> QED
    BY <2>4, <2>6
<1>7. \A f, g \in Handlers : f # g => Apart(f, g)'
  BY <1>3 DEF CreateInv, CreateTypes, Apart, Writing
<1> QED
  BY <1>4, <1>5, <1>6, <1>7 DEF CreateInv

-----------------------------------------------------------------------------
(* The theorems                                                            *)

LEMMA CreateInvStep == CreateInv /\ [CreateNext]_allVars => CreateInv'
<1> SUFFICES ASSUME CreateInv, [CreateNext]_allVars PROVE CreateInv'
  OBVIOUS
<1>1. CASE UNCHANGED allVars
  BY <1>1 DEF allVars, tables, createVars, CreateInv, CreateTypes, TypeOK, WorkOf, AnswerOf,
              Apart, KeyLock
<1>2. ASSUME NEW h \in Handlers, HandlerStep(h) PROVE CreateInv'
  BY <1>2, FindKeyKeeps, InsertInvoiceKeeps, InsertKeyKeeps, CommitKeeps, FindWinnerKeeps,
     AnswerKeeps DEF HandlerStep
<1> QED
  BY <1>1, <1>2, ReceiveKeeps, ErrorKeeps DEF CreateNext

LEMMA CreateInvAlways == CreateSafety => []CreateInv
BY CreateInvInit, CreateInvStep, PTL DEF CreateSafety

\* What a handler keeps has its type, and one that is not in its transaction
\* holds no lock.
THEOREM CreateTypeCorrect == CreateSafety => []CreateTypeOK
<1>1. CreateInv => CreateTypeOK
  BY DEF CreateInv, CreateTypes, CreateTypeOK, WorkOf, Writing
<1> QED
  BY <1>1, CreateInvAlways, PTL

\* Whoever is told an invoice is told the one on record for its key and body:
\* however many handlers race for the key, and whichever of them roll back.
THEOREM AnswersAlwaysAgree == CreateSafety => []AnswersAgree
<1>1. CreateInv => AnswersAgree
  BY DEF CreateInv, AnswersAgree, AnswerOf
<1> QED
  BY <1>1, CreateInvAlways, PTL

\* InvoiceService.create, statement by statement, does to the tables what the
\* one action CreateInvoice of Billing does, and nothing else.
THEOREM CreateTxImplementsBilling == CreateSafety => Spec
<1>1. CreateInit => Init
  BY DEF CreateInit
<1>2. CreateInv /\ [CreateNext]_allVars => [Next]_vars
  <2> SUFFICES ASSUME CreateInv, [CreateNext]_allVars PROVE Next \/ UNCHANGED vars
    OBVIOUS
  <2>1. CASE UNCHANGED allVars
    BY <2>1 DEF allVars, tables, vars
  <2>2. ASSUME NEW h \in Handlers, Commit(h) PROVE Next
    BY <2>2, CommitCreates DEF CreateInv, WorkOf, Writing, Commit, At, Next
  <2>3. ASSUME NEW h \in Handlers, HandlerStep(h), ~Commit(h) PROVE UNCHANGED vars
    BY <2>3 DEF HandlerStep, FindKey, InsertInvoice, InsertKey, FindWinner, Answer, tables, vars
  <2>4. ASSUME NEW h \in Handlers, DeadlockVictim(h) \/ Fault(h) PROVE UNCHANGED vars
    BY <2>4 DEF DeadlockVictim, Fault, tables, vars
  <2>5. ASSUME NEW h \in Handlers, NEW o \in Orders, Receive(h, o) PROVE UNCHANGED vars
    BY <2>5 DEF Receive, tables, vars
  <2> QED
    BY <2>1, <2>2, <2>3, <2>4, <2>5 DEF CreateNext
<1> QED
  BY <1>1, <1>2, CreateInvAlways, PTL DEF CreateSafety, Spec

=============================================================================
