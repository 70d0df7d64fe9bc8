------------------------------ MODULE Tenants ------------------------------
(***************************************************************************)
(* Merchants and their stores: who comes into the database, and by what.   *)
(* A root merchant and its first store are provisioned by a command that   *)
(* an operator runs, scripts/provision-tenant.mjs, when the release with   *)
(* its schema is there; it may be run again, twice at a time, or with      *)
(* other data.  Everything else is changed by hand: the repository has no  *)
(* operation that moves or deactivates a merchant, only code that reads    *)
(* parents and activity and must cope with what it finds.                  *)
(*                                                                         *)
(* The command's transaction is InnoDB's default, REPEATABLE READ; both    *)
(* its SELECTs are FOR UPDATE and read, and lock, the latest rows.  Time   *)
(* zones, and the names of stores, are compared like the merchant's name.  *)
(***************************************************************************)
EXTENDS Migrations, RowLocks

CONSTANTS
    Merchants,   \* ids
    Stores,      \* ids
    Tenancies,   \* what operators ask for: [merchant, name, store, code]
    Chain,       \* the merchants of the previous release, each the parent of the next
    MaxChanges   \* bound: changes by hand

\* Codes of one digit, so that CodeOf is one-to-one; and a name of their own
\* for the merchants of the previous release, to tell them by.
ASSUME TenantAssumption ==
    /\ Merchants \cup Stores \subseteq Nat \ {0}
    /\ \A t \in Tenancies : /\ t.merchant \in Merchants /\ t.store \in Stores
                            /\ t.code \in 0 .. 9 /\ t.name # "Chain"
    /\ Chain \in Seq(Merchants)
    /\ MaxChanges \in Nat

VARIABLES
    merchants,    \* id -> [parent, name, active], or None
    stores,       \* id -> [merchant, code, active], or None
    provisioned,  \* merchant -> audit events "tenant.provisioned" of it
    command,      \* operator's terminal -> [at, asked, found]: the statement it is about to
                  \* execute, what it was asked for and the merchant it has read
    report,       \* what the command that has just ended reported, or None
    changes       \* how many changes by hand there have been

\* A terminal runs one command at a time, in one transaction.
Terminals == Transactions

tenantTables == <<merchants, stores, provisioned>>
commandVars == <<command, report, locks>>
tenantVars == <<tenantTables, commandVars, changes>>

AtRest == [at |-> "rest", asked |-> None, found |-> None]

MerchantRow ==
    [parent : Merchants \cup {None}, name : {t.name : t \in Tenancies} \cup {"Chain"},
     active : BOOLEAN]

StoreRow == [merchant : Merchants, code : 0 .. 9, active : BOOLEAN]

ASSUME RowsAssumption == None \notin Merchants \cup MerchantRow \cup StoreRow

TenantTypeOK ==
    /\ merchants \in [Merchants -> MerchantRow \cup {None}]
    /\ stores \in [Stores -> StoreRow \cup {None}]
    /\ provisioned \in [Merchants -> 0 .. 1]
    /\ \A c \in Terminals :
          \/ command[c] = AtRest
          \/ /\ command[c].asked \in Tenancies /\ command[c].found \in MerchantRow \cup {None}
             /\ command[c].at \in {"readMerchant", "readStores", "insertMerchant",
                                   "insertStore", "commit"}
    /\ report \in {"provisioned", "noop", "refused", "error", None}
    /\ changes \in 0 .. MaxChanges

\* The previous release may have merchants, one under the other, and a store
\* of the last one.
TenantInit ==
    /\ merchants = [m \in Merchants |->
           IF release = "previous" /\ \E n \in DOMAIN Chain : Chain[n] = m
           THEN [parent |-> LET n == CHOOSE n \in DOMAIN Chain : Chain[n] = m
                            IN  IF n = 1 THEN None ELSE Chain[n - 1],
                 name |-> "Chain", active |-> TRUE]
           ELSE None]
    /\ stores = [s \in Stores |->
           IF release = "previous" /\ s = 1 /\ Chain # <<>>
           THEN [merchant |-> Chain[Len(Chain)], code |-> 1, active |-> TRUE] ELSE None]
    /\ provisioned = [m \in Merchants |-> 0]
    /\ command = [c \in Terminals |-> AtRest]
    /\ report = None
    /\ locks = [c \in Terminals |-> {}]
    /\ changes = 0

-----------------------------------------------------------------------------
(* What the transactions lock                                              *)

\* An entry of the unique index (merchant_id, code).
CodeOf(merchant, code) == 10 * merchant + code

MerchantIds == {m \in Merchants : merchants[m] # None} \cup Pending("merchant")
StoreIds == {s \in Stores : stores[s] # None} \cup Pending("store")
CodeEntries ==
    {CodeOf(stores[s].merchant, stores[s].code) : s \in {r \in Stores : stores[r] # None}}
        \cup Pending("code")

Asked(c) == command[c].asked

AskedCode(c) == CodeOf(Asked(c).merchant, Asked(c).code)

\* The stores with the id or the code that is asked for.
Matches(c) ==
    {s \in Stores : stores[s] # None /\
        (s = Asked(c).store \/ CodeOf(stores[s].merchant, stores[s].code) = AskedCode(c))}

\* Seeded fault: a SELECT without FOR UPDATE.
WantsOnlyToInsert(c) ==
    IF command[c].at = "insertMerchant" THEN {<<"merchant", Asked(c).merchant, "insert">>}
    ELSE IF command[c].at = "insertStore"
         THEN {<<"store", Asked(c).store, "insert">>, <<"code", AskedCode(c), "insert">>}
         ELSE {}

Wants(c) ==
    CASE command[c].at = "readMerchant" ->
             ReadLocks("merchant", Merchants, MerchantIds, Asked(c).merchant, "X")
      [] command[c].at = "readStores" ->
             ReadLocks("store", Stores, StoreIds, Asked(c).store, "X")
             \cup ReadLocks("code", {CodeOf(t.merchant, t.code) : t \in Tenancies},
                            CodeEntries, AskedCode(c), "X")
             \cup {<<"store", s, "X">> : s \in Matches(c)}
      [] command[c].at = "insertMerchant" -> {<<"merchant", Asked(c).merchant, "insert">>}
      [] command[c].at = "insertStore" ->
             {<<"store", Asked(c).store, "insert">>, <<"code", AskedCode(c), "insert">>}
      [] OTHER -> {}

Blocked == [c \in Terminals |-> Holders(c, Wants(c))]

-----------------------------------------------------------------------------
(* provision-tenant.mjs                                                    *)

At(c, statement) == command[c].at = statement /\ Blocked[c] = {}

Proceed(c, statement, merchant) ==
    /\ command' = [command EXCEPT ![c].at = statement, ![c].found = merchant]
    /\ Grant(c, Wants(c))
    /\ report' = None
    /\ UNCHANGED tenantTables

\* Seeded fault: the connection stays open.
ReportAndStay(c, what) ==
    /\ command' = [command EXCEPT ![c] = AtRest]
    /\ report' = what
    /\ UNCHANGED locks

\* COMMIT, or ROLLBACK, and the end of the process.
Report(c, what) ==
    /\ command' = [command EXCEPT ![c] = AtRest]
    /\ report' = what
    /\ Release(c)

Run(c, t) ==
    /\ release = "current"
    /\ command[c] = AtRest
    /\ command' = [command EXCEPT ![c] = [at |-> "readMerchant", asked |-> t, found |-> None]]
    /\ report' = None
    /\ UNCHANGED <<tenantTables, locks, changes>>

ReadMerchant(c) ==
    /\ At(c, "readMerchant")
    /\ Proceed(c, "readStores", merchants[Asked(c).merchant])
    /\ UNCHANGED changes

exactMerchant(row, t) == row = [parent |-> None, name |-> t.name, active |-> TRUE]

exactStore(row, t) == row = [merchant |-> t.merchant, code |-> t.code, active |-> TRUE]

\* Whichever of two matching stores comes first: one that is exact is the only one.
ReadStores(c) ==
    /\ At(c, "readStores")
    /\ \/ /\ command[c].found = None /\ Matches(c) = {}
          /\ Proceed(c, "insertMerchant", None)
       \/ /\ command[c].found # None \/ Matches(c) # {}
          /\ IF /\ exactMerchant(command[c].found, Asked(c))
                /\ exactStore(stores[Asked(c).store], Asked(c))
             THEN Report(c, "noop") ELSE Report(c, "refused")
          /\ UNCHANGED tenantTables
    /\ UNCHANGED changes

InsertMerchant(c) ==
    /\ At(c, "insertMerchant")
    /\ IF merchants[Asked(c).merchant] = None
       THEN Proceed(c, "insertStore", None)
       ELSE Report(c, "error") /\ UNCHANGED tenantTables   \* ER_DUP_ENTRY
    /\ UNCHANGED changes

InsertStore(c) ==
    /\ At(c, "insertStore")
    /\ IF Matches(c) = {}
       THEN Proceed(c, "commit", None)
       ELSE Report(c, "error") /\ UNCHANGED tenantTables   \* ER_DUP_ENTRY
    /\ UNCHANGED changes

\* The audit event, and COMMIT.
Commit(c) ==
    LET t == Asked(c)
    IN  /\ At(c, "commit")
        /\ merchants' = [merchants EXCEPT ![t.merchant] =
                            [parent |-> None, name |-> t.name, active |-> TRUE]]
        /\ stores' = [stores EXCEPT ![t.store] =
                         [merchant |-> t.merchant, code |-> t.code, active |-> TRUE]]
        /\ provisioned' = [provisioned EXCEPT ![t.merchant] = @ + 1]
        /\ Report(c, "provisioned")
        /\ UNCHANGED changes

\* Seeded fault: without beginTransaction, what was inserted stays.
LeaveInserted(c) ==
    /\ command[c] # AtRest
    /\ merchants' = IF command[c].at \in {"insertStore", "commit"}
                    THEN [merchants EXCEPT ![Asked(c).merchant] =
                             [parent |-> None, name |-> Asked(c).name, active |-> TRUE]]
                    ELSE merchants
    /\ Report(c, "error")
    /\ UNCHANGED <<stores, provisioned, changes>>

\* MySQL breaks a deadlock, or the process or its connection dies: rolled back.
Fail(c) ==
    /\ command[c] # AtRest
    /\ Report(c, "error")
    /\ UNCHANGED <<tenantTables, changes>>

RowsInserted ==
    [c \in Terminals |-> CASE command[c].at = "insertStore" -> 1
                           [] command[c].at = "commit" -> 2
                           [] OTHER -> 0]

Deadlock(c) == VictimOf(c, Blocked, RowsInserted) /\ Fail(c)

CommandStep(c) ==
    ReadMerchant(c) \/ ReadStores(c) \/ InsertMerchant(c) \/ InsertStore(c) \/ Commit(c)

-----------------------------------------------------------------------------
(* By hand                                                                 *)

Unlocked(index, id) ==
    \A c \in Terminals : \A l \in locks[c] : l[1] = index /\ l[2] = id => l[3] = "gap"

\* A merchant is moved or its activity changed; the foreign key wants a parent
\* that is there, and admits cycles.
ChangeMerchant(m, parent, active) ==
    /\ changes < MaxChanges
    /\ merchants[m] # None /\ Unlocked("merchant", m)
    /\ parent = None \/ (parent \in Merchants /\ merchants[parent] # None)
    /\ merchants' = [merchants EXCEPT ![m].parent = parent, ![m].active = active]
    /\ changes' = changes + 1
    /\ report' = None
    /\ UNCHANGED <<stores, provisioned, command, locks>>

ChangeStore(s, active) ==
    /\ changes < MaxChanges
    /\ stores[s] # None /\ Unlocked("store", s)
    /\ stores' = [stores EXCEPT ![s].active = active]
    /\ changes' = changes + 1
    /\ report' = None
    /\ UNCHANGED <<merchants, provisioned, command, locks>>

ByHand ==
    \/ \E m \in Merchants, parent \in Merchants \cup {None}, active \in BOOLEAN :
          ChangeMerchant(m, parent, active)
    \/ \E s \in Stores, active \in BOOLEAN : ChangeStore(s, active)

CommandNext ==
    \/ \E c \in Terminals, t \in Tenancies : Run(c, t)
    \/ \E c \in Terminals : CommandStep(c) \/ Deadlock(c) \/ Fail(c)

-----------------------------------------------------------------------------
\* SCOPE_MATRIX.md: transactional audit.  A merchant that was provisioned has
\* its store, and one audit event says so, however many commands ran at once
\* and wherever they died.
TenantIsWhole ==
    \A m \in Merchants :
        IF merchants[m] = None \/ merchants[m].name = "Chain" THEN provisioned[m] = 0
        ELSE /\ provisioned[m] = 1
             /\ \E s \in Stores : stores[s] # None /\ stores[s].merchant = m

\* What the command that ends in a step reports of its tenant.
ReportIsTrue(c) ==
    LET t == Asked(c)
        exact == exactMerchant(merchants[t.merchant], t) /\ exactStore(stores[t.store], t)
    IN  command[c] # AtRest /\ command'[c] = AtRest =>
            CASE report' = "noop" -> exact
              [] report' = "refused" -> ~exact /\ (merchants[t.merchant] # None \/ Matches(c) # {})
              [] report' = "provisioned" -> merchants[t.merchant] = None /\ Matches(c) = {}
              [] OTHER -> TRUE

\* PRODUCTION_GO_LIVE.md: a rerun must report noop, while any mismatch must
\* stop.  What a command reports is true of the tables when it reports it:
\* "noop" of a tenant that is exactly the one asked for, "refused" of one that
\* differs, "provisioned" of one of which there was nothing.
ReportsAreTrue == [][\A c \in Terminals : ReportIsTrue(c)]_tenantVars

\* A command ends: two for the same tenant, that wait for each other, too.
EveryCommandEnds == \A c \in Terminals : command[c] # AtRest ~> command[c] = AtRest
=============================================================================
