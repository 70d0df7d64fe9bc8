------------------------------ MODULE RowLocks ------------------------------
(***************************************************************************)
(* The locks InnoDB keeps for open transactions, as far as the API's       *)
(* statements meet them.  External: MySQL is not part of the repository,   *)
(* and what is modelled is what its statements ask of the server.          *)
(*                                                                         *)
(* A lock is a triple <<index, id, mode>>.  "S" and "X" lock an entry that *)
(* is there.  A lookup that finds nothing has no entry to lock, so it      *)
(* locks the gap the entry would be in: one "gap" triple for every id that *)
(* falls into it.  Gap locks are compatible with each other and keep       *)
(* others from inserting; "insert" is the request that waits for them, and *)
(* leaves an "X" on the new entry.                                         *)
(***************************************************************************)
EXTENDS Integers

CONSTANT Transactions

VARIABLE locks    \* transaction -> the locks it holds

Conflict(wanted, held) ==
    /\ wanted[1] = held[1] /\ wanted[2] = held[2]
    /\ \/ wanted[3] = "X" /\ held[3] \in {"S", "X"}
       \/ wanted[3] = "S" /\ held[3] = "X"
       \/ wanted[3] = "insert" /\ held[3] \in {"gap", "S", "X"}

\* Whom a transaction waits for while it asks for these locks.
Holders(t, wanted) ==
    {u \in Transactions \ {t} : \E w \in wanted, l \in locks[u] : Conflict(w, l)}

Granted(wanted) ==
    {IF w[3] = "insert" THEN <<w[1], w[2], "X">> ELSE w : w \in wanted}

Grant(t, wanted) == locks' = [locks EXCEPT ![t] = @ \cup Granted(wanted)]

Release(t) == locks' = [locks EXCEPT ![t] = {}]

\* The entries of an index besides the committed ones: a pending insert is there too.
Pending(index) ==
    {l[2] : l \in {m \in UNION {locks[t] : t \in Transactions} :
                       m[1] = index /\ m[3] = "X"}}

\* The ids of no entry that share a gap with id.
Gap(ids, entries, id) ==
    {j \in ids \ entries : \A e \in entries : e < j <=> e < id}

\* What a locking read of one id asks for.
ReadLocks(index, ids, entries, id, mode) ==
    IF id \in entries
    THEN {<<index, id, mode>>}
    ELSE {<<index, j, "gap">> : j \in Gap(ids, entries, id)}

\* Sets whose every member waits for one of them and keeps one of them waiting.
WaitCycles(waitsFor) ==
    {C \in SUBSET Transactions :
        /\ C # {}
        /\ \A u \in C : /\ waitsFor[u] \cap C # {}
                        /\ \E w \in C : u \in waitsFor[w]}

\* The server rolls back, of a cycle, a transaction that has changed the
\* fewest rows.
VictimOf(t, waitsFor, rowsChanged) ==
    \E C \in WaitCycles(waitsFor) :
        t \in C /\ \A u \in C : rowsChanged[t] <= rowsChanged[u]
=============================================================================
