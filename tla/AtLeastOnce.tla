---------------------------- MODULE AtLeastOnce ----------------------------
(***************************************************************************)
(* What the notification pipeline promises of an event that a transaction  *)
(* has put into the outbox: the provider gets it, once or more often, or   *)
(* the pipeline says that it gave up; a recorded success is true, final    *)
(* and the end of sending.                                                 *)
(***************************************************************************)
EXTENDS Naturals

CONSTANTS Events, None

VARIABLES
    committed,   \* the events whose transaction has committed
    accepted,    \* event -> how many times the provider has accepted it
    verdict      \* event -> what is on record of it, or None

vars == <<committed, accepted, verdict>>

Init ==
    /\ committed = {}
    /\ accepted = [e \in Events |-> 0]
    /\ verdict = [e \in Events |-> None]

Commit(e) ==
    /\ committed' = committed \cup {e}
    /\ UNCHANGED <<accepted, verdict>>

\* The provider accepts an event that nobody has recorded as delivered.
Accept(e) ==
    /\ e \in committed
    /\ verdict[e] # "SUCCEEDED"
    /\ accepted' = [accepted EXCEPT ![e] = @ + 1]
    /\ UNCHANGED <<committed, verdict>>

\* A success is recorded of what was accepted, even after it was given up.
Settle(e, v) ==
    /\ e \in committed
    /\ verdict[e] # "SUCCEEDED"
    /\ v = "SUCCEEDED" => accepted[e] > 0
    /\ verdict' = [verdict EXCEPT ![e] = v]
    /\ UNCHANGED <<committed, accepted>>

Next ==
    \E e \in Events :
        \/ Commit(e)
        \/ Accept(e)
        \/ \E v \in {"SUCCEEDED", "DEAD_LETTERED"} : Settle(e, v)

EverySettled == \A e \in Events : e \in committed ~> verdict[e] # None

Spec == Init /\ [][Next]_vars /\ EverySettled
=============================================================================
