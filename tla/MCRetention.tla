---------------------------- MODULE MCRetention ----------------------------
(***************************************************************************)
(* An instance of Retention for TLC.                                       *)
(***************************************************************************)
EXTENDS Retention

CONSTANT Key

OneBody == {[key |-> Key, hash |-> 1, total |-> 1]}

CaptureOf(event, hash, payment, invoice) ==
    [event |-> event, hash |-> hash, type |-> "payment.captured", payment |-> payment,
     refund |-> None, invoice |-> invoice, amount |-> 1]

\* A payment of the first invoice, and another body under its event id, which
\* pays the second one.
OriginalAndAltered == {CaptureOf("e1", 1, "p1", 1), CaptureOf("e1", 2, "p2", 2)}

FirstNotice == {<<1, 1>>}

\* Both bodies tell of the same time; one that is over is as good as never sent.
OneOccurrence == \A c, d \in Callbacks : occurred[c] = occurred[d] /\ occurred[c] <= Window

RunInit == RetentionInit /\ OneOccurrence

RunSpec == RunInit /\ [][RetentionNext]_retentionVars /\ RetentionFairness
=============================================================================
