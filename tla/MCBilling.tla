----------------------------- MODULE MCBilling -----------------------------
(***************************************************************************)
(* Instances of Billing for TLC.                                           *)
(***************************************************************************)
EXTENDS Billing, FiniteSetsExt, TLC

CONSTANT MaxAmount   \* bound: the largest amount a callback carries

\* A free invoice, one a single largest payment completes, and one that takes
\* two payments; orders for another total are other bodies.
MCOrders == {o \in [key : Keys, hash : 0 .. MaxAmount + 1, total : {0, MaxAmount, MaxAmount + 1}] :
                o.hash = o.total}

MCCallbacks ==
    [event : Events, hash : {1}, type : {"payment.captured"}, payment : Payments,
     refund : {None}, invoice : Invoices, amount : 1 .. MaxAmount]
    \cup
    [event : Events, hash : {1}, type : {"payment.refunded"}, payment : Payments,
     refund : Refunds \cup {None}, invoice : Invoices, amount : 1 .. MaxAmount]

\* Sums by the library's fold: what SumMinor must agree with.
FoldSum(f) == MapThenSumSet(LAMBDA s : f[s], DOMAIN f)

ASSUME \A S \in SUBSET {1, 2, 3} : \A f \in [S -> 0 .. 3] : SumMinor(f) = FoldSum(f)

\* Ids are opaque: no action or property orders them.
Ids == Permutations(Invoices) \cup Permutations(Payments) \cup Permutations(Refunds)
       \cup Permutations(Events) \cup Permutations(Keys)
=============================================================================
