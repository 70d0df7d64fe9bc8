----------------------------- MODULE MinorSums -----------------------------
(***************************************************************************)
(* The one aggregate the payment service asks the database for:            *)
(* COALESCE(SUM(column), 0) over the payments of an invoice, in integer    *)
(* minor units (paise).                                                    *)
(***************************************************************************)
EXTENDS Integers, FiniteSets

(***************************************************************************)
(* The sum of the values of f, a function from a finite set to Nat: the    *)
(* units s of every key are numbered apart, then all are counted.  The sum *)
(* is written as one cardinality, and not by recursion on the set, so that *)
(* the library's theorems on finite sets apply to it.                      *)
(***************************************************************************)
Units(f) == UNION {{s} \X (1 .. f[s]) : s \in DOMAIN f}

SumMinor(f) == Cardinality(Units(f))
=============================================================================
