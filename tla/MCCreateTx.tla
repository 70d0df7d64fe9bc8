----------------------------- MODULE MCCreateTx -----------------------------
(***************************************************************************)
(* Instances of CreateTx for TLC.                                          *)
(***************************************************************************)
EXTENDS CreateTx

\* Two bodies under every key.
TwoBodies == {o \in [key : Keys, hash : {1, 2}, total : {1, 2}] : o.hash = o.total}
=============================================================================
