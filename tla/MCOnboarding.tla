---------------------------- MODULE MCOnboarding ----------------------------
(***************************************************************************)
(* An instance of Onboarding for TLC.                                      *)
(***************************************************************************)
EXTENDS Onboarding

\* A tenant, and another store for it: the one it has in the first place, if
\* that was asked for first; or one that a chain of merchants already has.
TwoTenancies ==
    {[merchant |-> 4, name |-> "Root", store |-> 2, code |-> 1],
     [merchant |-> 4, name |-> "Root", store |-> 1, code |-> 2]}

ChainOfThree == <<1, 2, 3>>

Item(quantity, price) == [quantity |-> quantity, price |-> price]

Body(items, discount, rate) == [items |-> items, discount |-> discount, rate |-> rate]

\* A tie and a remainder on either side of it, of a lone line and of two; all
\* of the price taxed, discounted, or both; a discount that is too large; a
\* total that fills its column, and one that exceeds it by one.
FewBodies ==
    {Body(<<Item(1, 25)>>, discount, rate) : discount \in {0, 25, 26}, rate \in {1000, 10000}}
    \cup {Body(<<Item(2, 5), Item(3, 7)>>, 0, rate) : rate \in {800, 1900, 6129, 6452}}
=============================================================================
