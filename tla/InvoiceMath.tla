----------------------------- MODULE InvoiceMath -----------------------------
(***************************************************************************)
(* calculateInvoice of the domain package, in integer minor units, and the *)
(* columns its results go into.  MySQL, in its default strict mode, takes  *)
(* no value that does not fit its column: the INSERT fails, the request's  *)
(* transaction rolls back and the client is answered 500.                  *)
(*                                                                         *)
(* The DTO keeps every number far below 2^53, so the intermediate results  *)
(* of JavaScript are exact; a quotient by 10 000 that is a tie is exact    *)
(* too, and Math.round rounds it up.                                       *)
(***************************************************************************)
EXTENDS MinorSums, Sequences

CONSTANTS
    Bodies,      \* the requests: [items, discount, rate], an item being [quantity, price]
    ColumnMax    \* INT UNSIGNED: 2^32 - 1

Rates == 0 .. 10000    \* basis points

ASSUME InvoiceMathAssumption ==
    /\ ColumnMax \in Nat
    /\ \A b \in Bodies :
          /\ b.items \in Seq([quantity : Nat \ {0}, price : Nat]) /\ b.items # <<>>
          /\ b.discount \in Nat
          /\ b.rate \in Rates

LineTotal(item) == item.quantity * item.price

Subtotal(items) == SumMinor([n \in DOMAIN items |-> LineTotal(items[n])])

Taxable(b) == Subtotal(b.items) - b.discount

\* Seeded fault: Math.floor.
TaxRoundedDown(taxable, rate) == (taxable * rate) \div 10000

\* Math.round(taxable * rate / 10000), which rounds halves up.
Tax(taxable, rate) == (taxable * rate + 5000) \div 10000

\* Otherwise a RangeError, which the service turns into a 400.
Calculable(b) == b.discount <= Subtotal(b.items)

Calculated(b) ==
    [lines |-> [n \in DOMAIN b.items |-> LineTotal(b.items[n])],
     subtotal |-> Subtotal(b.items), discount |-> b.discount, rate |-> b.rate,
     tax |-> Tax(Taxable(b), b.rate),
     total |-> Taxable(b) + Tax(Taxable(b), b.rate)]

FitsColumns(row) ==
    /\ \A n \in DOMAIN row.lines : row.lines[n] <= ColumnMax
    /\ {row.subtotal, row.discount, row.tax, row.total} \subseteq 0 .. ColumnMax

-----------------------------------------------------------------------------
\* The nearest whole number to exact / 10000, halves going up.
Nearest(tax, exact) == tax * 10000 \in exact - 4999 .. exact + 5000

\* An invoice row adds up: the subtotal is that of its lines, the total is
\* what is left after the discount, plus the tax; the tax is at most half a
\* minor unit off the exact one, and neither negative nor more than is taxed.
AddsUp(row) ==
    /\ row.subtotal = SumMinor(row.lines)
    /\ row.discount \in 0 .. row.subtotal
    /\ row.total = row.subtotal - row.discount + row.tax
    /\ Nearest(row.tax, (row.subtotal - row.discount) * row.rate)
    /\ row.tax \in 0 .. row.subtotal - row.discount
=============================================================================
