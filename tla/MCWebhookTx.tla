---------------------------- MODULE MCWebhookTx ----------------------------
(***************************************************************************)
(* Instances of WebhookTx for TLC.                                         *)
(***************************************************************************)
EXTENDS WebhookTx, TLC

CONSTANTS Key1, Key2

\* Two invoices over 2.
TwoInvoices == {[key |-> k, hash |-> 1, total |-> 2] : k \in {Key1, Key2}}

OneInvoice == {[key |-> Key1, hash |-> 1, total |-> 2]}

CaptureOf(event, payment, invoice, amount) ==
    [event |-> event, hash |-> amount, type |-> "payment.captured",
     payment |-> payment, refund |-> None, invoice |-> invoice, amount |-> amount]

RefundOf(event, payment, refund, invoice, amount) ==
    [event |-> event, hash |-> amount, type |-> "payment.refunded",
     payment |-> payment, refund |-> refund, invoice |-> invoice, amount |-> amount]

\* Two payments that complete invoice 1, an altered copy of the second and the
\* first payment's id under an event of invoice 2; two refunds of the first
\* payment, and one of the second that shares an id with them.
Traffic == {CaptureOf(1, 1, 1, 1), CaptureOf(2, 2, 1, 1), CaptureOf(2, 2, 1, 2),
            CaptureOf(3, 1, 2, 2), RefundOf(4, 1, 1, 1, 1), RefundOf(5, 2, 1, 1, 1),
            RefundOf(6, 1, 2, 1, 1)}

\* The two captures of the smoke test's race, which together exceed the total.
Race == {CaptureOf(1, 1, 1, 1), CaptureOf(2, 2, 1, 2)}

\* That race beside a payment of the neighbouring invoice.
RaceAndNeighbour == Race \cup {CaptureOf(3, 3, 2, 2)}

HandlerSymmetry == Permutations(Handlers)
=============================================================================
