\* Two invoices that three payments and two refunds may name, and an event for each.
CONSTANTS
    None = None
    Invoices = {i1, i2}
    Payments = {p1, p2, p3}
    Refunds = {r1, r2}
    Events = {e1, e2, e3, e4, e5}
    Keys = {k1, k2}
    MaxVersion = 7
    MaxAmount = 2
    Orders <- MCOrders
    Callbacks <- MCCallbacks
SPECIFICATION Spec
SYMMETRY Ids
INVARIANTS
    CapturedWithinTotal
    RefundLedger
    StatusMatchesMoney
    TrailMatches
    EventEffectsOnce
    OneInvoicePerKey
PROPERTY StatusFollowsTable
\* Every invoice may be cancelled or fully refunded, with nothing left to come.
CHECK_DEADLOCK FALSE
