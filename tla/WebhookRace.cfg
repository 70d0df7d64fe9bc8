\* The race of scripts/smoke-test.sh, with nothing failing.
CONSTANTS
    None = None
    Key1 = k1
    Key2 = k2
    Keys = {k1}
    Invoices = {1}
    Payments = {1, 2}
    Refunds = {}
    Events = {1, 2}
    Orders <- OneInvoice
    Callbacks <- Race
    StatusChanges <- StatusChange
    Transactions = {h1, h2}
    MaxVersion = 2
    MaxFaults = 0
SPECIFICATION TxSafety
INVARIANT RaceIsAnswered
