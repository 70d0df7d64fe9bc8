\* One key, an event with two bodies and a notification of three attempts, one more than a run
\* of the one worker purges; receipts are kept for as few days as the settings admit.
CONSTANTS
    None = None
    Key = k1
    Keys = {k1}
    Invoices = {1, 2}
    Payments = {"p1", "p2"}
    Refunds = {}
    Events = {"e1"}
    Orders <- OneBody
    Callbacks <- OriginalAndAltered
    MaxVersion = 2
    Workers = {w1}
    KeyDays = 1
    OutboxDays = 1
    ReceiptDays = 1
    Window = 1
    Skew = 1
    BatchSize = 1
    MaxBatches = 2
    MaxAttempts = 3
    Notices <- FirstNotice
    MaxFailures = 1
SPECIFICATION RunSpec
INVARIANTS
    ReceiptOutlivesWindow
    ForgottenOnlyWhenSettled
    NotifiedOnce
PROPERTIES
    KeyLasts
    PurgeCatchesUp
\* Invoices and event ids are used up, and the bounds of faults reached.
CHECK_DEADLOCK FALSE
