\* Payments and refunds of two invoices, status changes beside them, and a fault.
CONSTANTS
    None = None
    Key1 = k1
    Key2 = k2
    Keys = {k1, k2}
    Invoices = {1, 2}
    Payments = {1, 2}
    Refunds = {1, 2}
    Events = {1, 2, 3, 4, 5, 6}
    Orders <- TwoInvoices
    Callbacks <- Traffic
    StatusChanges <- StatusChange
    Transactions = {h1, h2}
    MaxVersion = 5
    MaxFaults = 1
SPECIFICATION TxSafety
SYMMETRY HandlerSymmetry
INVARIANTS
    TxTypeOK
    AnswerIsOnRecord
    InsertsNeverCollide
    ReadsStayCurrent
PROPERTY Spec
