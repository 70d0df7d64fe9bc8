\* Two payments race for invoice 1 while a neighbouring invoice is paid.
CONSTANTS
    None = None
    Key1 = k1
    Key2 = k2
    Keys = {k1, k2}
    Invoices = {1, 2}
    Payments = {1, 2, 3}
    Refunds = {}
    Events = {1, 2, 3}
    Orders <- TwoInvoices
    Callbacks <- RaceAndNeighbour
    StatusChanges = {}
    Transactions = {h1, h2}
    MaxVersion = 4
    MaxFaults = 0
SPECIFICATION TxSpec
PROPERTIES
    EveryRequestEnds
    RetriesGetThrough
