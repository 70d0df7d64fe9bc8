\* Three handlers that share a key, with two bodies for it, and a rollback.
CONSTANTS
    None = None
    Keys = {k1}
    Invoices = {i1, i2, i3}
    Payments = {}
    Refunds = {}
    Events = {}
    Callbacks = {}
    Orders <- TwoBodies
    Transactions = {h1, h2, h3}
    MaxVersion = 1
    MaxFaults = 1
SPECIFICATION CreateSpec
INVARIANTS
    CreateTypeOK
    AnswersAgree
PROPERTIES
    Spec
    EveryRequestEnds
