\* One event, two processes, one crash or error anywhere.
CONSTANTS
    None = None
    Events = {1}
    Processes = {w1, w2}
    MaxAttempts = 2
    ClaimLimit = 2
    ReconcileLimit = 2
    MaxStalled = 1
    Faults = {"crash", "error"}
    MaxFaults = 1
SPECIFICATION Spec
INVARIANTS
    QueuedUntilSettled
PROPERTIES
    KeepsPromise
