\* Two processes crash on one job.
CONSTANTS
    None = None
    Events = {1}
    Processes = {w1, w2}
    MaxAttempts = 2
    ClaimLimit = 2
    ReconcileLimit = 2
    MaxStalled = 1
    Faults = {"crash"}
    MaxFaults = 2
SPECIFICATION Spec
PROPERTIES
    EveryEventSettles
