\* A job stalls while it is running.
CONSTANTS
    None = None
    Events = {1}
    Processes = {w1, w2}
    MaxAttempts = 2
    ClaimLimit = 2
    ReconcileLimit = 2
    MaxStalled = 1
    Faults = {"stall"}
    MaxFaults = 1
SPECIFICATION Safety
SYMMETRY ProcessSymmetry
PROPERTIES
    SuccessIsDurable
