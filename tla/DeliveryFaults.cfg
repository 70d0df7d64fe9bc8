\* Two events in the batches of two relays, and one fault of any kind.
CONSTANTS
    None = None
    Events = {1, 2}
    Processes = {w1, w2}
    MaxAttempts = 1
    ClaimLimit = 2
    ReconcileLimit = 2
    MaxStalled = 1
    Faults = {"crash", "error", "inDoubt", "lostRecord", "stall", "redisLoss"}
    MaxFaults = 1
SPECIFICATION Safety
SYMMETRY ProcessSymmetry
PROPERTIES
    PublishedIsFinal
