SPECIFICATION Spec
CONSTANTS
    Events = {1, 2}
    Workers = {w1, w2}
    Server = w1
    Destinations = {d1}
    Lease = 2
    Skew = 1
    MaxDelay = 1
    MaxAttempts = 2
    Rounds = 1
    Budget = 1
    Grace = 1
    None = None
SYMMETRY Symmetry
INVARIANTS CompletedMeansSettled DeliveriesExplainTargets AttemptHeldOnce
