SPECIFICATION QueueSpec
CONSTANTS
    Events = {1, 2}
    Workers = {w1, w2}
    Server = w1
    Destinations = {d1}
    Lease = 4
    Skew = 1
    MaxDelay = 1
    MaxAttempts = 2
    Rounds = 2
    Budget = 1
    Grace = 1
    None = None
INVARIANT ExclusiveLease
PROPERTIES KeepsPromise EveryEventSettles
