SPECIFICATION Spec
CONSTANTS
    Events = {1, 2}
    Workers = {w1, w2}
    Lease = 1
    Skew = 1
    MaxDelay = 1
    Budget = 1
    Batch = 2
    Page = 1
    Id <- MCId
    MaxFaults = 1
SYMMETRY Symmetry
INVARIANTS TypeOK CompletedMeansLogged UpgradeRecovers
PROPERTY DeliveredOnce
