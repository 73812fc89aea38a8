SPECIFICATION FairSpec
CONSTANTS
    Events = {1, 2}
    Workers = {w1}
    Lease = 2
    Skew = 0
    MaxDelay = 1
    Budget = 1
    Batch = 1
    Page = 1
    Id <- MCId
    MaxFaults = 2
PROPERTIES EveryEventIsLogged RejectedEventsReturn
