SPECIFICATION FairSpec
CONSTANTS
    A = A
    B = B
    AB = AB
    T = T
    k1 = k1
    k2 = k2
    e1 = e1
    None = None
    Malformed = Malformed
    Configs = {k1, k2}
    Environments = {e1}
    Operations = {"o1", "o2", "o3", "o4", "o5", "o6"}
    Tokens = {T}
    Documents <- MCDocuments
    Merged <- MCMerged
    Workloads <- MCWorkloads
    Clients = {c1, c2}
INVARIANTS AnswersAreRecorded TransfersCopyHistory
PROPERTIES ArchivedConfigIsFrozen RevokedTokenWritesNothing ImplementsHistory RequestsEnd
