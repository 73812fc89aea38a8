SPECIFICATION Spec
CONSTANTS
    A = A
    B = B
    AB = AB
    T = T
    k1 = k1
    k2 = k2
    e1 = e1
    None = None
    Malformed = Malformed
    Configs = {k1}
    Environments = {e1}
    Operations = {"o1", "o2", "o3", "o4", "o5", "o6", "o7"}
    Tokens = {}
    Documents <- MCDocuments
    Merged <- MCMerged
    Workloads <- MCOneWorkload
    Clients = {c1, c2}
INVARIANT MovedRevisionIsConflict
