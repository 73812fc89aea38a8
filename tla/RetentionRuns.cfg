SPECIFICATION RetentionSpec
CONSTANTS
    Rows = {1, 2}
    Operations = {"o1", "o2", "o3"}
    Paths = {"p1", "p2"}
    Requests <- MCRequests
    Clients = {c1, c2}
    MaxTime = 2
    None = None
SYMMETRY Symmetry
INVARIANTS DeletedIsArchived ReceiptsAreRecorded
