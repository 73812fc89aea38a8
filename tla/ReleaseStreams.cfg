SPECIFICATION Spec
CONSTANTS
    r1 = r1
    r2 = r2
    None = None
    Keys = {r1, r2}
    Operations = {"o1", "o2", "o3", "o4", "o5", "o6"}
    Requests <- MCRequests
    Clients = {c1, c2}
    MaxRevision = 2
SYMMETRY Symmetry
INVARIANTS PinnedTogether AnswersNameRelease OneSwitchPerGeneration
