SPECIFICATION Spec
CONSTANTS
    k1 = k1
    k2 = k2
    e1 = e1
    e2 = e2
    f = f
    g = g
    v = v
    w = w
    T = T
    A1 = A1
    A2 = A2
    issued = issued
    outside = outside
    deployed = deployed
    imported = imported
    None = None
    Keys = {k1, k2}
    Environments = {e1, e2}
    Fields = {f, g}
    Values = {v, w}
    Writers = {T}
    Granted <- MCGranted
    Authorities = {A1, A2}
    Certificates = {issued, deployed, imported, outside}
    Limit = 1
    Attempts = 2
    Operations <- MCOperations
    Requests <- MCRequests
    MaxOperations = 3
    Clients = {c1, c2}
SYMMETRY Symmetry
INVARIANTS
    SealedUnderSentinel
    RevocationIsComplete
    AuthoritiesBounded
    AppliedOnce
PROPERTIES
    UngrantedValuesKept
    ZeroOnlyCreates
