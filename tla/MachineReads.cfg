SPECIFICATION FairSpec
CONSTANTS
    k1 = k1
    i1 = i1
    i2 = i2
    t1 = t1
    t2 = t2
    x1 = x1
    c1 = c1
    c2 = c2
    Configs = {k1}
    Items = {i1, i2}
    Namespace <- MCNamespace
    Documents <- MCDocuments
    Contents <- MCContents
    Tokens = {t1, t2}
    Credential <- MCCredential
    Certificates = {x1}
    Clients = {c1, c2}
    Connections = 1
    Workloads <- MCWorkloads
    None = None
INVARIANTS NoStatementLeaks
PROPERTIES AnswersAreOneMoment RevokedIsRefused ReadsEnd
