SPECIFICATION Spec
CONSTANTS
    u1 = u1
    s1 = s1
    None = None
    Anonymous = Anonymous
    Subjects = {u1}
    SessionIds = {s1}
    Accounts <- MCAccounts
    Operations = {"o1", "o2", "jti"}
    Changes <- MCChanges
    Tokens = {t1, t2}
    Requests = {r1, r2}
    Changers = {c1, c2}
    Second = 1
    MaxTime = 2
    MaxChanges = 2
SYMMETRY Symmetry
INVARIANTS ServedIsCurrent FreshSignIn EndedByLaterChange
