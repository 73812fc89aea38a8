\* Two leaders of the binding controller, two targets and two changes of what
\* users, Configra or failures do besides.
SPECIFICATION FairSpec
CONSTANTS
    Targets = {t1, t2}
    FirstTarget = t1
    Terms = 2
    MaxChanges = 2
    None = None
INVARIANTS
    ReadyWasDelivered
PROPERTIES
    OthersObjectsAreLeft
    NeverGoesBack
    SettlesOnLatest
CHECK_DEADLOCK FALSE
