SPECIFICATION Spec
CONSTANTS
    Threads = {t1, t2}
    Lines = {1, 2}
    Nameless = {2}
    Infinity = 100
    Unit = 2
    Constants <- MCConstants
    Handled <- MCHandled
    MaxMatches = 2
INVARIANTS
    TypeOK
    PatternsRight
    NothingLost
    ReportsRight
    ThreadsSurvive
SYMMETRY
    AnyThread
