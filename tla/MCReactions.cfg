SPECIFICATION Spec
CONSTANTS
    Threads = {t1, t2}
    Locations = {l1}
    ReactionTypes = {"PRINT", "LOG", "EXCEPTION", "CALLBACK"}
    MaxEvents = 2
    MaxLogFailures = 1
INVARIANTS
    TypeOK
    ReportedOnce
    CountsRight
    StopObeyedByReactions
    NoNotificationGap
PROPERTY
    EveryLocationReported
