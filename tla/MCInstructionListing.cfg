SPECIFICATION Spec
CONSTANTS
    A = A
    B = B
    Classes = {A, B}
    Threads = {t1, t2}
    Hook = hook
    Code <- MCCode
INVARIANTS
    TypeOK
    FloatsAsMarked
    IncompleteOnlyByRace
