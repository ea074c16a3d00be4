SPECIFICATION DDSpec
CONSTANTS
    MaxInstructions = 6
    Judges <- MCJudges
INVARIANTS
    DDTypeOK
    StillValid
    OneMinimal
    QuadraticRuns
