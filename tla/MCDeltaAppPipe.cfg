SPECIFICATION AppSpec
CONSTANTS
    MaxInstructions = 3
    Judges <- MCJudges
    FirstFiles <- MCFirstFiles
    Targets = {"mainclass", "jar", "neither", "incomplete"}
    PipeCapacity = 1
    MaxOutput = 2
    MaxFailures = 0
    MaxSessions = 1
PROPERTY
    ExecutionReturns
CHECK_DEADLOCK FALSE
