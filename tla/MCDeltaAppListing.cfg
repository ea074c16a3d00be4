SPECIFICATION AppSpec
CONSTANTS
    MaxInstructions = 3
    Judges <- MCJudges
    FirstFiles <- MCFirstFiles
    Targets = {"mainclass", "jar", "neither", "incomplete"}
    PipeCapacity = 1
    MaxOutput = 1
    MaxFailures = 1
    MaxSessions = 3
INVARIANT
    ListingInitialisesFile
