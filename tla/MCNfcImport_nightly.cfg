SPECIFICATION FairSpec
CONSTANTS
    None = None
    Employees = 2
    Eligible <- AllButTheFirst
    Handlers = {h1, h2}
    EndOfDay = 2
    MaxAttempts = 2
    Settings <- AllFour
INVARIANT TypeOK
PROPERTY ImplementsGapFill
PROPERTY SuccessCovers
PROPERTY ReimportIsNoop
PROPERTY TapsReachTheLog
