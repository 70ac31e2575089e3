SPECIFICATION FairSpec
CONSTANTS
    None = None
    Reasons = {"PERSONAL", "ASSIGNED_OVERTIME"}
    Default = "PERSONAL"
    Mounts <- SomeMounts
    EndOfTime = 3
    MaxClicks = 4
    MaxFaults = 1
CHECK_DEADLOCK FALSE
INVARIANTS OnePostAtATime PostsWereAsked ReasonUsedOnce LateClickCarriesReason
PROPERTY ButtonComesBack
