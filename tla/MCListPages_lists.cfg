SPECIFICATION FairSpec
CONSTANTS
    None = None
    Kinds <- AllKinds
    Emps <- SomeEmps
    Dept <- SomeDepts
    Ranges = {1, 2}
    MaxEvents = 3
    MaxFaults = 1
CHECK_DEADLOCK FALSE
INVARIANTS ListInv SettledTableIsCurrent FileHoldsWhatItSays
PROPERTY PagesComeBack
