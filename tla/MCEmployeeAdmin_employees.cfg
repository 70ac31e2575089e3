SPECIFICATION Spec
CONSTANTS
    None = None
    ann = ann
    bob = bob
    cy = cy
    Emps = {ann, bob, cy}
    Users = {ann, bob}
    Admins = {ann}
    Starts <- SmallStarts
    PageSize = 3
    MaxEvents = 2
    MaxFaults = 1
CHECK_DEADLOCK FALSE
INVARIANTS TreeIsRooted CyclesNeedARace SomeoneCanSignIn
PROPERTY HistoryIsKept
