SPECIFICATION FairSpec
CONSTANTS
    Me = me
    Others = {a}
    Months = {1, 2}
    Days = {1, 2}
    Initially <- SomeMonths
    Users <- SomeUsers
    MaxEvents = 3
CHECK_DEADLOCK FALSE
INVARIANTS MonthInv
PROPERTIES SaveFiledWhereShown UneditedDaysKept SavedIsShown LockHolds SpinnersStop
