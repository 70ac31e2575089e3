SPECIFICATION Spec
CONSTANTS
    None = None
    TicksPerDay = 4
    MaxGrace = 2
CHECK_DEADLOCK FALSE
INVARIANT VerdictsAgree
INVARIANT GraceHonoured
PROPERTY LatenessIsSettled
