SPECIFICATION FairSpec
CONSTANTS
    None = None
    Users = {ann, bob}
    Items = {"x", "y"}
    Kinds <- AllKinds
    MaxEvents = 4
    MaxSaves = 2
    MaxFaults = 1
CHECK_DEADLOCK FALSE
INVARIANTS ConfigInv SerialUseIsExact
PROPERTIES OnlyRefreshEmpties SectionsComeBack
