SPECIFICATION Spec
CONSTANTS
    Termini = {d1, d2}
    NoUuid = {d2}
    Eids = {e1, e2}
    MaxTid = 2
    Coroutines = {main, i1}
    Main = main
    None = None
    MaxChanges = 3
    MaxFaults = 1
INVARIANTS
    HeldTidsAreUsed
    UsedTidsReturn
    PlatformsFollowTids
    RegistrationFollowsPresence
    RegisteredIsMonitored
CHECK_DEADLOCK FALSE
