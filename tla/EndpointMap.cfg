SPECIFICATION FairSpec
CONSTANTS
    Services = {s1, s2}
    Eids = {e1, e2}
    Named = {s1}
    None = None
    Detect = Detect
    MaxChanges = 3
INVARIANTS
    MapIsCurrent
PROPERTIES
    EndpointsAreAnnounced
CHECK_DEADLOCK FALSE
