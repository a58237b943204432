SPECIFICATION FairSpec
CONSTANTS
    Eids = {1, 2, 3}
    OwnEid = 2
    Bdfs = {x1, x2}
    Owners = {b1, b2}
    None = None
    Readers = {c1, c2}
    MaxChanges = 1
    MaxFaults = 1
INVARIANTS
    OwnerKept
    PublishedIsRouted
PROPERTIES
    TableConverges
CHECK_DEADLOCK FALSE
