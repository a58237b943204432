SPECIFICATION FairSpec
CONSTANTS
    d1 = d1
    d2 = d2
    Devices = {d1, d2}
    NoUuid = {d2}
    Slots = {1, 2, 3}
    RootSlots = {1}
    Address <- Addresses
    PlugSlots <- Anywhere
    PoolEids = {1, 2, 3}
    Threshold = 3
    None = None
    MaxFaults = 4
INVARIANTS
    PoolKept
    DeviceTableIsOneToOne
    SharedOnlyAfterOrphan
PROPERTIES
    DevicesAreRouted
CHECK_DEADLOCK FALSE
