SPECIFICATION FairCtrlSpec
CONSTANTS
    Reqs = {r1, r2, r3}
    InstanceIds = 2
    RetryCount = 1
    RetryDelay = 10
    PollInterval = 5
    Word = 64
    NoResp = NoResp
INVARIANTS
    AllTriesInTime
    OnlyAliasesStray
PROPERTIES
    WaitEnds
CHECK_DEADLOCK FALSE
