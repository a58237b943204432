SPECIFICATION RxFairSpec
CONSTANTS
    Eids = {e1}
    Tags = {0}
    Calls = {c1, c2}
    None = None
    NoResp = NoResp
    Reqs = {r1, r2}
    InstanceIds = 3
    RetryCount = 1
    RetryDelay = 5
    PollInterval = 5
    Word = 64
INVARIANTS
    OnlySurplusFallsThrough
PROPERTIES
    EveryCallEnds
CHECK_DEADLOCK FALSE
