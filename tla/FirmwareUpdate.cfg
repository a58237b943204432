SPECIFICATION Spec
CONSTANTS
    Termini = {1}
    NComp = 2
    Applicable <- MCApplicable
    MaxNumReq = 3
    Parts = 1
    MaxMetaData = 1
    RetryCount = 2
    NoTid = 0
    Garbage = {"none", "RequestFirmwareData"}
    MaxEvents = 2
INVARIANTS
    PollingResumes BandwidthReturned FdStateIsDevices ActivatedOnlyIfApplied
PROPERTIES
    UpdateEnds
CHECK_DEADLOCK FALSE
