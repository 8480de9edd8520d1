SPECIFICATION Spec
CONSTANTS
    AppOrder <- CtrlStatus
    AppsMax = 2
    ConnIds = {0, 1}
    ConnMax = 2
    Payloads <- DriveOnly
    QueueMax = 1
    MayFail = FALSE
    Speeds = {0, 1}
    StartMayFail = FALSE
INVARIANTS
    SetterDisconnectResets
