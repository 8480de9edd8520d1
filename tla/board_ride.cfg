SPECIFICATION RideSpec
CONSTANTS
    AppOrder <- CtrlStatus
    AppsMax = 2
    ConnIds = {0, 1, 2}
    ConnMax = 2
    Payloads <- AllWrites
    QueueMax = 1
    MayFail = FALSE
    Speeds = {0, 1}
    StartMayFail = FALSE
INVARIANTS
    SetterStays
PROPERTIES
    DeadMan
    DriverIsStopped
