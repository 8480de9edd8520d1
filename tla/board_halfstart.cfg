SPECIFICATION Spec
CONSTANTS
    AppOrder <- ThreeApps
    AppsMax = 3
    ConnIds = {0}
    ConnMax = 1
    Payloads <- DriveOnly
    QueueMax = 1
    MayFail = FALSE
    Speeds = {0, 1}
    StartMayFail = TRUE
INVARIANTS
    MotorOffWithoutController
