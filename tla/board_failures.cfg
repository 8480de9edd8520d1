SPECIFICATION Spec
CONSTANTS
    AppOrder <- CtrlStatus
    AppsMax = 2
    ConnIds = {0, 1}
    ConnMax = 1
    Payloads <- DriveOnly
    QueueMax = 1
    MayFail = TRUE
    Speeds = {0, 1}
    StartMayFail = TRUE
INVARIANTS
    BoardInv
    OneAppPerInterface
    DriveNeedsController
    DriverIsKnown
    MotorIsRecorded
    FaultsHaveCause
PROPERTIES
    ImplementsAuthority
