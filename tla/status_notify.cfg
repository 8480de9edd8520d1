SPECIFICATION StatusSpec
CONSTANTS
    AppOrder <- StatusOnly
    AppsMax = 1
    ConnIds = {0, 1, 2}
    ConnMax = 2
    Payloads = {}
    QueueMax = 2
    MayFail = FALSE
    NBat = 2
    Readings = {1}
INVARIANTS
    ReportInv
    ExactlyOnce
PROPERTIES
    PublishedFirst
