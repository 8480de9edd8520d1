SPECIFICATION BleSpec
CONSTANTS
    AppOrder <- TwoApps
    AppsMax = 2
    ConnIds = {0, 1}
    ConnMax = 1
    Payloads <- OnePayload
    QueueMax = 2
    MayFail = TRUE
INVARIANTS
    LinkInv
    ListedIsKnown
    NoneStranded
PROPERTIES
    EveryLinkSettles
    EveryAppServed
