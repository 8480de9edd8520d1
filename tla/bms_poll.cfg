SPECIFICATION Spec
CONSTANTS
    NBat = 2
    Shallow <- TwoRegs
    Deep <- DeepRegs
    Spill <- DeepSpill
    Units <- Lengths
    RegNo <- Numbers
    Reading <- Told
    Retries = 2
    MaxOwed = 2
INVARIANTS
    PollingInv
    PromptOkIsRight
    OwnBattery
    ParserAgrees
PROPERTIES
    EveryBatteryReported
    ImplementsReports
