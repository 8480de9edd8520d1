SPECIFICATION RemoteSpec
CHECK_DEADLOCK FALSE
CONSTANT
    Moves <- SomeMoves
INVARIANTS
    RemoteInv
    BtnInv
    OneEventPerPress
    FaultsAreLate
    DutyIsSpeed
    StoppedIsStill
PROPERTIES
    PressReleased
