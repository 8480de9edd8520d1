SPECIFICATION Spec
CONSTANTS
    Edges = 4
    Nums = 2
    QLen = 2
INVARIANTS
    Ps2Inv
    StreamWhole
    OkIsAnswered
PROPERTIES
    StreamRuns
