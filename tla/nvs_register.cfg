SPECIFICATION Spec
SYMMETRY Same
CONSTANTS
    Keys = {k1, k2}
    Other = other
    Callers <- Address
    Ctxs = {c1}
    None = None
INVARIANTS
    RegisteredKeyOpens
