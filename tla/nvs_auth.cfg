SPECIFICATION Spec
SYMMETRY Same
CONSTANTS
    Keys = {k1, k2}
    Other = other
    Callers <- Address
    Ctxs = {c1, c2}
    None = None
INVARIANTS
    Durable
    KeyRetired
    SettingsInv
    MemoryIsFlash
