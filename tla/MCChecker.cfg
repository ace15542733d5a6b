CONSTANTS
    t1 = t1
    t2 = t2
    None = None
    Threads = {t1, t2}
    Levels = {"track", "canary", "poison"}
    Setups <- MC_Setups
    ChunkUnits = 4
    Sizes = {2, 4}
    Requests = {1, 2, 3}
    CanaryUnits = 1
    PoisonUnits = 2
SYMMETRY Symmetric
SPECIFICATION Spec
INVARIANTS ProvenHasCause ShadowIsTrue HeapStaysWhole
PROPERTY MisuseCaught
CHECK_DEADLOCK FALSE
