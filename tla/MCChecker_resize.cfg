CONSTANTS
    t1 = t1
    t2 = t2
    None = None
    Threads = {t1}
    Levels = {"canary"}
    Setups <- MC_Resize
    ChunkUnits = 4
    Sizes = {2, 4}
    Requests = {1, 2}
    CanaryUnits = 1
    PoisonUnits = 2
SPECIFICATION Spec
INVARIANT ProvenIsReal
CHECK_DEADLOCK FALSE
