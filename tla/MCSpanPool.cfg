CONSTANTS
    t1 = t1
    t2 = t2
    None = None
    Threads = {t1, t2}
    HasCache = {t1}
    Setups <- MC_Setups
    Region = 4
    MaxSpan = 2
    MaxWant = 3
    CacheSlots = 1
    CacheMax = 1
    RecycleMin = 1
    Share = 2
    CursorBound = 5
SPECIFICATION Spec
INVARIANTS TypeOK Tiling ListsAgree CountIsExact
PROPERTY ImplementsSpanHeap
