CONSTANTS
    t1 = t1
    t2 = t2
    Shared = Shared
    None = None
    FromClass = 2
    Threads = {t1, t2}
    Ids = {1}
    Classes = {1, 2, 9}
    Batched = {1, 2}
    Big = {9}
    Setups <- MC_Setups
    Capacity = 2
    BatchSlots = 2
    BigBatch = 1
    SmallChunks = 2
    BigChunks = 1
SYMMETRY Symmetric
SPECIFICATION RSpec
INVARIANTS TypeOK SharedIsLocked PlacesUntilTorn HeadersUntilTorn GivenUntilTorn
PROPERTY HeapUntilTorn
CHECK_DEADLOCK FALSE
