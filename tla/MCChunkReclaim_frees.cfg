CONSTANTS
    t1 = t1
    t2 = t2
    Shared = Shared
    None = None
    FromClass = 8
    Threads = {t1, t2}
    Ids = {1}
    Classes = {8}
    Batched = {}
    Big = {}
    Setups <- MC_Setups
    Capacity = 2
    BatchSlots = 2
    BigBatch = 1
    SmallChunks = 1
    BigChunks = 0
SYMMETRY Symmetric
SPECIFICATION RSpec
INVARIANT GivenHoldNothing
CHECK_DEADLOCK FALSE
