SPECIFICATION DoorsSpec
CONSTANTS
    Builds = {"define", "wrap"}
    BootWords = 8
    ChunkWords = 4
    NumChunks = 4
    MaxSmallWords = 1
    MaxSpanChunks = 2
    Page = 2
    LazyMin = 6
    SparseMin = 6
    TableSlots = 1
    SystemRoom = 12
    Top = 64
    Narrow = 8
    DoorSizes = {1, 36}
    Products <- DoorProducts
    Alignments = {2}
    MaxServed = 4
INVARIANT BlocksAreWhole
CHECK_DEADLOCK FALSE
