SPECIFICATION CompanionsSpec
CONSTANTS
    w1 = w1
    w2 = w2
    t1 = t1
    t2 = t2
    t3 = t3
    v1 = v1
    v2 = v2
    c1 = c1
    c2 = c2
    c3 = c3
    Threads = {w1, w2}
    Stacks <- TwoStacks
    Spans = {1, 2}
    TagMod = 4
    Noters = {t1, t2, t3}
    Cacheless = {t3}
    Sites = {c1, c2, c3}
    NumSlots = 2
    Home <- SiteHome
    Window = 2
    Amounts = {2}
    MaxNotes = 4
    Nobody = Nobody
    Interners = {t1, t2}
    CallStacks = {c1, c2, c3}
    Depth <- StackDepth
    FirstLook <- StackLook
    DepotSlots = 4
    DepotProbe = 3
    PoolChunk = 3
    PoolChunks = 2
    MaxInterns = 3
    Users = {t1, t2}
    Objects = {c1, c2}
    NumKeys = 3
    SlotValues = {v1, v2}
    Null = Null
    MaxKeyCalls = 4
    MaxSets = 2
    Askers = {t1, t2}
    Granules = 6
    Requests <- GuardedRequests
    Edges = {TRUE, FALSE}
    GuardSlots = 2
    IndexSlots = 5
    GuardProbe = 2
    GiveUp = 1
    Retry = 1
    MaxAsks = 3
    MaxMisuse = 1
    Tellers = {t1, t2}
    Places = {1, 2}
    Spots = {v1, v2}
    Loads = {3}
    BigSlots = 2
    BigHome <- SpotHome
    EpochCap = 2
    CellsCap = 3
    CellFloor = 3
    Rise = 2
    Every = 2
    Plans <- EpochPlans
    Placers = {t1, t2}
    Word = 64
    Land = 9
    Base = 4
    End = 8
    BigChunk = 2
    PageBytes = 2
    Anchors = {0, 9}
    Reach = 2
    Wanted = {1, 3}
    MaxPlaces = 3
    Workers = {t1, t2}
    Prepared = 1
    Bits = 6
    HeaderSize = 3
    FirstBlock = 8
    MaxBlock = 16
    ScratchAsks <- ScratchRequests
    MaxScratch = 5
    MaxBlocks = 2
    MaxDepth = 2
    Builds = {"define", "wrap"}
    BootWords = 8
    ChunkWords = 4
    NumChunks = 4
    MaxSmallWords = 1
    MaxSpanChunks = 2
    Page = 2
    LazyMin = 6
    SparseMin = 6
    TableSlots = 1
    SystemRoom = 12
    Top = 64
    Narrow = 8
    DoorSizes = {1, 3, 7}
    Products <- DoorProducts
    Alignments = {2}
    MaxServed = 3
    Vectors = {t1, t2}
    Elements = {v1, v2}
    Unwritten = Unwritten
    Inline = 1
    MaxElements = 4
    MaxEdits = 4
    Addrs = {0, 1, 2, 3, 4, 5, 6, 7}
    CodeTables <- NameTables
    MaxTables = 2
    MaxMarkers = 2
    Paths <- NamePaths
    MaxModules = 1
SYMMETRY Alike
INVARIANTS ParkedIsSound SitesAreTrue DepotIsTrue SlotsAreOwn
INVARIANTS GuardedIsWhole VerdictsAreTrue ComesBack
INVARIANTS CurveIsTrue CutsAreWhole PagesAreOwn ScratchIsOwn
INVARIANTS DoorsKeepFaith VectorsAreSequences NamesAreRight
PROPERTY ImplementsParkedSpans
CHECK_DEADLOCK FALSE
