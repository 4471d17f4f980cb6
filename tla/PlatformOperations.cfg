SPECIFICATION SpecPlatform
CONSTANTS
    People = {"u1", "u2"}
    Branches = {"r1", "r2"}
    Signs = {"n1", "n2"}
    Titles = {"t1", "t2", "t3"}
    ProductIds = {"p1", "p2", "p3"}
    Sections = {"s1", "s2"}
    Stuffs = {"i1", "i2"}
    Caps = {0, 1}
    Clerks = {"c1", "c2"}
    Chiefs = {"h1"}
    Nobody = "-"
    Jobs = {"x1", "x2", "x3", "x4", "x5"}
    ImportType <- OneTypeEach
    FileRows <- SmallFiles
    Missing = "-"
    INGEST_CHUNK_SIZE = 1
    MaxConfirms = 2
    Importers = {"j1"}
    Customers = {"u1"}
    AddressIds = {1, 2, 3}
    Grace = 2
    CodeTime = 1
    LastSecond = 2
    MaxTokens = 6
    MaxCodes = 2
    Visitors = {"v1", "v2"}
INVARIANTS
    WithinCapPlusRacers
    ReferencesAreLive
    CompletedIsLearned
    AtMostOneDefaultAddress
    SessionsEnd
CHECK_DEADLOCK FALSE
