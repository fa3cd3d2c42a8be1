SPECIFICATION Spec
CONSTANTS
    s1 = s1
    s2 = s2
    p1 = p1
    p2 = p2
    x = x
    r1 = r1
    r2 = r2
    q1 = q1
    q2 = q2
    LOGIN_RATE_LIMIT_ENABLED = TRUE
    Keys = {k1, k2}
    MaxAttempts = 2
    Window = 2
    MaxBuckets = 1
    LastTick = 4
    Names = {admin, anna}
    Seeded = admin
    Browsers = {b1, b2}
    NoName = NoName
    Passwords = {weak, good, short}
    Weak = weak
    Short = {short}
    Starts = {s1, s2}
    Pages = {p1, p2}
    Users = {admin, op}
    Admin = admin
    Strays = {x}
    Casts <- MCCasts
    Converters = {abstec, tec}
    Abstec = abstec
    Nobody = Nobody
    Configs <- MCConfigs
    Answers <- MCAnswers
    Edited <- MCEdited
    Folders <- MCFolders
    Removers = {r1, r2}
    MaxVersion = 3
    Stations = {"aksu", "cher"}
    Days = {0, 1, 2}
    DayLength = 3
    FrameLength = 2
    MaxFrames = 4
    MaxStations = 2
    LoadWorkers = 2
    Workers = 2
    Archives <- MCArchives
    Maps = {m1, m2}
    TilesAt <- MCTilesAt
    MaxTiles = 2
    MapModes = {"openstreetmap", "cache_only", "tile_server"}
    Preferred = {0, 1, 4}
    MaxCrashes = 1
    Requests = {q1, q2}
    Endpoints = {"tecsuite"}
    IndexedTrees <- MCIndexedTrees
    Documents <- MCDocuments
    Ttl = 1
    Timeout = 1
    EndOfTime = 3
    Years = {2023, 2024, 2025}
    DayFolders = {1, 40}
    Months = {1}
    Sites = {1, 2}
    Kinds = {"abstec", "tecsuite", "parquet", "parquet_sat", "rinex"}
    Archives0 <- MCArchives0
    Contents <- MCContents
    MaxYears = 2
    ScanWorkers = 2
    MaxChanges = 2
    Viewers = {v1, v2}
    Paths <- MCPaths
    Zips <- MCZips
    Trees0 <- MCTrees0
    TwoDigits = {"01", "02"}
    ThreeDigits = {"040"}
    Asked <- MCAsked
    MapTtl = 1
    Slowest = 1
    MaxEdits = 1
    LastMoment = 3
    MaxAsked = 2
INVARIANTS
    LockIsExact
    AdminRemains
    OneJobPerContainer
    OneDockurAtATime
    MountsHold
    StoredIsRun
    RemovesAllOrNothing
    RangeIsWhole
    TornTileHasACause
    ShownWasTrueLately
    ListsWhatStayed
    MapIsOfLate
CHECK_DEADLOCK FALSE
