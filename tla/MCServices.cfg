SPECIFICATION Spec
CONSTANTS
    w1 = w1
    w2 = w2
    Sections = {quotes, themes}
    MaxClients = 2
    MaxRefresh = 2
    Watchers = {w1, w2}
    Codes = {A, B}
    Null = Null
    MaxWatchers = 1
    MaxData = 1
    MaxSubs = 2
    p1 = p1
    p2 = p2
    r1 = r1
    r2 = r2
    Width = 2
    MinCalls = 2
    RateNum = 9
    RateDen = 20
    Required = 2
    RankCalls = 1
    ProgramCalls = 2
    MaxCalls = 3
    Watched = {A}
    Poller = poller
    Forcers = {request}
    MaxProbes = 1
    s1 = s1
    s2 = s2
    s3 = s3
    Workers = {h1, h2}
    Getters = {g1, g2}
    Nothing = Nothing
    MaxVersion = 2
    MaxFails = 1
    Processes = {p1, p2}
    Readers = {r1, r2}
    ProcessOf <- ReaderProcess
    Ttl = 2
    MaxUpserts = 2
    Fetchers = {f1, f2, f3}
    Cap = 8
    Jitter = 1
    Threshold = 3
    CapFails = 4
    Delay <- Doubling
    N = 3
    Refreshers = {p1, p2}
    Rankers = {ranker}
    HotSets = {{1}, {3}}
    ColdBatch = 1
    MaxRetry = 2
    FocusLists = {{1, 3}}
    MaxMissing = 1
    Listers = {l1, l2}
    MaxStarts = 1
    MaxErrors = 1
    Requests = {s1, s2, s3}
    Hosts = {p1, p2}
    HostOf <- RankingProcess
    ProgramTtl = 2
    None = None
INVARIANTS
    ServicesTypeOK
    OneRefresh
    BroadcastWins
    SignatureIsShown
    ServedRecently
    RefreshersOrdered
    ListedWereOff
    UnmarkedIsRecent
PROPERTIES
    SnapshotCatchesUp
    GateReopens
    BackoffHolds
    BreakerRecovers
    ReleasesSettle
    RefreshedAgain
    PricesKeepComing
CHECK_DEADLOCK FALSE
