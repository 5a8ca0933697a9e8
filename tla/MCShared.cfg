SPECIFICATION SharedSpec
CONSTANTS
    NumMessages = 4
    NumLegacy = 1
    Keeps = {1, 2}
    MaxFaults = 2
    NumInherited = 1
    MaxMessages = 5
    Threshold = 3
    KeepRecent = 2
    BatchSize = 2
    MaxClears = 1
    OrdinalStep = 4
    FreshTailCount = 1
    LeafMinFanout = 2
    CondensedMinFanout = 2
    OldSummaries = 2
    MaxSaid = 5
    MaxSummaries = 4
    MaxWipes = 1
    MaxMishaps = 1
    Calls = {t1, t2}
    Candidates = {k1, k2}
    Chains <- Orders
    Standard <- AfterFailures
    Billing <- AfterNoCredit
    Window = 2
    Burst = 1
    Rate = 1
    MaxTime = 3
    MaxChainCalls = 2
    Callers = {t1, t2}
    MaxCalls = 3
    MaxSessions = 4
    MaxLosses = 2
    Paths = {c1, c2}
    Scopes = {t1, t2}
    MaxRefs = 3
    t1 = t1
    t2 = t2
    Clients = {c1, c2}
    MaxProcs = 3
    MaxRequests = 3
    k1 = k1
    k2 = k2
    c1 = c1
    c2 = c2
SYMMETRY Symmetry
INVARIANTS
    TypesOK
    FilesAreKept
    HistoryIsKept
    ContextIsKept
    CandidatesAreSpared
    ToolSessionsAreKept
    MediaIsKept
    LauncherKeepsTrack
PROPERTY TruncateKeeps
