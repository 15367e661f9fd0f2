SPECIFICATION MCSpec
CONSTANTS
    RestDex = {native, d1}
    NativeDex = native
    CallWeight = 2
    InitWeight = 1
    MaxWeight = 3
    Window = 1
    Permits = 2
    LastAttempt = 2
    FinalCooldown = 2
    RestFaults = 3
    PageRequest = {r1, r2}
    NoBar = NoBar
    NeverTraded = {2, 3}
    Cursors = {2, 4, 7}
    PageSizes = {1, 4}
    ChunkBars = 2
    MaxChunks = 2
    FirstTime = 5
    MaxTime = 7
    HistoryFaults = 1
    SettingValue = {low, mid, high}
    DefaultValue = mid
    Invalid = Invalid
    NoOverride = NoOverride
    Writers = 3
    SettingFaults = 2
    LastTime = 6
    MaxPerTime = 2
    FillCap = 3
    MaxPages = 2
    NarrowWindow = 2
    FillLimits = {1, 2, 3}
    Wallet = {w1, w2, w3}
    Render = {v1, v2}
    Ttl = 2
    MaxEntries = 2
    MaxFetch = 2
INVARIANTS
    BudgetHolds InitBeforeUse CooldownCoversBackoff NeverStuck
    PagesHaveNoHoles ShortPagesMeetAPause
    SavedMatchesLive   ServedFresh
CHECK_DEADLOCK FALSE
