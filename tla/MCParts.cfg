CONSTANTS
    Configs = {"old0", "old1", "lost", "new", "other"}
    Live = {"new", "other"}
    Retired <- OldIdentities
    Fines = {1}
    Edges = {1}
    MaxEntries = 3
    FinePromotion = 2
    SurpriseAt = 2
    MaxCount = 4
    HalfLife = 2
    MaxSamples = 5
    MaxRestarts = 2
    Policies = {"old0", "old1", "new"}
    Folds <- OldPolicies
    MaxContexts = 2
    Capacity = 2
    Lookahead = 3
    MaxWindows = 4
    MaxStarts = 1
    SearchAxes = 2
    SearchTop = 2
    PeltTop = 1
    Horizon = 2
    Iterations = 3
    Scenes <- SearchScenes
    Keep = 3
    MaxFiles = 7
    MaxCuts = 2
    t1 = t1
    t2 = t2
    c1 = c1
    c2 = c2
    Threads = {t1, t2}
    Cpus = {c1, c2}
    Lists <- ThreadLists
    Attachable <- CpuSets
    MaxWakeups = 2
    Apps = {"game", "chat"}
    Nobody = "nobody"
    Polls = {2, 3}
    Sleeps = {0, 40}
    Rates = 3
    RaiseAfter = 3
    LowerAfter = 4
    MaxCompared = 7
    Debounced = {"live", "mem"}
    Direct = {"samsung"}
    Values = {0, 1}
    MaxActs = 3
    MaxTroubles = 2
    Scripts = {s1, s2}
    s1 = s1
    s2 = s2
    MaxLaunches = 3
    MaxRuns = 3
    MaxSlain = 1
SPECIFICATION Spec
INVARIANTS
    EvidenceMeasured
    CountsAgree ScoresUnbroken
    AnswerHolds
    NewestKept
    WaitsCountedOnce StrayOnce
    FramesOfApp PairsInGate QueueCatchesUp
    Settled
    StopReleases
PROPERTIES
    FoldKeeps
    ChangeEarned
CHECK_DEADLOCK FALSE
