SPECIFICATION FairSpec
CONSTANTS
    Identities = {i1, i2}
    i1 = i1
    i2 = i2
    Pids = {11, 12}
    Seconds = {1}
    MaxLessons = 2
    MaxMoves = 2
    MaxKills = 1
    MaxFull = 1
    MaxAdopt = 1
INVARIANTS
    KeptUnlessUnmoved
    ResetSeen
    AdoptedInUse
PROPERTIES
    ImplementsArchive
    LessonsReachDisk
