CONSTANTS
    s = s
    t = t
    l = l
    m = m
    System <- OneSystem
    Early <- EarlyOne
    Launch <- TwoLaunches
    Nobody = Nobody
    ReplayLimit = 1
    MaxDeaths = 1
    Faults = {"tier", "marker", "prepare", "kill", "die"}
SPECIFICATION FairSpec
INVARIANTS NothingLeftLocked CountHonest SuccessEarned
PROPERTIES LaunchSettles
CHECK_DEADLOCK FALSE
