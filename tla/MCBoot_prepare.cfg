CONSTANTS
    s = s
    t = t
    l = l
    m = m
    System <- OneSystem
    Early <- EarlyOne
    Launch <- TwoLaunches
    Nobody = Nobody
    ReplayLimit = 1
    MaxDeaths = 1
    Faults = {"prepare"}
SPECIFICATION FairSpec
PROPERTIES FailuresCounted
CHECK_DEADLOCK FALSE
