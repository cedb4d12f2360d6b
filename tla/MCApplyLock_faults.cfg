CONSTANTS
    a = a
    b = b
    d = d
    Nobody = Nobody
    Shell <- TwoShells
    Native <- Daemon
    Faults = {"kill", "full"}
    MaxTries = 3
    Patience = 2
    Rounds = 1
SPECIFICATION FairSpec
INVARIANTS NothingLeftLocked
PROPERTIES AttemptsEnd WreckTaken
CHECK_DEADLOCK FALSE
