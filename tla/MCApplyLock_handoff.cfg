CONSTANTS
    a = a
    b = b
    d = d
    Nobody = Nobody
    Shell <- OneShell
    Native <- Daemon
    Faults = {}
    MaxTries = 3
    Patience = 2
    Rounds = 2
SPECIFICATION Spec
INVARIANTS MutualExclusion
CHECK_DEADLOCK FALSE
