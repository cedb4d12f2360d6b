CONSTANTS
    NumNodes = 1
    Axis <- CpuAxis
    Table <- CpuTable
    Settings <- CpuSettings
    Tier = "balanced"
    Faults = {"kill", "reboot", "reject", "clamp", "save", "busy", "foreign", "gap"}
    MaxTries = 2
SPECIFICATION FairSpec
INVARIANTS TypeOK Recoverable StoppedMeansReleased
PROPERTIES NeverPinned StopTerminates
