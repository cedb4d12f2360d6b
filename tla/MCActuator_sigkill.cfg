CONSTANTS
    NumNodes = 1
    Axis <- CpuAxis
    Table <- CpuTable
    Settings <- CpuSettings
    Tier = "balanced"
    Faults = {"kill"}
    MaxTries = 2
SPECIFICATION Spec
INVARIANTS NoFloorLeaks
