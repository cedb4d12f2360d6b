CONSTANTS
    NumNodes = 3
    Axis <- LineAxis
    Table <- LineTable
    Settings <- LineSettings
    Tier = "powersave"
    Faults = {"busy", "foreign"}
    MaxTries = 2
SPECIFICATION Spec
INVARIANT NothingLeft
PROPERTY ForeignPreserved
