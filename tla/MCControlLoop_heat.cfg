CONSTANTS
    Session = {"game"}
    App <- OneApp
    Conflicted = {}
    Axis = {"cpu"}
    Top <- OneTop
    Scenes <- HeatScenes
    Faults = {"busy", "foreign", "reject", "stuck", "alter"}
    None = None
    MaxRefusals = 2
    BackoffSec = 9
    DecaySec = 27
SPECIFICATION FairSpec
INVARIANTS TypeOK
PROPERTIES HeatReleases NeverLatched
