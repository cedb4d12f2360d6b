CONSTANTS
    Session = {"game"}
    App <- OneApp
    Conflicted = {}
    Axis = {"cpu", "pelt"}
    Top <- BothTop
    Scenes <- ToggleScenes
    Faults = {}
    None = None
    MaxRefusals = 2
    BackoffSec = 24
    DecaySec = 48
SPECIFICATION Spec
INVARIANTS ArmedInEffect
