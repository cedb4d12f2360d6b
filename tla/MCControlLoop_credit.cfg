CONSTANTS
    Session = {"game", "chat", "rival"}
    App <- ThreeApps
    Conflicted = {"rival"}
    Axis = {"cpu"}
    Top <- OneTop
    Scenes <- CreditScenes
    Faults = {"busy", "foreign", "reject", "alter"}
    None = None
    MaxRefusals = 1
    BackoffSec = 6
    DecaySec = 24
SPECIFICATION Spec
INVARIANTS CreditUndisturbed  HeldMatches 
