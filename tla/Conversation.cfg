SPECIFICATION FairSpec
CONSTANTS
    None = None
    Sessions = {a, b, c}
    Stored = {a}
    MaxAsks = 2
    MaxVisits = 3
INVARIANTS
    ScreenIsRoute
    PatientlyAskedWhereShown
PROPERTIES
    LiveTurnsStay
    StoredTurnsSurvive
    ComposerReturns
CHECK_DEADLOCK FALSE
