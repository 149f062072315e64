SPECIFICATION Spec
CONSTANTS
    None = None
    Sessions = {a, b, c}
    Stored = {a}
    MaxAsks = 2
    MaxVisits = 2
INVARIANTS
    TranscriptsAreCurrent
CHECK_DEADLOCK FALSE
