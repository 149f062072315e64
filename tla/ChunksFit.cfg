CONSTANTS
    None = None
    SummaryTail = 3
    MaxExpandedSections = 6
    CharsPerEntity = 6
    NonNames = {"Motpart"}
    SpecialTokens = 1
    PrefixTokens = 1
    SeparatorTokens = 1
    SummaryReserve = 2
    SafetyMargin = 1
    OverlapShare = 10
    SentinelFloor = 1000
    Templates <- MCTemplates
SPECIFICATION Spec
INVARIANTS
    ChunksFit
CHECK_DEADLOCK FALSE
