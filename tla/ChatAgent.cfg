CONSTANTS
    Decisions <- MCDecisions
    ChunksOf <- MCChunksOf
    Outcomes <- MCOutcomes
    IndexLists <- MCIndexLists
    HandleLists <- MCHandleLists
    SemanticModel <- MCSemanticModel
    OrmTables <- MCOrmTables
    Examples <- MCExamples
    Statements <- MCStatements
    NoStatement = NoStatement
    SqlIterations = 2
    MaxIterations = 3
    MaxDocumentsRead = 1
    MaxPerReading = 1
    MaxCited = 2
    Cap = 3
    MaxTurns = 2
    MaxDeletes = 1
SPECIFICATION FairSpec
INVARIANTS
    OneHandleEach
    AnswersAreSourced
    ReadingsAreBudgeted
    TurnsAreStoredWhole
PROPERTIES
    HandlesKeepTheirMeaning
    CasesAccumulate
    TurnsEnd
CHECK_DEADLOCK FALSE
