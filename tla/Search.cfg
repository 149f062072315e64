CONSTANTS
    Docs <- MCDocs
    Labels <- MCLabels
    Categories = {"jav"}
    Dates = {1}
    None = None
    Queries = {"jav", "sekretess"}
    Normal <- MCNormal
    Variants <- MCVariants
    MaxVariants = 1
    Similarity <- MCSimilarity
    TextRank <- MCTextRank
    Floor = 1
    ArmLimit = 3
    CandidateLimit = 1
    SearchLimit = 2
    PageLimit = 1
    RrfK = 60
    MaxChanges = 2
    MaxRequests = 1
SPECIFICATION Spec
INVARIANTS
    AnswersAreInScope
    FusionIsFair
    OneChunkingEach
    PagesPartition
    VocabularyPagesPartition
CHECK_DEADLOCK FALSE
