CONSTANTS
    Docs <- MCDocs
    Idents <- MCIdents
    Cites <- MCCites
    Column <- MCColumn
    Answers <- MCAnswers
    Rank <- MCRank
    Workers = {w1, w2}
    NoDoc = NoDoc
    MaxRuns <- MCRuns
    MaxFailures = 1
SPECIFICATION Spec
INVARIANTS
    NoCitationLost
    NoSelfEdge
    ParkedMeansNotIngested
CHECK_DEADLOCK FALSE
