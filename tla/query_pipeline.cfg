SPECIFICATION Spec
CONSTANTS
    Null = Null
    NullText = 8
    PrimaryKey = "id"
    RootColumn = {"id", "kind", "owner"}
    MaxCalls = 3
    MaxTurns = 2
    Val <- MCVal
    Lower <- MCLower
    Match <- MCMatch
    Pieces <- MCPieces
    Rows <- MCRows
    RelColumn <- MCRelColumn
    Related <- MCRelated
    Scan <- MCScan
    Setting <- MCSetting
    AskCondition <- MCAskCondition
    AskAny <- MCAskAny
    AskColumns <- MCAskColumns
    AskRelation <- MCAskRelation
    AskOrder <- MCAskOrder
    AskSize <- MCAskSize
    RawRequest <- MCRawRequest
INVARIANTS
    TypeOK
    AuthFilterHolds
    JoinsStayAllowed
    AnswersWhatWasAsked
    DialectsAgree
    PagesPartition
    PageCountIsExact
