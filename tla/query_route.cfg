SPECIFICATION Spec
CONSTANTS
    Null = Null
    NullText = 8
    PrimaryKey = "id"
    RootColumn = {"id", "kind", "owner"}
    MaxCalls = 1
    MaxTurns = 1
    Val <- MCVal
    Lower <- MCLower
    Match <- MCMatch
    Pieces <- MCPieces
    Rows <- MCRows
    RelColumn <- MCRelColumn
    Related <- MCRelated
    Scan <- MCScan
    Setting <- MCSetting
    AskCondition <- MCAskCondition
    AskAny <- MCAskAny
    AskColumns <- MCAskColumns
    AskRelation <- MCAskRelation
    AskOrder <- MCAskOrder
    AskSize <- MCAskSize
    RawRequest <- MCRawRequest
INVARIANT RouteNamesTheRow
