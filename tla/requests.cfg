SPECIFICATION FairSpec
CHECK_DEADLOCK FALSE
CONSTANTS
    c1 = c1
    c2 = c2
    Call = {c1, c2}
    Null = Null
    PrimaryKey = "id"
    Excluded = {"getMany"}
    SoftDelete = TRUE
    OwnMethods = {"deleteOne"}
    Overrides = {"updateOne"}
    Attempts = 2
    MaxFaults = 2
    MaxClock = 1
    Column <- MCColumn
    AuthFilter <- MCOwner
    Persist <- MCOwner
    InitialRows <- MCInitialRows
    Plan <- MCPlan
INVARIANTS
    TypeOK
    DuplicatesNeedALostAnswer
    AnswersAreOwn
PROPERTIES
    OnlyTheTarget
    CallsSettle
