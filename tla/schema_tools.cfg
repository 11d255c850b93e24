CONSTANTS
    Word <- MCWord
    Capital <- MCCapital
    Token <- MCToken
    Numeral <- MCNumeral
    Reserved <- MCReserved
    Start <- MCStart
    EntityName <- MCEntityName
    NewField <- MCNewField
    NewName <- MCNewName
    NewRel <- MCNewRel
    NewIndex <- MCNewIndex
    MaxEdits = 1
    MaxPasses = 12
SPECIFICATION Spec
INVARIANTS TypeOK LintIsExact FixReachesFixpoint FixCleans RenameFollowsReferences
PROPERTIES FixKeepsEntities
