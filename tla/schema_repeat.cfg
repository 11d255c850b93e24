CONSTANTS
    Word <- MCWord
    Capital <- MCCapital
    Token <- MCToken
    Numeral <- MCNumeral
    Reserved <- MCReserved
    Start <- MCBrokenStart
    EntityName <- MCEntityName
    NewField <- MCNewField
    NewName <- MCNewName
    NewRel <- MCNewRel
    NewIndex <- MCBrokenIndex
    MaxEdits = 1
    MaxPasses = 12
SPECIFICATION Spec
PROPERTIES EditAddsNoError
