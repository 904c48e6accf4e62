SPECIFICATION Spec
CONSTANTS
    Names <- MCNames
    Contents <- MCContents
    Texts <- MCTexts
    Unquotable <- MCUnquotable
    Length <- MCLength
    NoName = ""
    Mixed = "mixed"
    MaxScripts = 1
    Settings <- MCSettings
    MaxRounds = 1
    MaxLate <- MCMaxLate
    MaxLiteralBytes = 3
    ClientMaxLiteralBytes = 2
    MaxCommandArgs = 3
    MaxNonLiteralCommandLen = 5
INVARIANTS
    InStep
    AuthenticatedAtBothEnds
    CallerSeesStore
PROPERTIES
    CallReturns
CHECK_DEADLOCK FALSE
