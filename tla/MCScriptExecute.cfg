SPECIFICATION Spec
CONSTANTS
    Mailboxes <- MCMailboxes
    Programs <- MCPrograms
    MaxActions = 2
    LogBound = 4
INVARIANTS
    FlagAgreesWithLog
    DeprecatedViewsAgree
    OneDisposition
    FiledOnce
    PipedOnceWithinLimit
CHECK_DEADLOCK FALSE
