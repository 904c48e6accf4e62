SPECIFICATION Spec
CONSTANTS
    Mailboxes <- MCMailboxes
    Programs <- MCPrograms
    MaxActions = 2
    LogBound = 4
INVARIANT AbortsOverLimit
CHECK_DEADLOCK FALSE
