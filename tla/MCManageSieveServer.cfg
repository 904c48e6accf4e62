SPECIFICATION FairSpec
CONSTANTS
    Listeners <- MCListeners
    Conns <- MCConns
    Sessions <- MCSessions
    NoConn = NoConn
    NoSession = NoSession
    HasTLS = TRUE
    InsecureAuth = FALSE
    MaxPipelined = 2
INVARIANTS
    AuthenticatedProtected
    UsesOwnOpenSession
    EndedCleanly
    LogoutStops
    SurvivorsRegisteredLate
    NoAcceptAfterClose
PROPERTIES
    ClosedConnEnds
    CloseReturns
CHECK_DEADLOCK FALSE
