SPECIFICATION SessionSpec
CONSTANTS
    Names <- MCNames
    BadNames <- MCBadNames
    Contents <- MCContents
    BadContents <- MCBadContents
    Clients <- MCClients
    NoName = NoName
    Nothing = Nothing
    MaxScripts = 2
INVARIANTS
    ActiveStored
    QuotaRespected
    OnlyCheckedStored
PROPERTIES
    ActiveTextKept
    ImplementsStore
