SPECIFICATION FairSpec
CONSTANTS
    Parts <- MCParts
    Root = "root"
    Children <- MCChildren
    IsMultipart = TRUE
    Scripts <- MCOneScript
    Missing <- MCNone
    Broken <- MCNone
    Main = "main"
    LoopNames <- MCLoopNames
    NoName = "none"
    includeMaxDepth = 1
    Budget = 2
    MaxFrames = 4
INVARIANTS
    ChainDecides
    PartStackMatchesLoops
    NestedParts
PROPERTIES
    Terminates
CHECK_DEADLOCK FALSE
