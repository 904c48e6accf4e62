SPECIFICATION Spec
CONSTANTS
    Parts <- MCOnePart
    Root = "root"
    Children <- MCNoChildren
    IsMultipart = TRUE
    Scripts = {a, b, c}
    Missing <- MCMissing
    Broken <- MCBroken
    Main = "main"
    LoopNames <- MCNone
    NoName = "none"
    includeMaxDepth = 2
    Budget = 2
    MaxFrames = 4
INVARIANTS
    IncludesBounded
    ScopeIsInnermost
    OnceRunsOnce
SYMMETRY MCSymmetry
CHECK_DEADLOCK FALSE
