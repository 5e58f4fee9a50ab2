CONSTANTS
    a = a
    b = b
    n = n
    t = t
    ToolIDs = {a, b}
    Names = {n}
    Tokens = {t}
    EmptyContent = EmptyContent
    NoID = NoID
    NoName = NoName
    NoDelta = NoDelta
    Scripts <- MCScripts
    CallerIDs <- MCCallerIDs
    MaxFrames = 4
SPECIFICATION Spec
SYMMETRY Symmetry
CHECK_DEADLOCK FALSE
INVARIANTS
    TypeOK
    ToolFramesOrdered
    BookkeepingMatchesWire
    ToolFramesOutsideBlocks
    CancelledOnce
PROPERTIES
    DisconnectIsFinal
