CONSTANTS
    c1 = c1
    c2 = c2
    n = n
    i1 = i1
    i2 = i2
    prompt = prompt
    completion = completion
    ToolIDs = {c1, c2}
    Names = {n}
    Tokens <- MCTokens
    EmptyContent = EmptyContent
    NoID = NoID
    NoName = NoName
    NoDelta = NoDelta
    Indices = {i1, i2}
    NoIndex = NoIndex
    Chunks <- MCChunks
    Scripts <- NoFault
    LiveModes = {TRUE, FALSE}
    LiveResume = FALSE
    Fields = {prompt, completion}
    Counts <- MCCounts
    MaxChunks = 3
SPECIFICATION Spec
SYMMETRY Symmetry
INVARIANTS
    TypeOK
    FramesInsideTheirBlock
    BlocksNeverOverlap
    BlockIDsAreFresh
    EverythingStartedEnds
    TranscriptInOrder
    ArgumentsConserved
    IDsIdentifyBuffers
    StartedUnderOwner
    OwnerCallsMatchWire
    AmbiguityDetected
    AmbiguousNeverAttached
    ResponseKeepsArguments
