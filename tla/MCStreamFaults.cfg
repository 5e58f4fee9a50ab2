CONSTANTS
    c1 = c1
    c2 = c2
    n = n
    i1 = i1
    i2 = i2
    prompt = prompt
    completion = completion
    ToolIDs = {c1, c2}
    Names = {n}
    Tokens <- MCTokens
    EmptyContent = EmptyContent
    NoID = NoID
    NoName = NoName
    NoDelta = NoDelta
    Indices = {i1, i2}
    NoIndex = NoIndex
    Chunks <- MCFewChunks
    Scripts <- Faults
    LiveModes = {TRUE, FALSE}
    LiveResume = TRUE
    Fields = {prompt, completion}
    Counts <- MCCounts
    MaxChunks = 3
SPECIFICATION Spec
INVARIANTS
    BlocksNeverOverlap
    SeenArgumentsArePrefix
    TranscriptMatchesWire
    EndedBlocksInTranscript
    UsageIsMaximum
    NoSilentDisconnect
    StopsReceiving
PROPERTIES
    ImplementsTurnLog
