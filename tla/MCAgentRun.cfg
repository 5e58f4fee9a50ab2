CONSTANTS
    c1 = c1
    c2 = c2
    here = here
    there = there
    i1 = i1
    i2 = i2
    prompt = prompt
    ToolIDs = {c1, c2}
    Names = {here, there}
    Tokens <- MCTokens
    EmptyContent = EmptyContent
    NoID = NoID
    NoName = NoName
    NoDelta = NoDelta
    Indices = {i1, i2}
    NoIndex = NoIndex
    Chunks <- MCChunks
    Scripts <- MCScripts
    LiveModes = {TRUE, FALSE}
    LiveResume = FALSE
    Fields = {prompt}
    Counts = {0, 1}
    MaxChunks = 2
    ClientNames = {there}
    MaxTurns = 2
SPECIFICATION RunSpec
INVARIANTS
    RunBracketed
    SuccessIsSeen
    CallsShown
    ResultsFollowCalls
