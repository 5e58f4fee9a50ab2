SPECIFICATION Spec
CONSTANTS
    NoToolName = NoToolName
    f = f
    g = g
    properties = properties
    items = items
    format = format
    Tools <- MCTools
INVARIANTS
    NothingLost
    NamesIdentifyTools
CHECK_DEADLOCK FALSE
