SPECIFICATION Spec
CONSTANTS
    NoID = NoID
    NoSubagent = NoSubagent
    t = t
    u = u
    a = a
    b = b
    s1 = s1
    Histories <- MCHistories
    Answers <- MCAnswers
INVARIANTS
    RoundTripKeepsIdentity
    NothingShared
    NoSecretSent
CHECK_DEADLOCK FALSE
