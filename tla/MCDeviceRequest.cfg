SPECIFICATION FairSpec
CONSTANTS
    c1 = c1
    c2 = c2
    f = f
    g = g
    Callers = {c1, c2}
    Functions = {f, g}
    Getters = {f}
    Codes = {0}
    SequenceNumbers = 2
    MaxRequests = 3
INVARIANT TypeOK
INVARIANT OwnAnswer
INVARIANT TimeoutsExplained
PROPERTY CallsReturn
PROPERTY Answered
CHECK_DEADLOCK FALSE
