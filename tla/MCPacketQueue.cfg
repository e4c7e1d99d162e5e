SPECIFICATION FairSpec
CONSTANTS
    p1 = p1
    p2 = p2
    a = a
    b = b
    exit = exit
    Producers = {p1, p2}
    Data = {a, b}
    Exit = exit
    MaxItems = 5
INVARIANT GetNeverFails
INVARIANT NothingLost
PROPERTY IsFifo
PROPERTY Drained
\* Nothing is done with a queue that was destroyed; MaxItems is the bound.
CHECK_DEADLOCK FALSE
