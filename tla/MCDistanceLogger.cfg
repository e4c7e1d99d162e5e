SPECIFICATION FairSpec
CONSTANTS
    MAXIMUM_VALUE = 1
    MaxDistance = 2
    MaxReports = 1
    MaxChanges = 1
    Topics = {"t"}
    Patterns = {"any"}
    Matches <- MCMatches
    Values = {0, 1}
    MaxBreaks = 1
    MaxMessages = 1
    MaxSubscribes = 2
PROPERTY RetainedSettles
PROPERTY Reconnected
PROPERTY DestroyReturns
PROPERTY Heard
\* The owner is done, and the bounds end what happens outside.
CHECK_DEADLOCK FALSE
