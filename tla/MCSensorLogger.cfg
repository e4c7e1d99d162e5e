SPECIFICATION FairSpec
CONSTANTS
    b1 = b1
    null = null
    callback = callback
    receiver = receiver
    UIDs = {b1}
    Nothing = null
    Block = 1
    Width = 4
    MaxValue = 2
    Tolerance = 1
    Objects = 3
    Busy = {b1}
    MaxEvents = 4
    MaxReports = 1
INVARIANT Armed
INVARIANT SensorAlive
PROPERTY Settles
\* There are no more events.
CHECK_DEADLOCK FALSE
