SPECIFICATION Spec
CONSTANTS
    b1 = b1
    b2 = b2
    null = null
    callback = callback
    receiver = receiver
    UIDs = {b1, b2}
    Nothing = null
    Block = 1
    Width = 2
    MaxValue = 1
    Tolerance = 0
    Objects = 2
    Busy = {b1, b2}
    MaxEvents = 2
    MaxReports = 1
INVARIANT Tracked
\* There are no more events.
CHECK_DEADLOCK FALSE
