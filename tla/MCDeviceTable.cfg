SPECIFICATION Spec
CONSTANTS
    d1 = d1
    d2 = d2
    d3 = d3
    u = u
    v = v
    w1 = w1
    w2 = w2
    null = null
    Devices = {d1, d2, d3}
    UIDs = {u, v}
    Workers = {w1, w2}
    Nothing = null
    Block = 1
INVARIANT NotFreedInUse
INVARIANT NoDangling
INVARIANT FreedWhenUnused
INVARIANT Found
\* The application has created and destroyed all the devices there are.
CHECK_DEADLOCK FALSE
