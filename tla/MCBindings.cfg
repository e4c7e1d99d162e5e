SPECIFICATION Spec
CONSTANTS
    t1 = t1
    t2 = t2
    Threads = {t1, t2}
    Devices <- BindingsDevices
    Getters <- BindingsGetters
    Setters <- BindingsSetters
    Default <- BindingsDefault
    MaxCalls = 2
INVARIANT GetterAnswered
INVARIANT SetterDetects
\* There are no more calls.
CHECK_DEADLOCK FALSE
