SPECIFICATION FairSpec
CONSTANTS
    u1 = u1
    u2 = u2
    Users = {u1, u2}
    MaxContexts = 2
    MaxSockets = 2
    MaxCalls = 3
    MaxPackets = 1
    MaxLosses = 0
    MaxThreadFailures = 0
    UserCalls = {"connect", "disconnect", "destroy"}
    CallbackCalls = {"send"}
    AutoReconnect = TRUE
    ConnectAgain = FALSE
    ProbeErrors = FALSE
INVARIANT DestroyTerminates
PROPERTY CallsReturn
\* The bounds on calls, sockets and packets end every behaviour.
CHECK_DEADLOCK FALSE
