SPECIFICATION ReachableSpec
CONSTANTS
    u1 = u1
    Users = {u1}
    MaxContexts = 3
    MaxSockets = 3
    MaxCalls = 3
    MaxPackets = 0
    MaxLosses = 1
    MaxThreadFailures = 0
    UserCalls = {"connect", "disconnect", "send"}
    CallbackCalls = {"send"}
    AutoReconnect = TRUE
    ConnectAgain = FALSE
    ProbeErrors = FALSE
PROPERTY ReconnectsAfterLateLoss
PROPERTY JoinsReturn
PROPERTY ReconnectEnds
PROPERTY CallsReturn
\* The bounds on calls, sockets and packets end every behaviour.
CHECK_DEADLOCK FALSE
