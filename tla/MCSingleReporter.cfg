SPECIFICATION Spec
CONSTANTS
    u1 = u1
    Users = {u1}
    MaxContexts = 2
    MaxSockets = 3
    MaxCalls = 4
    MaxPackets = 1
    MaxLosses = 2
    MaxThreadFailures = 0
    UserCalls = {"connect", "disconnect", "enableAuto"}
    CallbackCalls = {"enableAuto", "disableAuto"}
    AutoReconnect = TRUE
    ConnectAgain = FALSE
    ProbeErrors = FALSE
INVARIANT NoNullUse
PROPERTY DisconnectCloses
\* The bounds on calls, sockets and packets end every behaviour.
CHECK_DEADLOCK FALSE
