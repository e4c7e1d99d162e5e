SPECIFICATION Spec
CONSTANTS
    u1 = u1
    Users = {u1}
    MaxContexts = 2
    MaxSockets = 2
    MaxCalls = 3
    MaxPackets = 1
    MaxLosses = 1
    MaxThreadFailures = 1
    UserCalls = {"connect", "disconnect", "send", "destroy"}
    CallbackCalls = {"send", "disconnect"}
    AutoReconnect = TRUE
    ConnectAgain = TRUE
    ProbeErrors = TRUE
INVARIANT ProbeSocketLive
INVARIANT ClosesOnlyLost
INVARIANT ContextAlive
INVARIANT ReceiverJoined
\* The bounds on calls, sockets and packets end every behaviour.
CHECK_DEADLOCK FALSE
