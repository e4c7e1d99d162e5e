----------------------- MODULE IpConnectionProperties -----------------------
(***************************************************************************)
(* What the connection lifecycle of module IpConnection should guarantee.  *)
(***************************************************************************)
EXTENDS IpConnection

Running(w) == wpc[w] \notin {"none", "done", "reported"}

(* The probe thread reads socket and socket_id without the socket_mutex.    *)
(* That is safe because it is created and joined with the mutex held: while *)
(* it runs, the socket is the one it was created for, open and not freed.   *)
ProbeSocketLive ==
    \A s \in Sockets : Running(<<"probe", s>>) => socket = s /\ conn[s] = "open"

(* A disconnect nobody requested (a failed send, or the DISCONNECTED meta   *)
(* item a worker queued, however late it is dispatched) never closes a      *)
(* connection whose peer is still there.                                    *)
ClosesOnlyLost ==
    \A t \in Callers :
        pc[t] \in {"joinProbe", "joinReceive", "close"} /\ op[t] \in {"send", "meta"}
            => socket \in lost

(* A probe thread has reported the loss of its socket; the callback thread
   destroys that socket without joining its receive thread.                 *)
ProbeReported == \E s \in Sockets : wpc[<<"probe", s>>] = "reported"

(* The receive thread of a socket has ended when the socket is destroyed:
   ipcon_disconnect, a failed send and a failed connect always join it, and
   the dispatch of a lost connection need not, as the thread that reported
   it has ended, until a probe thread has reported one.                     *)
ReceiverJoined ==
    /\ \A t \in Callers : pc[t] = "close" /\ op[t] # "meta" => ~Running(<<"receive", socket>>)
    /\ ProbeReported \/ \A s \in Sockets : Running(<<"receive", s>>) => socket = s

(* The cases in which ipcon_p->callback is ended beside a worker that may
   have read it: a disconnect has aborted a pending auto-reconnect although
   there is a socket, or the receive thread was not joined.                 *)
Abandoned(w) ==
    \/ socket # Null /\ callback = Null
    \/ w[1] = "receive" /\ socket # w[2] /\ ProbeReported

(* Nobody queues an item for, or waits for, a callback context that is gone:
   not ipcon_p->callback itself, not a disconnect that has taken it, and not
   a worker, which reads ipcon_p->callback and puts into it in two steps.   *)
ContextAlive ==
    /\ callback # Null /\ (\A t \in Callers : pc[t] # "joinCallback" \/ op[t] # "connect")
           => pc[callback] # "exited"
    /\ \A t \in Callers : pc[t] = "handOver" /\ target[t] # Null => pc[target[t]] # "exited"
    /\ \A w \in Workers : Puts(w) => pc[into[w]] # "exited" \/ Abandoned(w)

(* No thread dereferences a NULL socket or callback context, or puts into
   the queue of a callback context that was freed.                          *)
NoNullUse == ~crashed

(* ipcon_destroy leaves no thread behind.                                   *)
DestroyTerminates ==
    destroyed => /\ \A w \in Workers : ~Running(w)
                 /\ \A c \in Contexts : pc[c] \in {"none", "exited"}

(* ipcon_disconnect and ipcon_destroy leave the IPConnection without a      *)
(* socket when they go on to end the callback thread.                       *)
DisconnectCloses ==
    [][\A t \in Callers : pc[t] # "handOver" /\ pc'[t] = "handOver" => socket' = Null]_vars

(* Every API call returns.                                                  *)
CallsReturn == \A t \in Callers : pc[t] = "enter" ~> (pc[t] = Base(t) \/ Ended)

(* Joining the workers of a socket, with the socket_mutex held, ends.       *)
JoinsReturn ==
    \A t \in Callers : pc[t] \in {"joinProbe", "joinReceive"} ~> (pc[t] = "close" \/ Ended)

(* The reconnect loop ends: with a connection, because somebody else has
   connected, or because ipcon_disconnect has aborted it.                   *)
ReconnectEnds == \A c \in Contexts : pc[c] = "retry" ~> (pc[c] = "loop" \/ Ended)

(* With auto-reconnect, a connection that is lost after ipcon_connect_unlocked
   has stored its flags is replaced by a new one, unless the application
   disconnects.                                                             *)
ReconnectsAfterLateLoss ==
    \A s \in Sockets :
        s \in lost /\ s < MaxSockets /\ socket = s /\ socket_mutex = Null
            /\ wpc[<<"receive", s>>] \in {"start", "loop", "receiving"}
        ~> socket_id > s \/ Ended \/ \E t \in Callers : op[t] \in Disconnects

-----------------------------------------------------------------------------
(* The inductive invariant of ProbeSocketLive: who holds the socket_mutex   *)
(* between which steps, and what it finds there.                            *)
Holds(t) ==
    \/ pc[t] \in {"context", "attempt", "receiver", "flags", "announce",
                  "joinProbe", "joinReceive", "close"}
    \/ pc[t] = "joinCallback" /\ op[t] = "connect"

MutexHeld == \A t \in Callers : Holds(t) => socket_mutex = t
SocketCurrent == socket = Null \/ socket = socket_id
SocketWhere ==
    \A t \in Callers :
        /\ pc[t] \in {"context", "attempt"} => socket = Null
        /\ pc[t] \in {"receiver", "flags", "announce", "joinProbe", "joinReceive", "close"}
               => socket # Null
ProbeEnded ==
    \A t \in Callers :
        pc[t] \in {"joinReceive", "close", "joinCallback"} /\ Holds(t)
            => socket = Null \/ ~Running(<<"probe", socket>>)
OpsWhere ==
    \A t \in Callers :
        /\ pc[t] = "handOver" => op[t] \in Disconnects
        /\ pc[t] \in {"context", "attempt", "receiver", "flags", "announce"}
               => op[t] \in {"connect", "reconnect"}

ProbeInv ==
    MutexHeld /\ SocketCurrent /\ SocketWhere /\ ProbeEnded /\ OpsWhere /\ ProbeSocketLive

(* The inductive invariant of ClosesOnlyLost: the socket_id in every report *)
(* of a lost connection, queued or on its way, is that of a lost or of a    *)
(* former socket.                                                           *)
Reported(id) == id \in 0 .. socket_id /\ (id = 0 \/ id \in lost \/ id # socket)

QueueReports ==
    \A c \in Contexts : \A i \in 1 .. Len(queue[c]) : Reported(queue[c][i].sid)
ItemReports == \A c \in Contexts : Reported(item[c].sid)
ReceiverReports ==
    \A r \in Sockets :
        /\ rid[r] <= socket_id
        /\ wpc[<<"receive", r>>] = "receiving" => rsock[r] \in rid[r] .. socket_id
        /\ wpc[<<"receive", r>>] \in {"gone", "report", "put"} => Reported(rid[r])
ProbeReports == \A s \in Sockets : wpc[<<"probe", s>>] \in {"gone", "report", "put"} => s \in lost
SocketOpen ==
    socket # Null =>
        \/ conn[socket] = "open"
        \/ ~receive_flag /\ socket_mutex # Null /\ pc[socket_mutex] \in {"joinReceive", "close"}

LossInv ==
    QueueReports /\ ItemReports /\ ReceiverReports /\ ProbeReports /\ SocketOpen /\ ClosesOnlyLost

(* The inductive invariant of ContextAlive: whoever has taken a context to  *)
(* end it is the only one to do so, and ipcon_p->callback is not that one.  *)
Queued(c) == {queue[c][n] : n \in 1 .. Len(queue[c])}
Ending(c) ==
    pc[c] = "exited" \/ \E i \in Queued(c) : i.kind \in {"exit", "destroyAndExit"}
EndsItsOwn(t) == pc[t] = "joinCallback" /\ op[t] = "connect"
Taken(t) == pc[t] = "handOver" /\ target[t] # Null

ContextsKnown ==
    /\ callback <= contexts /\ \A t \in Callers : target[t] <= contexts
    /\ \A c \in Contexts : c > contexts => pc[c] = "none" /\ queue[c] = <<>>
CallbackAlive ==
    callback # Null /\ (\A t \in Callers : ~EndsItsOwn(t)) => ~Ending(callback)
TargetAlive == \A t \in Callers : Taken(t) => target[t] # callback /\ ~Ending(target[t])
OneTaker ==
    \A t \in Callers : Taken(t) =>
        \A u \in Callers \ {t} : pc[u] = "handOver" => target[u] # target[t]

ContextInv == ContextsKnown /\ CallbackAlive /\ TargetAlive /\ OneTaker

(* The inductive invariant of ReceiverJoined: who closes a socket joins its *)
(* receive thread first, and until a probe thread reports a loss the report *)
(* that makes the callback thread close it was the last step of that thread.*)
Receives(s) == Running(<<"receive", s>>)
Spent(id) == id \in 0 .. MaxSockets /\ (id = 0 \/ WorkerEnded(<<"receive", id>>))

WorkersCreated ==
    /\ \A w \in Workers : w[2] > socket_id => wpc[w] = "none"
    /\ \A t \in Callers : pc[t] = "receiver" => wpc[<<"receive", socket>>] = "none"
FlagSet ==
    socket # Null /\ Receives(socket) => receive_flag \/ \E t \in Callers : pc[t] = "joinReceive"
CloserJoined ==
    \A t \in Callers :
        socket # Null /\ ((pc[t] = "close" /\ op[t] # "meta") \/ EndsItsOwn(t)) => ~Receives(socket)

ReceiverIds ==
    \A s \in Sockets :
        wpc[<<"receive", s>>] \in {"loop", "receiving", "packet", "gone", "report", "put"} => rid[s] = s
TeardownSpent ==
    \A t \in Callers :
        socket # Null /\ pc[t] \in {"joinProbe", "close"} /\ op[t] = "meta" => ~Receives(socket)
OnlyReceiversReport ==
    \A c \in Contexts : Spent(item[c].sid) /\ \A i \in Queued(c) : Spent(i.sid)
SocketReceived == \A s \in Sockets : Receives(s) => socket = s

JoinsFirst == WorkersCreated /\ FlagSet /\ CloserJoined
ReceiversAlone == ReceiverIds /\ TeardownSpent /\ OnlyReceiversReport /\ SocketReceived
JoinedInv == JoinsFirst /\ (ProbeReported \/ ReceiversAlone)

(* What a worker that may still be joined has found in ipcon_p->callback is *)
(* still there.                                                             *)
FoundKnown == \A w \in Workers : into[w] <= contexts
FoundCurrent ==
    \A w \in Workers : Puts(w) /\ socket = w[2] /\ callback # Null => into[w] = callback

(* The inductive invariant of DestroyTerminates, when no connection is lost *)
(* and callbacks neither disconnect nor connect again: then no callback     *)
(* thread runs that nobody is going to join.                                *)
NoneLost ==
    /\ MaxLosses = 0 /\ "disconnect" \notin CallbackCalls
    /\ "connect" \in CallbackCalls => ~ConnectAgain

LostAt(c) == {n \in 1 .. Len(queue[c]) : queue[c][n].kind = "lost"}
ContextsHeld ==
    /\ \A c \in Contexts : pc[c] \notin {"none", "exited"} =>
           \/ c = callback
           \/ \E u \in Users : pc[u] \in {"handOver", "joinCallback"} /\ target[u] = c
    /\ \A t \in Callers : EndsItsOwn(t) => target[t] = callback
NothingReported ==
    /\ lost = {} /\ ~auto_reconnect_pending /\ ~ProbeReported
    /\ \A c \in Contexts : item[c].kind # "lost" /\ LostAt(c) = {}
CallbacksSend ==
    /\ \A u \in Users : op[u] \notin {"meta", "reconnect"} /\ (op[u] = "send" => pc[u] = "enter")
    /\ \A c \in Contexts :
          \/ op[c] = "send" /\ pc[c] = "enter"
          \/ op[c] = "none" /\ pc[c] \in {"none", "loop", "callback", "exited"}
NotCalledYet ==
    socket_id = 0 =>
        /\ \A u \in Users : pc[u] # "handOver"
        /\ \A c \in Contexts : /\ pc[c] \in {"none", "loop", "exited"}
                               /\ \A i \in Queued(c) : i.kind \in {"exit", "destroyAndExit"}
CallbackUsed ==
    callback # Null => socket # Null \/ \E t \in Callers : pc[t] = "attempt" \/ EndsItsOwn(t)
DestroysAlone ==
    \A t \in Users : op[t] = "destroy" =>
        /\ \A u \in Users \ {t} : pc[u] = "idle"
        /\ pc[t] \in {"handOver", "joinCallback"} => socket = Null /\ callback = Null

KeptInv ==
    /\ NothingReported /\ CallbacksSend /\ NotCalledYet /\ CallbackUsed /\ DestroysAlone
    /\ ContextsHeld /\ DestroyTerminates
=============================================================================
