---------------------------- MODULE IpConnection ----------------------------
(***************************************************************************)
(* The connection lifecycle of the Tinkerforge C bindings                  *)
(* (libtinkerforge/bindings/ip_connection.c): the socket_mutex and what it *)
(* protects, the callback contexts with their queues and threads, the      *)
(* receive and disconnect probe threads of every socket, and the           *)
(* application threads that connect, disconnect, send and destroy.         *)
(*                                                                         *)
(* A caller is a thread that runs API functions: an application thread     *)
(* (Users) or the thread of a callback context (Contexts), which runs      *)
(* ipcon_callback_loop and whatever functions the application callbacks    *)
(* call.  A worker is the receive or the probe thread created for a socket.*)
(***************************************************************************)
EXTENDS Integers, Sequences, FiniteSets

CONSTANTS
    Users,              \* application threads
    MaxContexts,        \* bound: callback contexts ever created
    MaxSockets,         \* bound: sockets ever connected
    MaxCalls,           \* bound: API calls made
    MaxPackets,         \* bound: packets received
    MaxLosses,          \* bound: connections whose peer goes away
    MaxThreadFailures,  \* bound: thread_create calls that fail
    UserCalls,          \* API functions application threads call
    CallbackCalls,      \* API functions application callbacks call
    AutoReconnect,      \* whether auto_reconnect is set before the first call
    ConnectAgain,       \* whether ipcon_connect is called after a first success
    ProbeErrors         \* whether the send of the disconnect probe can fail

Functions == {"connect", "disconnect", "destroy", "send"}
Calls == Functions \cup {"enableAuto", "disableAuto"}

Null == 0                               \* the NULL pointer, to a socket or a context
Contexts == 1 .. MaxContexts
Sockets == 1 .. MaxSockets
Callers == Users \cup Contexts
Workers == {"receive", "probe"} \X Sockets

ASSUME BoundsAssumption ==
    /\ MaxContexts \in Nat /\ MaxSockets \in Nat /\ MaxCalls \in Nat
    /\ MaxPackets \in Nat /\ MaxLosses \in Nat /\ MaxThreadFailures \in Nat

ASSUME UsersAssumption == Users \cap Nat = {}

ASSUME CallsAssumption ==
    /\ UserCalls \subseteq Calls /\ CallbackCalls \subseteq Calls \ {"destroy"}
    /\ AutoReconnect \in BOOLEAN /\ ConnectAgain \in BOOLEAN /\ ProbeErrors \in BOOLEAN

VARIABLES
    socket_mutex,               \* the caller that holds it, or Null
    socket, socket_id,
    conn,                       \* per socket: "unused", "open", "shut", "closed"
    lost,                       \* sockets whose peer is gone
    auto_reconnect, auto_reconnect_allowed, auto_reconnect_pending,
    callback,                   \* ipcon_p->callback
    contexts,                   \* number of contexts created so far
    packet_dispatch_allowed,    \* per context
    item,                       \* per context: the queue item being dispatched
    queue,                      \* per context: its callback queue
    pc, op,                     \* per caller: where it is, and in which function
    target,                     \* per caller: the local "callback" of ipcon_disconnect
    wpc,                        \* per worker: where it is
    rid, rsock,                 \* per receive thread: its local socket_id, and the
                                \*   socket it has passed to socket_receive
    into,                       \* per worker: the callback context it has found in
                                \*   ipcon_p->callback and is about to put into
    receive_flag, disconnect_probe_flag, disconnect_probe_event,
    calls, packets, failures,   \* counters of the bounds
    destroyed,                  \* ipcon_destroy has freed the IPConnection
    crashed                     \* a thread has dereferenced NULL or freed memory

net     == <<socket, socket_id, conn, lost>>
auto    == <<auto_reconnect, auto_reconnect_allowed, auto_reconnect_pending>>
context == <<callback, contexts, packet_dispatch_allowed, item>>
call    == <<pc, op, target>>
worker  == <<wpc, rid, rsock, into, receive_flag>>
probe   == <<disconnect_probe_flag, disconnect_probe_event>>
bound   == <<calls, packets, failures>>
fate    == <<destroyed, crashed>>
vars == <<socket_mutex, net, auto, context, queue, call, worker, probe, bound, fate>>

-----------------------------------------------------------------------------
(* Items of a callback queue; sid is the socket_id of a lost connection.    *)
ItemKinds == {"exit", "destroyAndExit", "packet", "connected", "request", "lost"}
Items == [kind : ItemKinds, sid : 0 .. MaxSockets]
Item(kind) == [kind |-> kind, sid |-> 0]
Lost(id) == [kind |-> "lost", sid |-> id]

(* Where a thread that is in no API function is.                            *)
Base(t) == IF t \in Users THEN "idle" ELSE "callback"

(* A worker thread has returned: when it was told to, or with its report of *)
(* a lost connection as the last thing it did.                              *)
WorkerEnded(w) == wpc[w] \in {"done", "reported"}

Init ==
    /\ socket_mutex = Null
    /\ socket = Null /\ socket_id = 0
    /\ conn = [s \in Sockets |-> "unused"] /\ lost = {}
    /\ auto_reconnect = AutoReconnect
    /\ auto_reconnect_allowed = FALSE /\ auto_reconnect_pending = FALSE
    /\ callback = Null /\ contexts = 0
    /\ packet_dispatch_allowed = [c \in Contexts |-> FALSE]
    /\ item = [c \in Contexts |-> Item("exit")]
    /\ queue = [c \in Contexts |-> <<>>]
    /\ pc = [t \in Callers |-> IF t \in Users THEN "idle" ELSE "none"]
    /\ op = [t \in Callers |-> "none"]
    /\ target = [t \in Callers |-> Null]
    /\ wpc = [w \in Workers |-> "none"]
    /\ rid = [s \in Sockets |-> 0] /\ rsock = [s \in Sockets |-> Null]
    /\ into = [w \in Workers |-> Null]
    /\ receive_flag = FALSE
    /\ disconnect_probe_flag = FALSE /\ disconnect_probe_event = FALSE
    /\ calls = 0 /\ packets = 0 /\ failures = 0
    /\ destroyed = FALSE /\ crashed = FALSE

-----------------------------------------------------------------------------
(* Steps shared by several functions.                                       *)

Goto(t, where) == pc' = [pc EXCEPT ![t] = where]
Leave(t, where) == Goto(t, where) /\ op' = [op EXCEPT ![t] = "none"]
Put(c, i) == queue' = [queue EXCEPT ![c] = Append(@, i)]

(* event_set on disconnect_probe_event, then the join of the probe thread.  *)
StopProbeNoEvent(t) == Goto(t, "joinProbe") /\ UNCHANGED disconnect_probe_event   \* mutant: no event_set
StopProbeNoJoin(t) == Goto(t, "close") /\ disconnect_probe_event' = TRUE          \* mutant: no thread_join
StopProbe(t) ==
    /\ disconnect_probe_event' = TRUE
    /\ Goto(t, "joinProbe")

(* ipcon_exit_callback_thread(ipcon_p->callback) and callback = NULL, with  *)
(* the socket_mutex held: the callback thread itself leaves a destroy item  *)
(* behind and is done, any other thread goes on to join it.                 *)
ExitCallbackThread(t) ==
    /\ Put(callback, Item(IF callback = t THEN "destroyAndExit" ELSE "exit"))
    /\ IF callback = t
       THEN callback' = Null /\ socket_mutex' = Null /\ Leave(t, Base(t)) /\ UNCHANGED target
       ELSE /\ target' = [target EXCEPT ![t] = callback]
            /\ Goto(t, "joinCallback")
            /\ UNCHANGED <<callback, socket_mutex, op>>
    /\ UNCHANGED <<contexts, packet_dispatch_allowed, item>>

ConnectFailedLocked(t) ==                                      \* mutant: no unlock before the retry
    IF op[t] = "reconnect"
    THEN Leave(t, "retry") /\ UNCHANGED <<socket_mutex, target, context, queue>>
    ELSE ExitCallbackThread(t)

(* How a failed ipcon_connect_unlocked ends: an auto-reconnect keeps its    *)
(* callback thread, unlocks and tries again.                                *)
ConnectFailed(t) ==
    IF op[t] = "reconnect"
    THEN socket_mutex' = Null /\ Leave(t, "retry") /\ UNCHANGED <<target, context, queue>>
    ELSE ExitCallbackThread(t)

(* ipcon_disconnect takes the callback context to end it after unlocking.   *)
TakeContextKept(t) ==                                          \* mutant: callback = NULL missing
    target' = [target EXCEPT ![t] = callback] /\ Goto(t, "handOver") /\ UNCHANGED <<context, queue, op>>
TakeContext(t) ==
    /\ target' = [target EXCEPT ![t] = callback]
    /\ callback' = Null
    /\ Goto(t, "handOver")
    /\ UNCHANGED <<contexts, packet_dispatch_allowed, item, queue, op>>

(* socket_destroy, free and socket = NULL.                                  *)
DestroySocket ==
    /\ conn' = [conn EXCEPT ![socket] = "closed"]
    /\ socket' = Null
    /\ UNCHANGED <<socket_id, lost>>

-----------------------------------------------------------------------------
(* API calls.  Call is the application's decision to call; the first mutex  *)
(* operation of the function is a step of its own, so that a caller waiting *)
(* for the socket_mutex is visible.                                         *)

MayCall(t, f) ==
    /\ pc[t] = Base(t)
    /\ f \in IF t \in Users THEN UserCalls ELSE CallbackCalls
    /\ calls < MaxCalls /\ calls' = calls + 1

Call(t, f) ==
    /\ MayCall(t, f)
    /\ f = "connect" => ConnectAgain \/ socket_id = 0
    /\ t \in Users => \A u \in Users \ {t} : op[u] # "destroy" /\ (f = "destroy" => pc[u] = "idle")
    /\ Goto(t, "enter")
    /\ op' = [op EXCEPT ![t] = f]
    /\ UNCHANGED <<socket_mutex, net, auto, context, queue, target, worker, probe, packets, failures, fate>>

(* ipcon_set_auto_reconnect takes no mutex.                                 *)
SetAutoReconnect(t, b) ==
    /\ MayCall(t, IF b THEN "enableAuto" ELSE "disableAuto")
    /\ auto_reconnect' = b
    /\ auto_reconnect_allowed' = (auto_reconnect_allowed /\ b)
    /\ UNCHANGED <<socket_mutex, net, auto_reconnect_pending, context, queue, call, worker, probe, packets, failures, fate>>

Enter(t, F) == pc[t] = "enter" /\ op[t] \in F /\ socket_mutex = Null

ReturnLocked(t) ==                                             \* mutant: early return without unlock
    /\ (Enter(t, {"connect"}) /\ socket # Null) \/ (Enter(t, {"send"}) /\ socket = Null)
    /\ socket_mutex' = t /\ Leave(t, Base(t))
    /\ UNCHANGED <<net, auto, context, queue, target, worker, probe, bound, fate>>

(* E_ALREADY_CONNECTED and E_NOT_CONNECTED.                                 *)
ReturnAtOnce(t) ==
    /\ \/ Enter(t, {"connect"}) /\ socket # Null
       \/ Enter(t, {"send"}) /\ socket = Null
    /\ Leave(t, Base(t))
    /\ UNCHANGED <<socket_mutex, net, auto, context, queue, target, worker, probe, bound, fate>>

-----------------------------------------------------------------------------
(* ipcon_connect and ipcon_connect_unlocked.                                *)

BeginConnect(t) ==
    /\ Enter(t, {"connect"}) /\ socket = Null
    /\ socket_mutex' = t
    /\ Goto(t, "context")
    /\ UNCHANGED <<net, auto, context, queue, op, target, worker, probe, bound, fate>>

(* Create callback queue and thread, unless there already are.              *)
CreateContext(t) ==
    /\ pc[t] = "context"
    /\ IF callback # Null
       THEN Goto(t, "attempt") /\ UNCHANGED <<callback, contexts>>
       ELSE /\ contexts < MaxContexts
            /\ contexts' = contexts + 1 /\ callback' = contexts + 1
            /\ pc' = [pc EXCEPT ![t] = "attempt", ![contexts + 1] = "loop"]
    /\ UNCHANGED <<socket_mutex, net, auto, packet_dispatch_allowed, item, queue, op, target, worker, probe, bound, fate>>

(* thread_create fails for the callback thread; at MaxContexts it always does.*)
CreateContextFails(t) ==
    /\ pc[t] = "context" /\ callback = Null
    /\ \/ failures < MaxThreadFailures /\ failures' = failures + 1
       \/ contexts = MaxContexts /\ UNCHANGED failures
    /\ socket_mutex' = Null
    /\ Leave(t, IF op[t] = "reconnect" THEN "retry" ELSE Base(t))
    /\ UNCHANGED <<net, auto, context, queue, target, worker, probe, calls, packets, fate>>

(* getaddrinfo, socket_create or socket_connect fails.                      *)
ConnectFails(t) ==
    /\ pc[t] = "attempt"
    /\ ConnectFailed(t)
    /\ UNCHANGED <<net, auto, worker, probe, bound, fate>>

(* The socket is connected and the disconnect probe thread created.         *)
ConnectOk(t) ==
    /\ pc[t] = "attempt" /\ socket_id < MaxSockets
    /\ socket' = socket_id + 1 /\ socket_id' = socket_id + 1
    /\ conn' = [conn EXCEPT ![socket_id + 1] = "open"]
    /\ disconnect_probe_flag' = TRUE /\ disconnect_probe_event' = FALSE
    /\ wpc' = [wpc EXCEPT ![<<"probe", socket_id + 1>>] = "wait"]
    /\ Goto(t, "receiver")
    /\ UNCHANGED <<socket_mutex, lost, auto, context, queue, op, target, rid, rsock, into, receive_flag, bound, fate>>

(* thread_create fails for the probe thread: the callback thread is ended   *)
(* first and the socket destroyed after it.                                 *)
ProbeThreadFails(t) ==
    /\ pc[t] = "attempt" /\ socket_id < MaxSockets
    /\ failures < MaxThreadFailures /\ failures' = failures + 1
    /\ disconnect_probe_flag' = TRUE /\ disconnect_probe_event' = FALSE
    /\ ConnectFailed(t)
    /\ socket_id' = socket_id + 1
    /\ LET joins == op[t] = "connect" /\ callback # t
       IN /\ socket' = IF joins THEN socket_id + 1 ELSE Null
          /\ conn' = [conn EXCEPT ![socket_id + 1] = IF joins THEN "open" ELSE "closed"]
    /\ UNCHANGED <<lost, auto, worker, calls, packets, fate>>

StartReceiver(t) ==
    /\ pc[t] = "receiver"
    /\ receive_flag' = TRUE
    /\ packet_dispatch_allowed' = [packet_dispatch_allowed EXCEPT ![callback] = TRUE]
    /\ wpc' = [wpc EXCEPT ![<<"receive", socket>>] = "start"]
    /\ Goto(t, "flags")
    /\ UNCHANGED <<socket_mutex, net, auto, callback, contexts, item, queue, op, target, rid, rsock, into, probe, bound, fate>>

(* thread_create fails for the receive thread: ipcon_disconnect_unlocked.   *)
ReceiveThreadFails(t) ==
    /\ pc[t] = "receiver"
    /\ failures < MaxThreadFailures /\ failures' = failures + 1
    /\ receive_flag' = FALSE
    /\ packet_dispatch_allowed' = [packet_dispatch_allowed EXCEPT ![callback] = TRUE]
    /\ StopProbe(t)
    /\ UNCHANGED <<socket_mutex, net, auto, callback, contexts, item, queue, op, target, wpc, rid, rsock, into,
                   disconnect_probe_flag, calls, packets, fate>>

StoreFlagsStillPending(t) ==                                   \* mutant: pending not reset
    /\ pc[t] = "flags" /\ auto_reconnect_allowed' = FALSE /\ Goto(t, "announce")
    /\ UNCHANGED <<socket_mutex, net, auto_reconnect, auto_reconnect_pending, context, queue, op, target,
                   worker, probe, bound, fate>>

StoreFlags(t) ==
    /\ pc[t] = "flags"
    /\ auto_reconnect_allowed' = FALSE /\ auto_reconnect_pending' = FALSE
    /\ Goto(t, "announce")
    /\ UNCHANGED <<socket_mutex, net, auto_reconnect, context, queue, op, target, worker, probe, bound, fate>>

(* Queue the CONNECTED meta item and unlock.                                *)
Announce(t) ==
    /\ pc[t] = "announce"
    /\ Put(callback, Item("connected"))
    /\ socket_mutex' = Null
    /\ Leave(t, IF op[t] = "reconnect" THEN "loop" ELSE Base(t))
    /\ UNCHANGED <<net, auto, context, target, worker, probe, bound, fate>>

-----------------------------------------------------------------------------
(* ipcon_disconnect, ipcon_destroy and ipcon_disconnect_unlocked.           *)

Disconnects == {"disconnect", "destroy"}

(* No pending auto-reconnect and no socket: E_NOT_CONNECTED.  ipcon_destroy *)
(* ignores the result and frees the IPConnection.                           *)
NotConnected(t) ==
    /\ Enter(t, Disconnects) /\ ~auto_reconnect_pending /\ socket = Null
    /\ auto_reconnect_allowed' = FALSE
    /\ destroyed' = (op[t] = "destroy")
    /\ Leave(t, Base(t))
    /\ UNCHANGED <<socket_mutex, net, auto_reconnect, auto_reconnect_pending, context, queue, target, worker, probe, bound, crashed>>

(* A pending auto-reconnect is aborted; the socket is not looked at.        *)
AbortPending(t) ==
    /\ Enter(t, Disconnects) /\ auto_reconnect_pending
    /\ auto_reconnect_allowed' = FALSE /\ auto_reconnect_pending' = FALSE
    /\ TakeContext(t)
    /\ UNCHANGED <<socket_mutex, net, auto_reconnect, worker, probe, bound, fate>>

BeginDisconnect(t) ==
    /\ Enter(t, Disconnects) /\ ~auto_reconnect_pending /\ socket # Null
    /\ auto_reconnect_allowed' = FALSE
    /\ socket_mutex' = t
    /\ StopProbe(t)
    /\ UNCHANGED <<net, auto_reconnect, auto_reconnect_pending, context, queue, op, target, worker,
                   disconnect_probe_flag, bound, fate>>

(* The probe thread has ended.  ipcon_dispatch_meta goes straight on to     *)
(* destroy the socket; ipcon_disconnect_unlocked stops the dispatch of      *)
(* packets and, if receive_flag is set, the receive thread.                 *)
JoinProbe(t) ==
    /\ pc[t] = "joinProbe" /\ socket # Null /\ WorkerEnded(<<"probe", socket>>)
    /\ op[t] # "meta" => callback # Null
    /\ packet_dispatch_allowed' = [c \in Contexts |->
           packet_dispatch_allowed[c] /\ (op[t] = "meta" \/ c # callback)]
    /\ IF op[t] # "meta" /\ receive_flag
       THEN /\ receive_flag' = FALSE
            /\ conn' = [conn EXCEPT ![socket] = "shut"]
            /\ Goto(t, "joinReceive")
       ELSE Goto(t, "close") /\ UNCHANGED <<receive_flag, conn>>
    /\ UNCHANGED <<socket_mutex, socket, socket_id, lost, auto, callback, contexts, item, queue,
                   op, target, wpc, rid, rsock, into, probe, bound, fate>>

JoinReceiveNoWait(t) ==                                        \* mutant: no thread_join
    /\ pc[t] = "joinReceive" /\ Goto(t, "close")
    /\ UNCHANGED <<socket_mutex, net, auto, context, queue, op, target, worker, probe, bound, fate>>

JoinReceive(t) ==
    /\ pc[t] = "joinReceive" /\ WorkerEnded(<<"receive", socket>>)
    /\ Goto(t, "close")
    /\ UNCHANGED <<socket_mutex, net, auto, context, queue, op, target, worker, probe, bound, fate>>

(* The socket is destroyed.  ipcon_disconnect takes the callback context;   *)
(* ipcon_send_request queues a DISCONNECTED meta item with socket_id 0; a   *)
(* connect whose receive thread could not be created fails.                 *)
Close(t) ==
    /\ pc[t] = "close"
    /\ DestroySocket
    /\ \/ op[t] \in Disconnects /\ socket_mutex' = Null /\ TakeContext(t)
       \/ /\ op[t] = "send" /\ callback # Null
          /\ Put(callback, Lost(0))
          /\ socket_mutex' = Null
          /\ Leave(t, Base(t))
          /\ UNCHANGED <<context, target>>
       \/ /\ op[t] = "meta"
          /\ socket_mutex' = Null
          /\ Leave(t, Base(t))
          /\ UNCHANGED <<context, queue, target>>
       \/ op[t] \in {"connect", "reconnect"} /\ ConnectFailed(t)
    /\ UNCHANGED <<auto, worker, probe, bound, fate>>

(* Outside of the socket_mutex: queue the DISCONNECTED meta item of a       *)
(* requested disconnect and end the callback thread.                        *)
HandOver(t) ==
    /\ pc[t] = "handOver" /\ target[t] # Null
    /\ queue' = [queue EXCEPT ![target[t]] = @ \o
           <<Item("request"), Item(IF target[t] = t THEN "destroyAndExit" ELSE "exit")>>]
    /\ IF target[t] = t THEN Leave(t, Base(t)) ELSE Goto(t, "joinCallback") /\ UNCHANGED op
    /\ UNCHANGED <<socket_mutex, net, auto, context, target, worker, probe, bound, fate>>

CallbackNotJoined(t) == TRUE                                    \* mutant: no thread_join
CallbackEnded(t) == pc[target[t]] = "exited"

(* The callback thread has ended and its context is freed.  A failed        *)
(* ipcon_connect has held the socket_mutex all along, and now destroys the  *)
(* socket whose probe thread could not be created.                          *)
JoinCallback(t) ==
    /\ pc[t] = "joinCallback" /\ CallbackEnded(t)
    /\ IF op[t] = "connect"
       THEN /\ callback' = Null /\ socket_mutex' = Null
            /\ IF socket # Null THEN DestroySocket ELSE UNCHANGED net
       ELSE UNCHANGED <<callback, socket_mutex, net>>
    /\ destroyed' = (op[t] = "destroy")
    /\ Leave(t, Base(t))
    /\ UNCHANGED <<auto, contexts, packet_dispatch_allowed, item, queue, target, worker, probe, bound, crashed>>

-----------------------------------------------------------------------------
(* ipcon_send_request.                                                      *)

SendOk(t) ==
    /\ Enter(t, {"send"}) /\ socket # Null
    /\ disconnect_probe_flag' = FALSE
    /\ Leave(t, Base(t))
    /\ UNCHANGED <<socket_mutex, net, auto, context, queue, target, worker, disconnect_probe_event, bound, fate>>

(* The peer is gone: ipcon_handle_disconnect_by_peer, immediately.          *)
SendFails(t) ==
    /\ Enter(t, {"send"}) /\ socket \in lost
    /\ auto_reconnect_allowed' = TRUE
    /\ socket_mutex' = t
    /\ StopProbe(t)
    /\ UNCHANGED <<net, auto_reconnect, auto_reconnect_pending, context, queue, op, target, worker,
                   disconnect_probe_flag, bound, fate>>

-----------------------------------------------------------------------------
(* The callback thread: ipcon_callback_loop and ipcon_dispatch_meta.        *)

(* The next item decides where the thread goes: an exit item ends it, a     *)
(* packet is dropped when the receive thread is not running, a lost         *)
(* connection is looked at under the socket_mutex first, and everything     *)
(* else runs the application callback.                                      *)
AfterPop(c, i) ==
    CASE i.kind \in {"exit", "destroyAndExit"} -> "exited"
      [] i.kind = "packet" /\ ~packet_dispatch_allowed[c] -> "loop"
      [] i.kind = "lost" -> "lost"
      [] OTHER -> "callback"

Pop(c) ==
    /\ pc[c] = "loop" /\ queue[c] # <<>>
    /\ queue' = [queue EXCEPT ![c] = Tail(@)]
    /\ item' = [item EXCEPT ![c] = Head(queue[c])]
    /\ Goto(c, AfterPop(c, Head(queue[c])))
    /\ UNCHANGED <<socket_mutex, net, auto, callback, contexts, packet_dispatch_allowed, op, target, worker, probe, bound, fate>>

AnyCurrent(c) == socket # Null                                  \* mutant: socket_id not compared
StillCurrent(c) == socket # Null /\ socket_id = item[c].sid

(* The lost connection is still the current one: close it.                  *)
TeardownLost(c) ==
    /\ pc[c] = "lost" /\ socket_mutex = Null /\ StillCurrent(c)
    /\ socket_mutex' = c
    /\ op' = [op EXCEPT ![c] = "meta"]
    /\ StopProbe(c)
    /\ UNCHANGED <<net, auto, context, queue, target, worker, disconnect_probe_flag, bound, fate>>

(* It was disconnected or reconnected in the meantime.                      *)
SkipLost(c) ==
    /\ pc[c] = "lost" /\ socket_mutex = Null /\ ~StillCurrent(c)
    /\ Goto(c, "callback")
    /\ UNCHANGED <<socket_mutex, net, auto, context, queue, op, target, worker, probe, bound, fate>>

(* After the callback of a lost connection, auto_reconnect and              *)
(* auto_reconnect_allowed are read without the mutex,                       *)
CallbackReturns(c) ==
    /\ pc[c] = "callback"
    /\ Goto(c, IF item[c].kind = "lost" /\ auto_reconnect /\ auto_reconnect_allowed
               THEN "setPending" ELSE "loop")
    /\ UNCHANGED <<socket_mutex, net, auto, context, queue, op, target, worker, probe, bound, fate>>

(* and auto_reconnect_pending is written without it.                        *)
SetPending(c) ==
    /\ pc[c] = "setPending"
    /\ auto_reconnect_pending' = TRUE
    /\ Goto(c, "retry")
    /\ UNCHANGED <<socket_mutex, net, auto_reconnect, auto_reconnect_allowed, context, queue, op, target, worker, probe, bound, fate>>

(* One round of the reconnect loop: another attempt, or the end of it.      *)
Retry(c) ==
    /\ pc[c] = "retry" /\ socket_mutex = Null /\ auto_reconnect_allowed /\ socket = Null
    /\ socket_mutex' = c
    /\ Goto(c, "context")
    /\ op' = [op EXCEPT ![c] = "reconnect"]
    /\ UNCHANGED <<net, auto, context, queue, target, worker, probe, bound, fate>>

GiveUpConnected(c) ==                                          \* mutant: an abort does not end the loop
    /\ pc[c] = "retry" /\ socket_mutex = Null /\ socket # Null
    /\ auto_reconnect_pending' = FALSE /\ Goto(c, "loop")
    /\ UNCHANGED <<socket_mutex, net, auto_reconnect, auto_reconnect_allowed, context, queue, op, target, worker, probe, bound, fate>>

GiveUp(c) ==
    /\ pc[c] = "retry" /\ socket_mutex = Null /\ ~(auto_reconnect_allowed /\ socket = Null)
    /\ auto_reconnect_pending' = FALSE
    /\ Goto(c, "loop")
    /\ UNCHANGED <<socket_mutex, net, auto_reconnect, auto_reconnect_allowed, context, queue, op, target, worker, probe, bound, fate>>

-----------------------------------------------------------------------------
(* The receive thread of a socket: ipcon_receive_loop.                      *)

WorkerGoto(w, where) == wpc' = [wpc EXCEPT ![w] = where]

ReceiverStart(r) ==
    /\ wpc[<<"receive", r>>] = "start"
    /\ rid' = [rid EXCEPT ![r] = socket_id]
    /\ WorkerGoto(<<"receive", r>>, "loop")
    /\ UNCHANGED <<socket_mutex, net, auto, context, queue, call, rsock, into, receive_flag, probe, bound, fate>>

(* ipcon_p->socket is read on every round, without the socket_mutex.        *)
Receive(r) ==
    /\ wpc[<<"receive", r>>] = "loop" /\ receive_flag /\ socket # Null
    /\ rsock' = [rsock EXCEPT ![r] = socket]
    /\ WorkerGoto(<<"receive", r>>, "receiving")
    /\ UNCHANGED <<socket_mutex, net, auto, context, queue, call, rid, into, receive_flag, probe, bound, fate>>

Receivable(r) == conn[rsock[r]] = "open" /\ rsock[r] \notin lost

(* receive_flag is tested before and after socket_receive.                  *)
ReceiverStops(r) ==
    /\ ~receive_flag
    /\ \/ wpc[<<"receive", r>>] = "loop"
       \/ wpc[<<"receive", r>>] = "receiving" /\ ~Receivable(r)
    /\ WorkerGoto(<<"receive", r>>, "done")
    /\ UNCHANGED <<socket_mutex, net, auto, context, queue, call, rid, rsock, into, receive_flag, probe, bound, fate>>

(* queue_put(&ipcon_p->callback->queue, ...) of a worker, without the       *)
(* socket_mutex: ipcon_p->callback is read first, and put into later. The   *)
(* context is freed by the thread that has joined the callback thread, or   *)
(* by the callback thread itself; what is put into it before is lost.       *)
FindQueue(w) ==
    /\ callback # Null
    /\ into' = [into EXCEPT ![w] = callback]
Freed(c) == pc[c] = "exited" /\ \A t \in Callers : pc[t] = "joinCallback" => target[t] # c
PutFound(w, i) ==
    /\ ~Freed(into[w])
    /\ Put(into[w], i)
    /\ into' = [into EXCEPT ![w] = Null]

(* A packet arrived: a callback packet of a known device is to be queued.   *)
ReceivePacket(r) ==
    /\ wpc[<<"receive", r>>] = "receiving" /\ receive_flag /\ Receivable(r)
    /\ packets < MaxPackets /\ packets' = packets + 1
    /\ disconnect_probe_flag' = FALSE
    /\ FindQueue(<<"receive", r>>)
    /\ WorkerGoto(<<"receive", r>>, "packet")
    /\ UNCHANGED <<socket_mutex, net, auto, context, queue, call, rid, rsock, receive_flag,
                   disconnect_probe_event, calls, failures, fate>>

QueuePacket(r) ==
    /\ wpc[<<"receive", r>>] = "packet"
    /\ PutFound(<<"receive", r>>, Item("packet"))
    /\ WorkerGoto(<<"receive", r>>, "loop")
    /\ UNCHANGED <<socket_mutex, net, auto, context, call, rid, rsock, receive_flag, probe, bound, fate>>

(* socket_receive returns nothing or an error.                              *)
ReceiveFails(r) ==
    /\ wpc[<<"receive", r>>] = "receiving" /\ receive_flag /\ ~Receivable(r)
    /\ WorkerGoto(<<"receive", r>>, "gone")
    /\ UNCHANGED <<socket_mutex, net, auto, context, queue, call, rid, rsock, into, receive_flag, probe, bound, fate>>

-----------------------------------------------------------------------------
(* The disconnect probe thread of a socket: ipcon_disconnect_probe_loop.    *)

ProbeStops(s) ==
    /\ wpc[<<"probe", s>>] = "wait" /\ disconnect_probe_event
    /\ WorkerGoto(<<"probe", s>>, "done")
    /\ UNCHANGED <<socket_mutex, net, auto, context, queue, call, rid, rsock, into, receive_flag, probe, bound, fate>>

(* The probe interval has passed: a probe is due if nothing was sent or     *)
(* received during it.                                                      *)
ProbeTick(s) ==
    /\ wpc[<<"probe", s>>] = "wait" /\ ~disconnect_probe_event
    /\ disconnect_probe_flag' = TRUE
    /\ WorkerGoto(<<"probe", s>>, IF disconnect_probe_flag THEN "send" ELSE "wait")
    /\ UNCHANGED <<socket_mutex, net, auto, context, queue, call, rid, rsock, into, receive_flag,
                   disconnect_probe_event, bound, fate>>

SendProbe(s) ==
    /\ wpc[<<"probe", s>>] = "send" /\ socket # Null
    /\ \/ WorkerGoto(<<"probe", s>>, "wait")
       \/ ProbeErrors /\ socket \in lost /\ WorkerGoto(<<"probe", s>>, "gone")
    /\ UNCHANGED <<socket_mutex, net, auto, context, queue, call, rid, rsock, into, receive_flag, probe, bound, fate>>

-----------------------------------------------------------------------------
(* ipcon_handle_disconnect_by_peer in either worker: auto_reconnect_allowed *)
(* is stored, then the lost connection is queued as the last thing it does. *)

AllowNothing(w) ==                                             \* mutant: allowed not stored
    /\ wpc[w] = "gone" /\ WorkerGoto(w, "report")
    /\ UNCHANGED <<socket_mutex, net, auto, context, queue, call, rid, rsock, into, receive_flag, probe, bound, fate>>

AllowReconnect(w) ==
    /\ wpc[w] = "gone"
    /\ auto_reconnect_allowed' = TRUE
    /\ WorkerGoto(w, "report")
    /\ UNCHANGED <<socket_mutex, net, auto_reconnect, auto_reconnect_pending, context, queue, call,
                   rid, rsock, into, receive_flag, probe, bound, fate>>

FindReportQueue(w) ==
    /\ wpc[w] = "report"
    /\ FindQueue(w)
    /\ WorkerGoto(w, "put")
    /\ UNCHANGED <<socket_mutex, net, auto, context, queue, call, rid, rsock, receive_flag, probe, bound, fate>>

ReportLost(w) ==
    /\ wpc[w] = "put"
    /\ PutFound(w, Lost(IF w[1] = "receive" THEN rid[w[2]] ELSE socket_id))
    /\ WorkerGoto(w, "reported")
    /\ UNCHANGED <<socket_mutex, net, auto, context, call, rid, rsock, receive_flag, probe, bound, fate>>

-----------------------------------------------------------------------------
(* The peer of an open connection goes away.                                *)
LoseConnection(s) ==
    /\ conn[s] = "open" /\ s \notin lost
    /\ Cardinality(lost) < MaxLosses
    /\ lost' = lost \cup {s}
    /\ UNCHANGED <<socket_mutex, socket, socket_id, conn, auto, context, queue, call, worker, probe, bound, fate>>

(* A thread dereferences socket, callback, or the copy of callback that     *)
(* ipcon_disconnect took, and it is NULL; or a worker puts into the queue   *)
(* of a callback context that was freed.                                    *)
CallerUsesNull(t) ==
    \/ pc[t] = "joinProbe" /\ socket # Null /\ WorkerEnded(<<"probe", socket>>)
       /\ op[t] # "meta" /\ callback = Null
    \/ pc[t] = "close" /\ op[t] = "send" /\ callback = Null
    \/ pc[t] = "handOver" /\ target[t] = Null

WorkerUsesNull(w) ==
    \/ w[1] = "receive" /\ wpc[w] = "loop" /\ receive_flag /\ socket = Null
    \/ w[1] = "receive" /\ wpc[w] = "receiving" /\ receive_flag /\ callback = Null
       /\ Receivable(w[2]) /\ packets < MaxPackets
    \/ wpc[w] = "send" /\ socket = Null
    \/ wpc[w] = "report" /\ callback = Null

Puts(w) == wpc[w] \in {"packet", "put"}
WorkerUsesFreed(w) == Puts(w) /\ Freed(into[w])

Crash ==
    /\ \/ \E t \in Callers : CallerUsesNull(t)
       \/ \E w \in Workers : WorkerUsesNull(w) \/ WorkerUsesFreed(w)
    /\ crashed' = TRUE
    /\ UNCHANGED <<socket_mutex, net, auto, context, queue, call, worker, probe, bound, destroyed>>

-----------------------------------------------------------------------------
(* What a thread inside a function does by itself: steps that take the      *)
(* socket_mutex, and steps that need no mutex or hold it.                   *)
TakeMutex(t) ==
    \/ ReturnAtOnce(t) \/ BeginConnect(t) \/ NotConnected(t) \/ AbortPending(t)
    \/ BeginDisconnect(t) \/ SendOk(t) \/ SendFails(t)
Advance(t) ==
    \/ CreateContext(t) \/ CreateContextFails(t) \/ ConnectFails(t) \/ ConnectOk(t)
    \/ ProbeThreadFails(t) \/ StartReceiver(t) \/ ReceiveThreadFails(t) \/ StoreFlags(t)
    \/ Announce(t) \/ JoinProbe(t) \/ JoinReceive(t) \/ Close(t) \/ HandOver(t) \/ JoinCallback(t)
TakeMutexInLoop(c) == TeardownLost(c) \/ SkipLost(c) \/ Retry(c) \/ GiveUp(c)
AdvanceLoop(c) == Pop(c) \/ CallbackReturns(c) \/ SetPending(c)
ReportStep(w) == AllowReconnect(w) \/ FindReportQueue(w) \/ ReportLost(w)
ReceiverStep(r) ==
    \/ ReceiverStart(r) \/ Receive(r) \/ ReceiverStops(r) \/ ReceiveFails(r) \/ QueuePacket(r)
    \/ ReportStep(<<"receive", r>>)
ProbeStep(s) ==
    \/ ProbeStops(s) \/ ProbeTick(s) \/ SendProbe(s) \/ ReportStep(<<"probe", s>>)

(* What happens after a crash, or after ipcon_destroy has freed the         *)
(* IPConnection, is undefined: the model ends there.                        *)
Ended == destroyed \/ crashed

CallerNext(t) ==
    \/ \E f \in Functions : Call(t, f)
    \/ \E b \in BOOLEAN : SetAutoReconnect(t, b)
    \/ TakeMutex(t) \/ Advance(t)

Next ==
    /\ ~Ended
    /\ \/ \E t \in Callers : CallerNext(t)
       \/ \E c \in Contexts : TakeMutexInLoop(c) \/ AdvanceLoop(c)
       \/ \E s \in Sockets :
             ReceiverStep(s) \/ ReceivePacket(s) \/ ProbeStep(s) \/ LoseConnection(s)
       \/ Crash

(* Threads are scheduled and application callbacks return.  Taking the      *)
(* socket_mutex is strongly fair: the only contender that never tires, the  *)
(* reconnect loop, sleeps 100 ms between its rounds to let others in.       *)
Fairness ==
    /\ \A u \in Users : SF_vars(~Ended /\ TakeMutex(u)) /\ WF_vars(~Ended /\ Advance(u))
    /\ \A c \in Contexts :
          /\ SF_vars(~Ended /\ (TakeMutex(c) \/ TakeMutexInLoop(c)))
          /\ WF_vars(~Ended /\ (Advance(c) \/ AdvanceLoop(c)))
    /\ \A s \in Sockets : WF_vars(~Ended /\ ReceiverStep(s)) /\ WF_vars(~Ended /\ ProbeStep(s))

(* The Brick Daemon is reachable often enough: of infinitely many connect   *)
(* attempts one succeeds.                                                   *)
DaemonReachable == \A c \in Contexts : SF_vars(~Ended /\ ConnectOk(c))

Spec == Init /\ [][Next]_vars
FairSpec == Spec /\ Fairness
ReachableSpec == FairSpec /\ DaemonReachable

-----------------------------------------------------------------------------
CallerStates ==
    {"idle", "none", "loop", "callback", "lost", "setPending", "retry", "exited", "enter",
     "context", "attempt", "receiver", "flags", "announce", "joinProbe", "joinReceive",
     "close", "handOver", "joinCallback"}
Ops == Functions \cup {"none", "meta", "reconnect"}
WorkerStates == {"none", "start", "loop", "receiving", "packet", "wait", "send", "gone",
                 "report", "put", "reported", "done"}

TypeNet ==
    /\ socket_mutex \in Callers \cup {Null}
    /\ socket \in Sockets \cup {Null} /\ socket_id \in 0 .. MaxSockets
    /\ conn \in [Sockets -> {"unused", "open", "shut", "closed"}] /\ lost \subseteq Sockets
TypeAuto ==
    /\ auto_reconnect \in BOOLEAN /\ auto_reconnect_allowed \in BOOLEAN
    /\ auto_reconnect_pending \in BOOLEAN
TypeContext ==
    /\ callback \in Contexts \cup {Null} /\ contexts \in 0 .. MaxContexts
    /\ packet_dispatch_allowed \in [Contexts -> BOOLEAN]
    /\ item \in [Contexts -> Items] /\ queue \in [Contexts -> Seq(Items)]
TypeCall ==
    /\ pc \in [Callers -> CallerStates] /\ op \in [Callers -> Ops]
    /\ target \in [Callers -> Contexts \cup {Null}]
TypeWorker ==
    /\ wpc \in [Workers -> WorkerStates]
    /\ rid \in [Sockets -> 0 .. MaxSockets] /\ rsock \in [Sockets -> Sockets \cup {Null}]
    /\ into \in [Workers -> Contexts \cup {Null}] /\ receive_flag \in BOOLEAN
    /\ disconnect_probe_flag \in BOOLEAN /\ disconnect_probe_event \in BOOLEAN
TypeBound ==
    /\ calls \in Nat /\ packets \in Nat /\ failures \in Nat
    /\ destroyed \in BOOLEAN /\ crashed \in BOOLEAN

TypeOK == TypeNet /\ TypeAuto /\ TypeContext /\ TypeCall /\ TypeWorker /\ TypeBound
=============================================================================
