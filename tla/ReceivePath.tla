----------------------------- MODULE ReceivePath -----------------------------
(***************************************************************************)
(* From the bytes of the socket to the functions of the application: the   *)
(* receive thread (Framing) and the callback thread (Callbacks) of one     *)
(* connection, threads that register callbacks, a loss of the connection,  *)
(* and ipcon_disconnect, called by a thread of the application or by a     *)
(* callback (libtinkerforge/bindings/ip_connection.c).                     *)
(***************************************************************************)
EXTENDS Framing, Callbacks

CONSTANTS
    Registrars      \* who registers callbacks: "user", "callback"

ASSUME ReceivePathAssumption ==
    DOMAIN SlotOf = 1 .. Packets /\ Registrars \subseteq {"user", "callback"}

VARIABLES
    connecting,     \* ipcon_connect holds the mutex: the CONNECTED item is not queued yet
    socket,         \* it is not NULL
    disconnecting,  \* how far ipcon_disconnect has got
    caller,         \* who has called it
    due             \* history: packets for which there was a function since they came

vars == <<framingVars, callbacksVars, connecting, socket, disconnecting, caller, due>>
disconnectVars == <<connecting, socket, disconnecting, caller, due>>

Init ==
    /\ FramingInit /\ CallbacksInit
    /\ connecting = TRUE /\ socket = TRUE /\ disconnecting = "no" /\ caller = "none" /\ due = {}

-----------------------------------------------------------------------------
(* The receive thread.                                                      *)
Arriving == Len(handled) + 1
HasFunction(i) == registered_callbacks[SlotOf[i]] # NULL
Handle ==
    /\ HandlePacket /\ Arriving \in 1 .. Packets
    /\ HandleResponse(Arriving)
    /\ due' = IF HasFunction(Arriving) /\ (known \/ SlotOf[Arriving] = "enumerate")
              THEN due \cup {Arriving} ELSE due
    /\ UNCHANGED <<connecting, socket, disconnecting, caller>>

ReportLoss ==
    /\ HandleEnd
    /\ queue' = Append(queue, Item("lost", 0))
    /\ UNCHANGED <<deviceVars, registerVars, packet_dispatch_allowed, dispatchVars, overlapped, disconnectVars>>

Splitting ==
    (Receive \/ ReceiveEnds \/ ReceiverLeaves \/ TestFlag \/ WaitForMore)
         /\ UNCHANGED <<callbacksVars, disconnectVars>>

Receiver == Handle \/ ReportLoss \/ Splitting

-----------------------------------------------------------------------------
(* The end of ipcon_connect: the receive thread and the callback thread run *)
(* already when the CONNECTED item is queued and the mutex given back.      *)
Announce ==
    /\ connecting /\ connecting' = FALSE
    /\ queue' = Append(queue, Item("connected", 0))
    /\ UNCHANGED <<framingVars, deviceVars, registerVars, packet_dispatch_allowed, dispatchVars, overlapped>>
    /\ UNCHANGED <<socket, disconnecting, caller, due>>

(* ipcon_disconnect.  The mutex is held until the receive thread has ended. *)
Holding == connecting \/ disconnecting \in {"disallow", "stop", "join"}
InCallback == InFunction /\ registering.by # "callback"

BeginDisconnect(by) ==
    /\ disconnecting = "no" /\ socket /\ ~connecting
    /\ by = "callback" => InCallback
    /\ disconnecting' = "disallow" /\ caller' = by
    /\ UNCHANGED <<framingVars, callbacksVars, connecting, socket, due>>

AllowStill ==                          \* mutant: packets go on to be dispatched
    /\ disconnecting = "disallow" /\ disconnecting' = "stop"
    /\ UNCHANGED <<framingVars, callbacksVars, connecting, socket, caller, due>>

Disallow ==
    /\ disconnecting = "disallow" /\ disconnecting' = "stop"
    /\ packet_dispatch_allowed' = FALSE
    /\ UNCHANGED <<framingVars, deviceVars, registerVars, queue, dispatchVars, overlapped, connecting, socket, caller, due>>

Stop ==
    /\ disconnecting = "stop" /\ disconnecting' = "join"
    /\ StopReceiving
    /\ UNCHANGED <<callbacksVars, connecting, socket, caller, due>>

JoinReceiverNoWait ==                  \* mutant: does not wait for the receive thread
    /\ disconnecting = "join" /\ disconnecting' = "request" /\ socket' = FALSE
    /\ UNCHANGED <<framingVars, callbacksVars, connecting, caller, due>>

JoinReceiver ==
    /\ disconnecting = "join" /\ receiver = "done"
    /\ disconnecting' = "request" /\ socket' = FALSE
    /\ UNCHANGED <<framingVars, callbacksVars, connecting, caller, due>>

(* The DISCONNECTED item of a requested disconnect, then the exit item.     *)
QueueLast(item) ==
    /\ queue' = Append(queue, item)
    /\ UNCHANGED <<framingVars, deviceVars, registerVars, packet_dispatch_allowed, dispatchVars, overlapped>>
    /\ UNCHANGED <<connecting, socket, caller, due>>

QueueRequest ==
    /\ disconnecting = "request" /\ disconnecting' = "exit"
    /\ QueueLast(Item("request", 0))

(* A callback cannot wait for its own thread: its context destroys itself.  *)
QueueExit ==
    /\ disconnecting = "exit"
    /\ disconnecting' = IF caller = "user" THEN "wait" ELSE "done"
    /\ QueueLast(Item("exit", 0))

JoinNothing ==                         \* mutant: does not wait for the callback thread
    /\ disconnecting = "wait"
    /\ disconnecting' = "done"
    /\ UNCHANGED <<framingVars, callbacksVars, connecting, socket, caller, due>>

JoinCallback ==
    /\ disconnecting = "wait" /\ callback_pc = "ended"
    /\ disconnecting' = "done"
    /\ UNCHANGED <<framingVars, callbacksVars, connecting, socket, caller, due>>

Disconnect == Disallow \/ Stop \/ JoinReceiver \/ QueueRequest \/ QueueExit \/ JoinCallback

-----------------------------------------------------------------------------
(* The callback thread.  A lost connection is closed under the mutex before *)
(* the disconnected callback is called.                                     *)
TakeLost ==
    /\ TakeMeta("lost") /\ ~Holding
    /\ socket' = FALSE
    /\ UNCHANGED framingVars
    /\ UNCHANGED <<connecting, disconnecting, caller, due>>

ReceiverEnded == disconnecting \in {"request", "exit", "wait", "done"}
CallbackReturns == Return /\ ~(caller = "callback" /\ disconnecting \notin {"no", "done"})

CallbackThread ==
    \/ TakeLost
    \/ /\ TakeMeta("connected") \/ TakeMeta("request") \/ TakePacket \/ TakeExit \/ Dispatch \/ LoadFunction \/ LoadUserData
          \/ Call(ReceiverEnded) \/ CallbackReturns
       /\ UNCHANGED <<framingVars, disconnectVars>>

-----------------------------------------------------------------------------
Register ==
    /\ \E s \in Slots, by \in Registrars, remove \in BOOLEAN : StoreFunction(s, by, remove)
    /\ ~(caller = "callback" /\ disconnecting \notin {"no", "done"} /\ registering'.by = "callback")
    /\ due' = {i \in due : registered_callbacks'[SlotOf[i]] # NULL}
    /\ UNCHANGED <<framingVars, connecting, socket, disconnecting, caller>>

RegisterEnds == StoreUserData /\ UNCHANGED <<framingVars, disconnectVars>>

Destroy ==
    /\ DestroyDevice
    /\ due' = {i \in due : SlotOf[i] # "device"}
    /\ UNCHANGED <<framingVars, connecting, socket, disconnecting, caller>>

Next ==
    \/ Announce \/ Receiver \/ CallbackThread \/ Disconnect
    \/ \E by \in {"user", "callback"} : BeginDisconnect(by)
    \/ Register \/ RegisterEnds \/ Destroy

Spec == Init /\ [][Next]_vars

(* The threads run and callbacks return.                                    *)
Fairness == WF_vars(Announce) /\ WF_vars(CallbackThread) /\ WF_vars(RegisterEnds) /\ WF_vars(Disconnect)

FairSpec == Spec /\ Fairness
-----------------------------------------------------------------------------
(* A function is called with the user data that were registered with it,    *)
(* unless a registration overlaps the call, and it gets the value that the  *)
(* bricklet has sent, in the type of its signature.  It is never NULL,      *)
(* although it may have been removed since the packet was queued.           *)
SignedCallbacks == {"temperature", "temperature_reached"}
Sent(i) == IF SlotOf[i] = "device" /\ id \in SignedCallbacks /\ 2 * Raw[i] >= Width
           THEN Raw[i] - Width ELSE Raw[i]

RightCall ==
    callback_pc = "running" =>
        /\ ~overlapped => function # NULL /\ user_data = function
        /\ calls[Len(calls)].value = Sent(packet)

(* The comment at 2009: packets are no longer dispatched when the receive   *)
(* thread is ended, because getters would time out.  The flag is read       *)
(* without a mutex, so that one packet can be under way.                    *)
AtMostOneLate == \A i, j \in DOMAIN calls : calls[i].late /\ calls[j].late => i = j

(* When ipcon_disconnect has returned no function is called for a packet    *)
(* any more, not even for one that was still in the queue.  To a thread no  *)
(* function at all is called any more; to a callback, which cannot wait for *)
(* its own thread, the connected and disconnected callbacks that are still  *)
(* queued.  The disconnected callback for the request is the last of all.   *)
QuietAfterDisconnect ==
    [][/\ disconnecting = "done" => calls' = calls /\ (caller = "user" => told' = told)
       /\ "request" \in told => calls' = calls /\ told' = told]_vars

(* Every packet for which there was a function when it came leads to a call,*)
(* unless the function, the device or the connection goes away.             *)
Called(i) == \E k \in DOMAIN calls : calls[k].packet = i
Delivered == \A i \in 1 .. Packets :
               i \in due ~> Called(i) \/ i \notin due \/ disconnecting # "no" \/ (SlotOf[i] = "device" /\ ~HasWrapper)

MCStart == <<0, 2, 5>>
MCLengthField == [i \in 0 .. 5 |-> CASE i = 2 -> 2 [] i = 4 -> 3 [] i = 0 -> 0 [] OTHER -> 1]
MCSlotOf == <<"enumerate", "device">>
MCRaw == <<1, 3>>
MCBricklets == {TemperatureWrappers}
=============================================================================
