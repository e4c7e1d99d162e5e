------------------------------ MODULE Callbacks ------------------------------
(***************************************************************************)
(* How an application gets its callbacks                                   *)
(* (libtinkerforge/bindings/ip_connection.c and bricklet_*.c).             *)
(*                                                                         *)
(* A function and its user data are registered by two plain stores, for    *)
(* the enumeration or for a callback of a device.  The receive thread      *)
(* queues a packet if there is a function for it; the callback thread      *)
(* dispatches it later, when the function may be another one or none, and  *)
(* loads the two again.  No mutex protects them.                           *)
(*                                                                         *)
(* The module has the steps of the callback thread and of whoever          *)
(* registers; ReceivePath composes them with the receive thread and with   *)
(* ipcon_disconnect.                                                       *)
(***************************************************************************)
EXTENDS Integers, Sequences

CONSTANTS
    SlotOf,             \* the packets of the stream: "enumerate" or "device"
    Raw,                \* per packet: the bytes of its value, as a number
    Width,              \* how many values two bytes can have: 2^16 in the code
    Bricklets, Ids,     \* bound: the bricklets and callbacks that are looked at
    MaxRegistrations    \* bound: how often something is registered

ASSUME CallbacksAssumption ==
    /\ DOMAIN SlotOf = DOMAIN Raw
    /\ \A i \in DOMAIN SlotOf : SlotOf[i] \in {"enumerate", "device"} /\ Raw[i] \in 0 .. Width - 1
    /\ Width \in Nat /\ Width % 2 = 0
    /\ MaxRegistrations \in Nat

Slots == {"enumerate", "device"}
NULL == 0
Nobody == [slot |-> "none", by |-> "none"]
Item(kind, i) == [kind |-> kind, packet |-> i]

(* The callbacks of each bricklet, and the type its wrapper passes on.       *)
TemperatureWrappers == [temperature |-> "int16", temperature_reached |-> "int16"]
HumidityWrappers == [humidity |-> "uint16", analog_value |-> "uint16",
                     humidity_reached |-> "uint16", analog_value_reached |-> "uint16"]
AmbientLightWrappers == [illuminance |-> "uint16", analog_value |-> "uint16",
                         illuminance_reached |-> "uint16", analog_value_reached |-> "uint16"]
DistanceIrWrappers == [distance |-> "uint16", analog_value |-> "uint16",
                       distance_reached |-> "uint16", analog_value_reached |-> "uint16"]
LcdWrappers == [button_pressed |-> "uint8", button_released |-> "uint8"]

BrickletWrappers == {TemperatureWrappers, HumidityWrappers, AmbientLightWrappers,
                     DistanceIrWrappers, LcdWrappers}
ASSUME BrickletsAssumption == Bricklets \subseteq BrickletWrappers
NoCallback == "get_identity"    \* a function ID for which there is no wrapper

VARIABLES
    callback_wrappers, id,      \* the wrappers of the device, the callback that is used
    known,                      \* the device is in the table
    registered_callbacks, registered_callback_user_data,
    registering,                \* a registration between its two stores
    registrations,              \* how many there were: the name of the next one
    queue,                      \* items: "packet" and its number, "connected", "lost",
                                \*   "request" (a requested disconnect) and "exit"
    packet_dispatch_allowed,
    callback_pc,                \* the callback thread
    packet, function, user_data,    \* what it has loaded
    overlapped,                 \* history: someone registered for this packet meanwhile
    calls,                      \* history: the calls of functions of the application
    told                        \* history: the meta items a function was called for

deviceVars == <<callback_wrappers, id, known>>
registerVars == <<registered_callbacks, registered_callback_user_data, registering, registrations>>
dispatchVars == <<callback_pc, packet, function, user_data, calls, told>>
callbacksVars == <<deviceVars, registerVars, queue, packet_dispatch_allowed, dispatchVars, overlapped>>

CallbacksInit ==
    /\ callback_wrappers \in Bricklets
    /\ id \in Ids \cap (DOMAIN callback_wrappers \cup {NoCallback}) /\ known = TRUE
    /\ registered_callbacks = [s \in Slots |-> NULL]
    /\ registered_callback_user_data = [s \in Slots |-> NULL]
    /\ registering = Nobody /\ registrations = 0
    /\ queue = <<>> /\ packet_dispatch_allowed = TRUE
    /\ callback_pc = "get" /\ packet = 0 /\ function = NULL /\ user_data = NULL
    /\ overlapped = FALSE /\ calls = <<>> /\ told = {}

-----------------------------------------------------------------------------
(* The callback thread is in a function of the application.                 *)
InFunction == callback_pc \in {"running", "meta"}

(* Registering: the function, or NULL to remove it, then its user data.     *)
Loading == callback_pc \in {"function", "user_data", "call"}
Overlaps(s) == overlapped' = (overlapped \/ (Loading /\ SlotOf[packet] = s))

StoreFunction(s, by, remove) ==
    /\ registering = Nobody /\ registrations < MaxRegistrations
    /\ by = "callback" => InFunction
    /\ registrations' = registrations + 1
    /\ registered_callbacks' =
         [registered_callbacks EXCEPT ![s] = IF remove THEN NULL ELSE registrations + 1]
    /\ registering' = [slot |-> s, by |-> by]
    /\ Overlaps(s)
    /\ UNCHANGED <<deviceVars, registered_callback_user_data, queue, packet_dispatch_allowed, dispatchVars>>

StoreUserDataOnce ==                   \* mutant: what was there first stays
    /\ registering # Nobody
    /\ registered_callback_user_data' =
         [registered_callback_user_data EXCEPT ![registering.slot] = IF @ = NULL THEN registrations ELSE @]
    /\ registering' = Nobody
    /\ Overlaps(registering.slot)
    /\ UNCHANGED <<deviceVars, registered_callbacks, registrations, queue, packet_dispatch_allowed, dispatchVars>>

StoreUserData ==
    /\ registering # Nobody
    /\ registered_callback_user_data' =
         [registered_callback_user_data EXCEPT ![registering.slot] = registrations]
    /\ registering' = Nobody
    /\ Overlaps(registering.slot)
    /\ UNCHANGED <<deviceVars, registered_callbacks, registrations, queue, packet_dispatch_allowed, dispatchVars>>

(* temperature_destroy and the like: the last owner gives the device up.    *)
DestroyDevice ==
    /\ known /\ known' = FALSE
    /\ UNCHANGED <<callback_wrappers, id, registerVars, queue, packet_dispatch_allowed, dispatchVars, overlapped>>

-----------------------------------------------------------------------------
(* The receive thread: is anybody interested in the packet?                 *)
WantedByDevice(i) == registered_callbacks[SlotOf[i]] # NULL /\ known    \* mutant

Wanted(i) == registered_callbacks[SlotOf[i]] # NULL /\ (SlotOf[i] = "device" => known)

HandleResponse(i) ==
    /\ queue' = IF Wanted(i) THEN Append(queue, Item("packet", i)) ELSE queue
    /\ UNCHANGED <<deviceVars, registerVars, packet_dispatch_allowed, dispatchVars, overlapped>>

-----------------------------------------------------------------------------
(* The callback thread takes an item.  Between the test of the flag and the *)
(* call everything may change.                                              *)
Take(kind) == /\ callback_pc = "get" /\ queue # <<>> /\ Head(queue).kind = kind
              /\ queue' = Tail(queue)

TakePacket ==
    /\ Take("packet") /\ packet' = Head(queue).packet
    /\ callback_pc' = IF packet_dispatch_allowed THEN "dispatch" ELSE "get"
    /\ UNCHANGED <<deviceVars, registerVars, packet_dispatch_allowed, function, user_data, calls, told, overlapped>>

(* A meta item: the connected or disconnected callback is called, if there  *)
(* is one.                                                                  *)
TakeMeta(kind) ==
    /\ Take(kind)
    /\ \/ callback_pc' = "meta" /\ told' = told \cup {kind}
       \/ UNCHANGED <<callback_pc, told>>
    /\ UNCHANGED <<deviceVars, registerVars, packet_dispatch_allowed, packet, function, user_data, calls, overlapped>>

TakeExit ==
    /\ Take("exit") /\ callback_pc' = "ended"
    /\ UNCHANGED <<deviceVars, registerVars, packet_dispatch_allowed, packet, function, user_data, calls, told, overlapped>>

(* ipcon_dispatch_packet tests the function for enumerations, and loads it  *)
(* again; for a device it looks for the device and the wrapper.             *)
HasWrapper == id \in DOMAIN callback_wrappers
Dispatchable == IF SlotOf[packet] = "enumerate" THEN registered_callbacks["enumerate"] # NULL
                ELSE known /\ HasWrapper
FirstLoad == IF SlotOf[packet] = "enumerate" THEN "function" ELSE "user_data"

Dispatch ==
    /\ callback_pc = "dispatch"
    /\ callback_pc' = IF Dispatchable THEN FirstLoad ELSE "get"
    /\ overlapped' = (registering.slot = SlotOf[packet])
    /\ UNCHANGED <<deviceVars, registerVars, queue, packet_dispatch_allowed, packet, function, user_data, calls, told>>

(* The wrappers load the user data first and test the function; for         *)
(* enumerations it is the other way round.                                  *)
LoadUnchecked ==                       \* mutant: a wrapper does not test the function
    /\ callback_pc = "function"
    /\ function' = registered_callbacks[SlotOf[packet]]
    /\ callback_pc' = IF SlotOf[packet] = "enumerate" THEN "user_data" ELSE "call"
    /\ UNCHANGED <<deviceVars, registerVars, queue, packet_dispatch_allowed, packet, user_data, calls, told, overlapped>>

LoadFunction ==
    /\ callback_pc = "function"
    /\ function' = registered_callbacks[SlotOf[packet]]
    /\ callback_pc' = IF SlotOf[packet] = "enumerate" THEN "user_data"
                      ELSE IF function' = NULL THEN "get" ELSE "call"
    /\ UNCHANGED <<deviceVars, registerVars, queue, packet_dispatch_allowed, packet, user_data, calls, told, overlapped>>

LoadUserData ==
    /\ callback_pc = "user_data"
    /\ user_data' = registered_callback_user_data[SlotOf[packet]]
    /\ callback_pc' = IF SlotOf[packet] = "enumerate" THEN "call" ELSE "function"
    /\ UNCHANGED <<deviceVars, registerVars, queue, packet_dispatch_allowed, packet, function, calls, told, overlapped>>

(* leconvert_*_from, and the type of the parameter.                         *)
Converted(type, raw) ==
    CASE type = "int16" -> IF raw < Width \div 2 THEN raw ELSE raw - Width
      [] type = "uint16" -> raw
      [] type = "uint8" -> raw

Argument == IF SlotOf[packet] = "enumerate" THEN Converted("uint16", Raw[packet])
            ELSE Converted(callback_wrappers[id], Raw[packet])

(* late: the receive thread was ended before.  Calling NULL ends the        *)
(* program; the model goes on, which only adds behaviours.                  *)
Call(late) ==
    /\ callback_pc = "call" /\ callback_pc' = "running"
    /\ calls' = Append(calls, [packet |-> packet, value |-> Argument, late |-> late])
    /\ UNCHANGED <<deviceVars, registerVars, queue, packet_dispatch_allowed, packet, function, user_data, told, overlapped>>

Return ==
    /\ InFunction /\ registering.by # "callback"
    /\ callback_pc' = "get" /\ function' = NULL /\ user_data' = NULL /\ overlapped' = FALSE
    /\ UNCHANGED <<deviceVars, registerVars, queue, packet_dispatch_allowed, packet, calls, told>>
=============================================================================
