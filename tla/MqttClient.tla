------------------------------ MODULE MqttClient ------------------------------
(***************************************************************************)
(* The client of the MQTT broker (sensorlogger/MqttClient.cpp).            *)
(*                                                                         *)
(* A thread of the client runs mosquitto_loop, which handles messages and  *)
(* keeps the connection alive, and reconnects when it fails.  Other        *)
(* threads publish, subscribe, unsubscribe and destroy the client          *)
(* meanwhile.  libmosquitto and the broker are external: a message of      *)
(* quality of service 0 is sent once if there is a connection, arrives in  *)
(* order if the connection lasts, and subscriptions end with it.           *)
(***************************************************************************)
EXTENDS Integers, SequencesExt, FiniteSetsExt

CONSTANTS
    Topics, Patterns,
    Matches,        \* which topics each pattern matches
    Values,         \* payloads
    MaxBreaks,      \* bound: how often the connection breaks
    MaxMessages,    \* bound: messages of other clients
    MaxSubscribes   \* bound: calls of subscribe and unsubscribe

ASSUME MqttAssumption ==
    /\ Matches \in [Patterns -> SUBSET Topics]
    /\ MaxBreaks \in Nat /\ MaxMessages \in Nat /\ MaxSubscribes \in Nat

VARIABLES
    m_running, m_messageCallbacks,
    loop_pc,        \* m_thread: "none", "test", "loop", "find", "found", "callback",
                    \* "reconnect", "ended"
    message, it,    \* the message it handles, the index that find_if returned
    entry,          \* the pattern whose callback it runs
    owner_pc,       \* the thread that owns the client
    wanted,         \* the pattern it subscribes to or unsubscribes from
    link,           \* the connection: "up", "broken" (not noticed yet) or "closed"
    breaks,
    wire,           \* messages on their way to the broker
    retained,       \* what the broker keeps: the value of the sensor's topic
    lost,           \* history: the last value published was lost
    subscriptions,  \* those the broker knows
    inbox,          \* messages on their way to the client, and how many there were
    messages, subscribes,
    expected,       \* history: messages that came when the client had a callback for them
    handled,        \* history: messages given to a callback
    raced           \* history: the callbacks were changed while the thread used them

handling == <<message, it, entry>>
clientVars == <<m_running, m_messageCallbacks, loop_pc, handling, owner_pc, wanted>>
linkVars == <<link, breaks, wire, retained, lost, subscriptions, inbox>>
countVars == <<messages, subscribes, expected, handled, raced>>
mqttVars == <<clientVars, linkVars, countVars>>

Nothing == -1           \* or the value of an earlier run of the program
NoPattern == "none"
NoMessage == [number |-> 0, topic |-> NoPattern]

(* The constructor: mosquitto_connect may have failed, its result is        *)
(* ignored.                                                                 *)
MqttInit ==
    /\ m_running = FALSE /\ m_messageCallbacks = <<>>
    /\ loop_pc = "none" /\ message = NoMessage /\ it = 0 /\ entry = NoPattern
    /\ owner_pc = "created" /\ wanted = NoPattern
    /\ link \in {"up", "closed"} /\ breaks = 0
    /\ wire = <<>> /\ retained = Nothing /\ lost = FALSE
    /\ subscriptions = {} /\ inbox = <<>>
    /\ messages = 0 /\ subscribes = 0 /\ expected = {} /\ handled = {} /\ raced = FALSE

-----------------------------------------------------------------------------
(* The broker and the network.                                              *)
Break ==
    /\ link = "up" /\ breaks < MaxBreaks
    /\ link' = "broken" /\ breaks' = breaks + 1
    /\ lost' = (lost \/ wire # <<>>)
    /\ wire' = <<>> /\ inbox' = <<>> /\ subscriptions' = {} /\ expected' = {}
    /\ UNCHANGED <<clientVars, retained, messages, subscribes, handled, raced>>

Arrive ==
    /\ wire # <<>>
    /\ retained' = Head(wire) /\ wire' = Tail(wire)
    /\ UNCHANGED <<clientVars, countVars, link, breaks, lost, subscriptions, inbox>>

Has(t) == \E i \in DOMAIN m_messageCallbacks : t \in Matches[m_messageCallbacks[i]]

Send(t) ==
    /\ link = "up" /\ messages < MaxMessages
    /\ \E p \in subscriptions : t \in Matches[p]
    /\ messages' = messages + 1
    /\ inbox' = Append(inbox, [number |-> messages + 1, topic |-> t])
    /\ expected' = IF Has(t) THEN expected \cup {messages + 1} ELSE expected
    /\ UNCHANGED <<clientVars, link, breaks, wire, retained, lost, subscriptions, subscribes, handled, raced>>

-----------------------------------------------------------------------------
(* publish, of the thread that runs the callbacks of sensors.               *)
Publish(v) ==
    /\ IF link = "up" THEN wire' = Append(wire, v) /\ lost' = FALSE
       ELSE lost' = TRUE /\ UNCHANGED wire
    /\ UNCHANGED <<clientVars, countVars, link, breaks, retained, subscriptions, inbox>>

-----------------------------------------------------------------------------
(* m_thread                                                                 *)
Test ==
    /\ loop_pc = "test"
    /\ loop_pc' = IF m_running THEN "loop" ELSE "ended"
    /\ UNCHANGED <<linkVars, countVars, m_running, m_messageCallbacks, handling, owner_pc, wanted>>

(* mosquitto_loop returns after a second at the latest.                     *)
LoopIdle ==
    /\ loop_pc = "loop" /\ link = "up" /\ loop_pc' = "test"
    /\ UNCHANGED <<linkVars, countVars, m_running, m_messageCallbacks, handling, owner_pc, wanted>>

LoopEnds ==                            \* mutant: the thread gives up
    /\ loop_pc = "loop" /\ link # "up"
    /\ link' = "closed" /\ loop_pc' = "ended"
    /\ UNCHANGED <<countVars, m_running, m_messageCallbacks, handling, owner_pc, wanted>>
    /\ UNCHANGED <<breaks, wire, retained, lost, subscriptions, inbox>>

LoopFails ==
    /\ loop_pc = "loop" /\ link # "up"
    /\ link' = "closed" /\ loop_pc' = "reconnect"
    /\ UNCHANGED <<countVars, m_running, m_messageCallbacks, handling, owner_pc, wanted>>
    /\ UNCHANGED <<breaks, wire, retained, lost, subscriptions, inbox>>

(* The result of mosquitto_reconnect is ignored.                            *)
Reconnects ==
    /\ loop_pc = "reconnect" /\ loop_pc' = "test" /\ link' = "up"
    /\ UNCHANGED <<countVars, m_running, m_messageCallbacks, handling, owner_pc, wanted>>
    /\ UNCHANGED <<breaks, wire, retained, lost, subscriptions, inbox>>

ReconnectFails ==
    /\ loop_pc = "reconnect" /\ loop_pc' = "test"
    /\ UNCHANGED <<linkVars, countVars, m_running, m_messageCallbacks, handling, owner_pc, wanted>>

(* onMessage: the first entry that matches is found, and then used, without *)
(* a mutex.  If another thread has changed the entries meanwhile, anything  *)
(* may come of either.                                                      *)
IsFor(i, t) == t \in Matches[m_messageCallbacks[i]]
FirstEntry(t) == CHOOSE i \in DOMAIN m_messageCallbacks :
                    IsFor(i, t) /\ \A j \in 1 .. i - 1 : ~IsFor(j, t)

OnMessage ==
    /\ loop_pc = "loop" /\ link = "up" /\ inbox # <<>>
    /\ loop_pc' = "find" /\ message' = Head(inbox) /\ inbox' = Tail(inbox)
    /\ UNCHANGED <<countVars, m_running, m_messageCallbacks, it, entry, owner_pc, wanted>>
    /\ UNCHANGED <<link, breaks, wire, retained, lost, subscriptions>>

FindExact ==                           \* mutant: only entries that are the topic itself
    /\ loop_pc = "find"
    /\ IF Contains(m_messageCallbacks, message.topic)
       THEN /\ loop_pc' = "found" /\ UNCHANGED message
            /\ it' = FirstEntry(message.topic)
       ELSE loop_pc' = "test" /\ message' = NoMessage /\ UNCHANGED it
    /\ UNCHANGED <<linkVars, countVars, m_running, m_messageCallbacks, entry, owner_pc, wanted>>

FindCallback ==
    /\ loop_pc = "find"
    /\ \/ /\ Has(message.topic) \/ raced
          /\ loop_pc' = "found" /\ UNCHANGED message
          /\ it' \in IF raced THEN 1 .. MaxSubscribes ELSE {FirstEntry(message.topic)}
       \/ /\ ~Has(message.topic) \/ raced
          /\ loop_pc' = "test" /\ message' = NoMessage /\ UNCHANGED it
    /\ UNCHANGED <<linkVars, countVars, m_running, m_messageCallbacks, entry, owner_pc, wanted>>

RunCallback ==
    /\ loop_pc = "found" /\ loop_pc' = "callback"
    /\ entry' \in IF raced THEN Patterns ELSE {m_messageCallbacks[it]}
    /\ UNCHANGED <<linkVars, countVars, m_running, m_messageCallbacks, message, it, owner_pc, wanted>>

CallbackReturns ==
    /\ loop_pc = "callback" /\ loop_pc' = "test"
    /\ handled' = handled \cup {message.number}
    /\ message' = NoMessage /\ it' = 0 /\ entry' = NoPattern
    /\ UNCHANGED <<linkVars, messages, subscribes, expected, raced, m_running, m_messageCallbacks, owner_pc, wanted>>

Handling == Test \/ LoopIdle \/ OnMessage \/ FindCallback \/ RunCallback \/ CallbackReturns
Reconnecting == LoopFails \/ Reconnects \/ ReconnectFails
Loop == Handling \/ Reconnecting

-----------------------------------------------------------------------------
(* The owner.                                                               *)
Ready == owner_pc \in {"created", "running"}

Run ==
    /\ owner_pc = "created" /\ owner_pc' = "running"
    /\ m_running' = TRUE /\ loop_pc' = "test"
    /\ UNCHANGED <<linkVars, countVars, m_messageCallbacks, handling, wanted>>

(* subscribe: the request first, then the entry; unsubscribe likewise.      *)
Request(op, p) ==
    /\ Ready /\ subscribes < MaxSubscribes /\ subscribes' = subscribes + 1
    /\ IF link = "closed" THEN UNCHANGED <<owner_pc, wanted>> ELSE owner_pc' = op /\ wanted' = p
    /\ UNCHANGED <<m_running, m_messageCallbacks, loop_pc, handling>>
    /\ UNCHANGED <<link, breaks, wire, retained, lost, inbox, messages, expected, handled, raced>>

Subscribe(p) ==
    /\ Request("subscribe", p)
    /\ subscriptions' = IF link = "up" THEN subscriptions \cup {p} ELSE subscriptions

Unsubscribe(p) ==
    /\ Request("unsubscribe", p)
    /\ subscriptions' = IF link = "up" THEN subscriptions \ {p} ELSE subscriptions

InUse == loop_pc \in {"find", "found", "callback"}

Changed(callbacks) ==
    /\ m_messageCallbacks' = callbacks
    /\ owner_pc' = (IF m_running THEN "running" ELSE "created") /\ wanted' = NoPattern
    /\ raced' = (raced \/ InUse)
    /\ UNCHANGED <<linkVars, messages, subscribes, handled, m_running, loop_pc, handling>>

AddCallback ==
    /\ owner_pc = "subscribe"
    /\ Changed(Append(m_messageCallbacks, wanted))
    /\ UNCHANGED expected

RemoveCallback ==
    /\ owner_pc = "unsubscribe"
    /\ LET found == {i \in DOMAIN m_messageCallbacks : m_messageCallbacks[i] = wanted}
       IN  Changed(IF found = {} THEN m_messageCallbacks ELSE RemoveAt(m_messageCallbacks, Min(found)))
    /\ expected' = {}

(* The destructor.                                                          *)
Disconnect ==
    /\ Ready /\ owner_pc' = "stop"
    /\ link' = "closed" /\ subscriptions' = {} /\ inbox' = <<>> /\ expected' = {}
    /\ UNCHANGED <<m_running, m_messageCallbacks, loop_pc, handling, wanted>>
    /\ UNCHANGED <<breaks, wire, retained, lost, messages, subscribes, handled, raced>>

StopNothing ==                         \* mutant: only waits
    /\ owner_pc = "stop" /\ owner_pc' = "join"
    /\ UNCHANGED <<linkVars, countVars, m_running, m_messageCallbacks, loop_pc, handling, wanted>>

Stop ==
    /\ owner_pc = "stop" /\ owner_pc' = "join"
    /\ m_running' = FALSE
    /\ UNCHANGED <<linkVars, countVars, m_messageCallbacks, loop_pc, handling, wanted>>

(* Joining a thread that was never started throws, in a destructor.         *)
Join ==
    /\ owner_pc = "join" /\ loop_pc \in {"none", "ended"}
    /\ owner_pc' = IF loop_pc = "none" THEN "aborted" ELSE "destroyed"
    /\ UNCHANGED <<linkVars, countVars, m_running, m_messageCallbacks, loop_pc, handling, wanted>>

Calls == Run \/ Disconnect \/ \E p \in Patterns : Subscribe(p) \/ Unsubscribe(p)
Finishes == AddCallback \/ RemoveCallback \/ Stop \/ Join
Outside == Break \/ \E t \in Topics : Send(t)

-----------------------------------------------------------------------------
(* A lost connection is replaced as long as the client runs, if the broker  *)
(* can be reached.                                                          *)
Reconnected == m_running /\ link # "up" ~> link = "up" \/ ~m_running

(* The destructor returns, although mosquitto_loop knows nothing of         *)
(* m_running and may have reconnected after mosquitto_disconnect.           *)
DestroyReturns == owner_pc = "stop" ~> owner_pc \in {"destroyed", "aborted"}

(* A message that comes when the client has a callback for its topic is     *)
(* given to it, unless the connection breaks or the callbacks are changed   *)
(* while the thread uses them.                                              *)
Heard == \A n \in 1 .. MaxMessages : n \in expected ~> n \in handled \/ n \notin expected \/ raced \/ ~m_running
=============================================================================
