---------------------------- MODULE SensorLogger ----------------------------
(***************************************************************************)
(* The sensor logger (sensorlogger/SensorLogger.cpp) with its sensors      *)
(* (libtinkerforge/BrickletTemperature.cpp, BrickletHumidity.cpp,          *)
(* BrickletAmbientLight.cpp) on top of the device table of the connection. *)
(*                                                                         *)
(* The callback thread takes the packets that the receive thread has put   *)
(* into its queue one by one.  A bricklet that announces itself gets a     *)
(* sensor; one that disconnects loses its sensor.  A sensor publishes the  *)
(* value the bricklet measures, and has the bricklet report again when the *)
(* value leaves a threshold around the one published.  The receive thread  *)
(* holds a reference to a device while it handles a packet for it.         *)
(*                                                                         *)
(* The topic of a value is the type of its sensor: the bricklets of this   *)
(* module have different types.                                            *)
(***************************************************************************)
EXTENDS Integers, FiniteSets, SequencesExt

CONSTANTS
    UIDs,           \* bricklets
    Nothing,        \* NULL
    Block,          \* by how much the device table grows
    callback, receiver,   \* the threads that look devices up
    Width,          \* values are numbers modulo Width: 2^16 in the code
    MaxValue,       \* the largest value a bricklet measures
    Tolerance,      \* m_tolerance
    Objects,        \* bound: sensors created per bricklet
    Busy,           \* bound: the bricklets to which something happens
    MaxEvents,      \* bound: how often
    MaxReports      \* bound: reports of one bricklet in the queue

ASSUME LoggerAssumption ==
    /\ callback # receiver
    /\ Width \in Nat \ {0} /\ MaxValue \in 0 .. Width - 1
    /\ Tolerance \in 0 .. Width - 1
    /\ Busy \subseteq UIDs /\ {Objects, MaxEvents, MaxReports} \subseteq Nat

Devices == UIDs \X (1 .. Objects)      \* the device of each sensor
Workers == {callback, receiver}
Values == 0 .. Width - 1

ASSUME DevicesAssumption ==
    Nothing \notin Devices \cup Values /\ Block \in Nat \ {0}

VARIABLES
    table, allocated, uid, ref_count, made, freed, owned, held, twins,
    plugged,        \* the bricklets there are
    value,          \* per bricklet: what it measures
    threshold,      \* per bricklet: it reports a value outside
    due,            \* the bricklets that still have to answer an enumeration
    connected,      \* there is a connection
    missed,         \* history: bricklets of which the connection lost something
    queue,          \* what the callback thread still has to handle
    pc, current,    \* the callback thread: where it is, the device it works for,
    newValue,       \*   and the value it works with
    m_sensors,      \* the sensors, each by its device
    published,      \* per bricklet: the last value published
    events          \* how many things have happened to the bricklets

tableVars == <<table, allocated, uid, ref_count, made, freed, owned, held, twins>>
brickletVars == <<plugged, value, threshold, due, connected, missed, events>>
loggerVars == <<pc, current, newValue, m_sensors, published>>
vars == <<tableVars, brickletVars, loggerVars, queue>>

Table == INSTANCE DeviceTable

Off == [min |-> 0, max |-> Width - 1]
Message(kind, u, v) == [kind |-> kind, uid |-> u, value |-> v]
Messages == [kind : {"available", "disconnected", "report"}, uid : UIDs, value : 0 .. MaxValue]
              \cup {Message("lost", Nothing, 0)}

(* SensorLogger: the enumeration has been requested, nothing has come back. *)
Init ==
    /\ Table!Init /\ uid = [d \in Devices |-> d[1]]
    /\ plugged \in SUBSET UIDs /\ due = plugged
    /\ value \in [UIDs -> 0 .. MaxValue] /\ threshold = [u \in UIDs |-> Off]
    /\ connected = TRUE /\ missed = {} /\ events = 0
    /\ queue = <<>>
    /\ pc = "idle" /\ current = Nothing /\ newValue = 0
    /\ m_sensors = <<>> /\ published = [u \in UIDs |-> Nothing]

-----------------------------------------------------------------------------
(* The callback thread takes the next packet.                               *)
Pop(kind) ==
    /\ pc = "idle" /\ queue # <<>> /\ Head(queue).kind = kind
    /\ queue' = Tail(queue)

(* enumerationCallback, a device is available or connected: a new sensor    *)
(* with a device of its own, whatever sensors there are.                    *)
DevicesOf(u) == {d \in made : d[1] = u}
NextDevice(u) == <<u, Cardinality(DevicesOf(u)) + 1>>

AddSensor ==
    /\ Pop("available")
    /\ NextDevice(Head(queue).uid) \in Devices         \* bound: Spare leaves one
    /\ Table!Create(NextDevice(Head(queue).uid))
    /\ current' = NextDevice(Head(queue).uid) /\ pc' = "register"
    /\ UNCHANGED <<brickletVars, newValue, m_sensors, published>>

(* registerCallback: from now on the device has a callback.                 *)
RegisterOnly ==                        \* mutant: waits for the first report
    /\ pc = "register"
    /\ m_sensors' = Append(m_sensors, current)
    /\ pc' = "idle" /\ current' = Nothing
    /\ UNCHANGED <<tableVars, brickletVars, queue, newValue, published>>

Register ==
    /\ pc = "register"
    /\ pc' = "get"
    /\ UNCHANGED <<tableVars, brickletVars, queue, current, newValue, m_sensors, published>>

(* An answer reaches the call that waits for it when the table has the      *)
(* device.  The receive thread keeps its reference until after it has woken *)
(* the caller up.                                                           *)
Answered(d) ==
    /\ connected /\ d[1] \in plugged /\ Table!Lookup(d[1]) = d
    /\ Table!Acquire(receiver, d[1])

(* getTemperature: the result of the call is ignored; without an answer the *)
(* value is what happened to be in the variable.                            *)
Get ==
    /\ pc = "get"
    /\ \/ Answered(current) /\ newValue' = value[current[1]]
       \/ UNCHANGED tableVars /\ newValue' \in Values
    /\ pc' = "update"
    /\ UNCHANGED <<brickletVars, queue, current, m_sensors, published>>

(* temperatureUpdated                                                       *)
Around(v) == [min |-> IF v >= Tolerance THEN v - Tolerance ELSE 0,
              max |-> (v + Tolerance) % Width]

KeepThreshold ==                       \* mutant: the threshold stays where it is
    /\ pc = "update"
    /\ IF connected /\ current[1] \in plugged
       THEN missed' = missed \ {current[1]}
       ELSE missed' = missed \cup {current[1]}
    /\ Answered(current) \/ UNCHANGED tableVars
    /\ pc' = "publish"
    /\ UNCHANGED <<plugged, value, threshold, due, connected, events>>
    /\ UNCHANGED <<queue, current, newValue, m_sensors, published>>

SetThreshold ==
    /\ pc = "update"
    /\ IF connected /\ current[1] \in plugged
       THEN /\ threshold' = [threshold EXCEPT ![current[1]] = Around(newValue)]
            /\ missed' = missed \ {current[1]}
       ELSE missed' = missed \cup {current[1]} /\ UNCHANGED threshold
    /\ Answered(current) \/ UNCHANGED tableVars
    /\ pc' = "publish"
    /\ UNCHANGED <<plugged, value, due, connected, events>>
    /\ UNCHANGED <<queue, current, newValue, m_sensors, published>>

(* m_callback, and back: a new sensor joins the others, the reference for a *)
(* report is given back.                                                    *)
Publish ==
    /\ pc = "publish"
    /\ published' = [published EXCEPT ![current[1]] = newValue]
    /\ IF held[callback] = Nothing
       THEN m_sensors' = Append(m_sensors, current) /\ UNCHANGED tableVars
       ELSE Table!Release(callback) /\ UNCHANGED m_sensors
    /\ pc' = "idle" /\ current' = Nothing /\ newValue' = 0
    /\ UNCHANGED <<brickletVars, queue>>

(* enumerationCallback, a device is disconnected: the first sensor with its *)
(* UID is erased, and gives its device up.                                  *)
IsSensorOf(i, u) == i \in DOMAIN m_sensors /\ m_sensors[i][1] = u
FirstSensor(u) == CHOOSE i \in DOMAIN m_sensors :
                    IsSensorOf(i, u) /\ \A j \in 1 .. i - 1 : ~IsSensorOf(j, u)

EraseFront ==                          \* mutant: whatever sensor comes first
    /\ Pop("disconnected")
    /\ IF m_sensors # <<>>
       THEN Table!GiveUp(m_sensors[1]) /\ m_sensors' = Tail(m_sensors)
       ELSE UNCHANGED <<tableVars, m_sensors>>
    /\ UNCHANGED <<brickletVars, pc, current, newValue, published>>

EraseOnly ==                           \* mutant: a destructor without temperature_destroy
    /\ Pop("disconnected")
    /\ LET u == Head(queue).uid
       IN  m_sensors' = IF \E i \in DOMAIN m_sensors : IsSensorOf(i, u)
                        THEN RemoveAt(m_sensors, FirstSensor(u)) ELSE m_sensors
    /\ UNCHANGED <<tableVars, brickletVars, pc, current, newValue, published>>

RemoveSensor ==
    /\ Pop("disconnected")
    /\ LET u == Head(queue).uid
       IN  IF \E i \in DOMAIN m_sensors : IsSensorOf(i, u)
           THEN /\ Table!GiveUp(m_sensors[FirstSensor(u)])
                /\ m_sensors' = RemoveAt(m_sensors, FirstSensor(u))
           ELSE UNCHANGED <<tableVars, m_sensors>>
    /\ UNCHANGED <<brickletVars, pc, current, newValue, published>>

(* A report: the sensor of the device in the table handles it, if any.      *)
DispatchReport ==
    /\ Pop("report")
    /\ LET u == Head(queue).uid
       IN  IF Table!Lookup(u) = Nothing
           THEN UNCHANGED <<tableVars, pc, current, newValue>>
           ELSE /\ Table!Acquire(callback, u)
                /\ current' = Table!Lookup(u) /\ newValue' = Head(queue).value
                /\ pc' = "update"
    /\ UNCHANGED <<brickletVars, m_sensors, published>>

(* The connection was lost: the callback thread connects again.             *)
Reconnect ==
    /\ Pop("lost")
    /\ connected' = TRUE
    /\ UNCHANGED <<tableVars, loggerVars, plugged, value, threshold, due, missed, events>>

CallbackThread ==
    \/ AddSensor \/ Register \/ Get \/ SetThreshold \/ Publish
    \/ RemoveSensor \/ DispatchReport \/ Reconnect

-----------------------------------------------------------------------------
(* The receive thread: it handles one packet after the other.               *)
Idle == held[receiver] = Nothing

ReceiverReleases ==
    /\ Table!Release(receiver)
    /\ UNCHANGED <<brickletVars, loggerVars, queue>>

(* An enumeration packet goes into the queue; without a connection it is    *)
(* lost.                                                                    *)
Receive(kind, u) ==
    /\ Idle
    /\ IF connected
       THEN queue' = Append(queue, Message(kind, u, 0)) /\ UNCHANGED missed
       ELSE missed' = missed \cup {u} /\ UNCHANGED queue

(* Another report goes into the queue if the device has a callback by then. *)
Outside(u) == value[u] < threshold[u].min \/ value[u] > threshold[u].max
Reports(u) == {i \in DOMAIN queue : queue[i].kind = "report" /\ queue[i].uid = u}
Registered(d) == d # current \/ pc # "register"

Report(u) ==
    /\ Idle /\ connected /\ u \in plugged /\ Outside(u)
    /\ Cardinality(Reports(u)) < MaxReports
    /\ Table!Acquire(receiver, u)
    /\ queue' = IF Registered(Table!Lookup(u))
                THEN Append(queue, Message("report", u, value[u])) ELSE queue
    /\ UNCHANGED <<brickletVars, loggerVars>>

Announce(u) ==
    /\ u \in due /\ due' = due \ {u}
    /\ Receive("available", u)
    /\ UNCHANGED <<tableVars, loggerVars, plugged, value, threshold, connected, events>>

-----------------------------------------------------------------------------
(* What happens to the bricklets.                                           *)
Event == events < MaxEvents /\ events' = events + 1
EventOf(u) == u \in Busy /\ Event

Announced(u) == {i \in DOMAIN queue : queue[i].kind = "available" /\ queue[i].uid = u}
Spare(u) ==                            \* bound: there is a device for another sensor
    Cardinality(DevicesOf(u)) + Cardinality(Announced(u))
        + (IF u \in due THEN 1 ELSE 0) < Objects

Change(u) ==
    /\ EventOf(u) /\ u \in plugged
    /\ \E v \in 0 .. MaxValue : v # value[u] /\ value' = [value EXCEPT ![u] = v]
    /\ UNCHANGED <<tableVars, loggerVars, queue, plugged, threshold, due, connected, missed>>

Plug(u) ==
    /\ EventOf(u) /\ u \notin plugged /\ Spare(u)
    /\ plugged' = plugged \cup {u} /\ threshold' = [threshold EXCEPT ![u] = Off]
    /\ Receive("available", u)
    /\ UNCHANGED <<tableVars, loggerVars, value, due, connected>>

Unplug(u) ==
    /\ EventOf(u) /\ u \in plugged
    /\ plugged' = plugged \ {u} /\ due' = due \ {u}
    /\ Receive("disconnected", u)
    /\ UNCHANGED <<tableVars, loggerVars, value, threshold, connected>>

(* Another program requests an enumeration: all connections get the answers.*)
Enumerate ==
    /\ Event /\ \A u \in plugged \ due : Spare(u)
    /\ due' = plugged
    /\ UNCHANGED <<tableVars, loggerVars, queue, plugged, value, threshold, connected, missed>>

Lose ==
    /\ Event /\ Idle /\ connected
    /\ connected' = FALSE
    /\ queue' = Append(queue, Message("lost", Nothing, 0))
    /\ UNCHANGED <<tableVars, loggerVars, plugged, value, threshold, due, missed>>

Bricklets == \E u \in UIDs : Change(u) \/ Plug(u) \/ Unplug(u) \/ Announce(u) \/ Report(u)

Next == CallbackThread \/ ReceiverReleases \/ Bricklets \/ Enumerate \/ Lose

Spec == Init /\ [][Next]_vars

(* The threads run, the bricklets answer, and go on reporting.              *)
Fairness ==
    /\ WF_vars(CallbackThread) /\ WF_vars(ReceiverReleases)
    /\ \A u \in UIDs : SF_vars(Announce(u)) /\ SF_vars(Report(u))

FairSpec == Spec /\ Fairness
-----------------------------------------------------------------------------
TypeOK ==
    /\ Table!TypeOK
    /\ plugged \in SUBSET UIDs /\ due \in SUBSET plugged /\ missed \in SUBSET UIDs
    /\ value \in [UIDs -> 0 .. MaxValue]
    /\ threshold \in [UIDs -> [min : Values, max : Values]]
    /\ connected \in BOOLEAN /\ events \in 0 .. MaxEvents
    /\ queue \in Seq(Messages)
    /\ pc \in {"idle", "register", "get", "update", "publish"}
    /\ current \in Devices \cup {Nothing} /\ newValue \in Values
    /\ m_sensors \in Seq(Devices)
    /\ published \in [UIDs -> Values \cup {Nothing}]

(* Everything a bricklet has sent is handled.                               *)
Handled(u) == /\ u \notin due /\ \A i \in DOMAIN queue : queue[i].uid # u
              /\ current = Nothing \/ current[1] # u

(* A bricklet whose messages are all handled reports a value as soon as it  *)
(* differs from the published one by more than the tolerance, unless the    *)
(* connection lost something of it.                                         *)
Armed == \A u \in plugged \ missed :
            Handled(u) => published[u] # Nothing /\ threshold[u] = Around(published[u])

(* A bricklet whose sensors were all kept, or that never had two devices at *)
(* a time, is served by a sensor in the list: neither the coming and going  *)
(* of other bricklets nor more enumerations take it away.                   *)
Undisturbed(u) == DevicesOf(u) \subseteq owned \/ DevicesOf(u) \cap twins = {}
Tracked == \A u \in plugged \ missed :
            Handled(u) /\ Undisturbed(u) => Table!Lookup(u) \in Range(m_sensors)

(* No callback reaches a sensor that was destroyed: a device in the table   *)
(* has its sensor, except while the receive thread is the last to hold it;  *)
(* and the sensor that handles a report is in the list until it has done so.*)
SensorAlive ==
    /\ \A i \in DOMAIN table :
         table[i].value \in Range(m_sensors) \cup {current, held[receiver]}
    /\ held[callback] # Nothing => held[callback] \in Range(m_sensors)

(* As long as a bricklet has a device in the table, the published value     *)
(* comes to within the tolerance of the measured one and stays there.       *)
Close(u) == published[u] # Nothing /\ published[u] - value[u] \in -Tolerance .. Tolerance
Served(u) == u \in plugged \ missed /\ Table!Lookup(u) # Nothing
Settles == \A u \in UIDs : <>[]Served(u) => <>[]Close(u)
=============================================================================
