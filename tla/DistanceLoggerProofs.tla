------------------------ MODULE DistanceLoggerProofs ------------------------
(***************************************************************************)
(* Theorems about the sensor with a period and the client of the broker,   *)
(* for every range of values, every set of patterns and every number of    *)
(* messages, subscriptions and broken connections.                         *)
(***************************************************************************)
EXTENDS DistanceLogger, SequenceTheorems, WellFoundedInduction, NaturalsInduction, TLAPS

MessageSet == [number : 1 .. MaxMessages, topic : Topics]

(* The thread handles a message.                                           *)
Handles == loop_pc \in {"find", "found", "callback"}

(* The types of the client.                                                *)
MqttTypeOK ==
    /\ m_running \in BOOLEAN /\ m_messageCallbacks \in Seq(Patterns)
    /\ loop_pc \in {"none", "test", "loop", "find", "found", "callback", "reconnect", "ended"}
    /\ message \in MessageSet \cup {NoMessage} /\ entry \in Patterns \cup {NoPattern}
    /\ Handles => message \in MessageSet
    /\ owner_pc \in {"created", "running", "subscribe", "unsubscribe", "stop", "join",
                     "destroyed", "aborted"}
    /\ wanted \in Patterns \cup {NoPattern}
    /\ owner_pc \in {"subscribe", "unsubscribe"} => wanted \in Patterns
    /\ wire \in Seq(0 .. MAXIMUM_VALUE)
    /\ inbox \in Seq(MessageSet) /\ messages \in 0 .. MaxMessages
    /\ handled \in SUBSET (1 .. MaxMessages) /\ raced \in BOOLEAN

(* The thread of the client ends only when nobody needs it any more.       *)
ThreadInv ==
    /\ loop_pc = "none" => ~m_running
    /\ loop_pc = "ended" => ~m_running
    /\ ~m_running /\ loop_pc # "none" => owner_pc \in {"join", "destroyed", "aborted"}
    /\ owner_pc = "destroyed" => loop_pc = "ended"
    /\ owner_pc = "aborted" => loop_pc = "none"

(* The callback that runs has a pattern for the message, unless another    *)
(* thread changed the callbacks between the search for one and its end.    *)
RightEntry ==
    loop_pc = "callback" => raced \/ (entry \in Patterns /\ message.topic \in Matches[entry])

(* What was found is still where it was found.                             *)
FoundEntry ==
    loop_pc = "found" /\ ~raced =>
        /\ it \in DOMAIN m_messageCallbacks /\ m_messageCallbacks[it] \in Patterns
        /\ message.topic \in Matches[m_messageCallbacks[it]]

(* Messages are given to callbacks in their order, none of them twice.     *)
InOrder == loop_pc = "callback" => \A n \in handled : n < message.number

OrderInv ==
    /\ \A i \in 1 .. Len(inbox) :
         /\ inbox[i].number <= messages
         /\ \A n \in handled : n < inbox[i].number
         /\ Handles => message.number < inbox[i].number
         /\ \A j \in 1 .. i - 1 : inbox[j].number < inbox[i].number
    /\ \A n \in handled : n <= messages
    /\ Handles => message.number <= messages /\ \A n \in handled : n < message.number

(* When everything is handled, the broker keeps the value of the bricklet, *)
(* cut off, whatever was lost before; only a first value of 0 is not       *)
(* published.                                                              *)
Quiet ==
    /\ period /\ ~missed /\ ~lost
    /\ distance = triggered /\ reports = <<>> /\ sensor_pc = "idle" /\ wire = <<>>
RetainedWhenQuiet ==
    Quiet => retained = Cut(distance) \/ (silent /\ Cut(distance) = 0)

(* The last report is the last in the queue, or the value passed on; what  *)
(* was passed on is the last publication under way, or the value kept.     *)
ReportInv ==
    /\ ~period => triggered = -1
    /\ ~missed /\ triggered # -1 =>
         IF reports = <<>> THEN m_lastValue = Cut(triggered)
                           ELSE reports[Len(reports)] = triggered
PublishInv ==
    /\ silent => m_lastValue = 0 /\ sensor_pc # "publish"
    /\ sensor_pc # "publish" /\ ~silent /\ ~lost =>
         IF wire = <<>> THEN retained = m_lastValue ELSE wire[Len(wire)] = m_lastValue

ClientInv == MqttTypeOK /\ ThreadInv /\ RightEntry /\ FoundEntry /\ OrderInv
SensorInv == DistanceTypeOK /\ ReportInv /\ PublishInv
-----------------------------------------------------------------------------
(* The types.                                                              *)
LEMMA RemovedType ==
    ASSUME NEW S, NEW s \in Seq(S), NEW n \in 1 .. Len(s)
    PROVE  RemoveAt(s, n) \in Seq(S)
  <1>1. Len(s) \in Nat
    BY LenProperties
  <1>2. \A i \in 1 .. Len(s) : s[i] \in S
    BY ElementOfSeq
  <1>3. SubSeq(s, 1, n - 1) \in Seq(S)
    <2>1. \A i \in 1 .. n - 1 : s[i] \in S
      BY <1>1, <1>2
    <2> QED
      BY <1>1, <2>1, SubSeqProperties
  <1>4. SubSeq(s, n + 1, Len(s)) \in Seq(S)
    <2>1. \A i \in n + 1 .. Len(s) : s[i] \in S
      BY <1>1, <1>2
    <2> QED
      BY <1>1, <2>1, SubSeqProperties
  <1> QED
    BY <1>3, <1>4, ConcatProperties DEF RemoveAt

LEMMA LeastIn ==
    ASSUME NEW S \in SUBSET Nat, S # {}
    PROVE  \E i \in S : \A j \in S : ~(j < i)
  <1>1. PICK i \in S : \A j \in S : ~(<<j, i>> \in OpToRel(<, Nat))
    BY NatLessThanWellFounded, WFMin
  <1> QED
    BY <1>1 DEF OpToRel

(* The first entry for a topic, if there is one.                           *)
LEMMA FirstEntryFound ==
    ASSUME m_messageCallbacks \in Seq(Patterns), NEW t, Has(t)
    PROVE  /\ FirstEntry(t) \in DOMAIN m_messageCallbacks
           /\ m_messageCallbacks[FirstEntry(t)] \in Patterns
           /\ t \in Matches[m_messageCallbacks[FirstEntry(t)]]
  <1> DEFINE Entries == {i \in DOMAIN m_messageCallbacks : IsFor(i, t)}
  <1>1. DOMAIN m_messageCallbacks = 1 .. Len(m_messageCallbacks) /\ Len(m_messageCallbacks) \in Nat
    BY LenProperties
  <1>2. Entries \in SUBSET Nat /\ Entries # {}
    BY <1>1 DEF Has, IsFor
  <1>3. PICK i \in Entries : \A j \in Entries : ~(j < i)
    BY <1>2, LeastIn
  <1>4. i \in DOMAIN m_messageCallbacks /\ IsFor(i, t) /\ \A j \in 1 .. i - 1 : ~IsFor(j, t)
    BY <1>1, <1>3
  <1>5. FirstEntry(t) \in DOMAIN m_messageCallbacks /\ IsFor(FirstEntry(t), t)
    BY <1>4 DEF FirstEntry
  <1> QED
    BY <1>1, <1>5, ElementOfSeq DEF IsFor

LEMMA SensorTypeStep ==
    ASSUME DistanceTypeOK, [Next]_vars
    PROVE  DistanceTypeOK'
  <1> USE DEF DistanceTypeOK
  <1>1. MAXIMUM_VALUE \in Nat /\ MaxDistance \in Nat /\ MaxChanges \in Nat
    BY DistanceAssumption
  <1>2. CASE Change
    BY <1>1, <1>2 DEF Change
  <1>3. CASE Report
    <2>1. reports' \in Seq(Distances) /\ missed' \in BOOLEAN
      <3>1. Append(reports, distance) \in Seq(Distances)
        BY AppendProperties
      <3> QED
        BY <1>3, <3>1 DEF Report
    <2> QED
      BY <1>3, <2>1 DEF Report
  <1>4. CASE SetPeriod
    BY <1>4 DEF SetPeriod
  <1>5. CASE RegisterCallback
    BY <1>5 DEF RegisterCallback
  <1>6. CASE ValueUpdated
    <2>1. reports' \in Seq(Distances) /\ Head(reports) \in Distances
      BY <1>6, HeadTailProperties DEF ValueUpdated
    <2>2. Cut(Head(reports)) \in 0 .. MAXIMUM_VALUE
      BY <1>1, <2>1 DEF Cut, Distances
    <2>3. m_lastValue' \in 0 .. MAXIMUM_VALUE /\ silent' \in BOOLEAN /\ sensor_pc' \in {"idle", "publish"}
      BY <1>6, <2>2 DEF ValueUpdated
    <2> QED
      BY <1>6, <2>1, <2>3 DEF ValueUpdated
  <1>7. CASE Published
    BY <1>7 DEF Published
  <1>8. CASE UNCHANGED sensorVars
    BY <1>8 DEF sensorVars
  <1> QED
    BY <1>2, <1>3, <1>4, <1>5, <1>6, <1>7, <1>8
       DEF Next, vars, Bricklet, Sensor, PublishValue

(* A step of the program, for the client.                                  *)
ClientStep ==
    \/ UNCHANGED mqttVars
    \/ PublishValue
    \/ Loop \/ Calls \/ Finishes \/ Outside \/ Arrive

LEMMA ClientSteps == [Next]_vars => ClientStep
  BY DEF Next, vars, ClientStep, Bricklet, Sensor

LEMMA MqttTypeStep ==
    ASSUME MqttTypeOK, FoundEntry, m_lastValue \in 0 .. MAXIMUM_VALUE, ClientStep
    PROVE  MqttTypeOK'
  <1> USE DEF MqttTypeOK, Handles
  <1>1. CASE Loop
    <2> USE DEF linkVars, countVars, handling
    <2>1. CASE Test \/ LoopIdle
      BY <2>1 DEF Test, LoopIdle
    <2>2. CASE LoopFails \/ Reconnects \/ ReconnectFails
      BY <2>2 DEF LoopFails, Reconnects, ReconnectFails
    <2>3. CASE OnMessage
      <3>1. inbox' \in Seq(MessageSet) /\ Head(inbox) \in MessageSet
        BY <2>3, HeadTailProperties DEF OnMessage
      <3> QED
        BY <2>3, <3>1 DEF OnMessage
    <2>5. CASE FindCallback
      BY <2>5 DEF FindCallback
    <2>6. CASE RunCallback
      <3>1. entry' \in Patterns
        BY <2>6 DEF RunCallback, FoundEntry
      <3> QED
        BY <2>6, <3>1 DEF RunCallback
    <2>4. CASE CallbackReturns
      <3>1. message.number \in 1 .. MaxMessages
        BY <2>4 DEF CallbackReturns, MessageSet
      <3> QED
        BY <2>4, <3>1 DEF CallbackReturns
    <2> QED
      BY <1>1, <2>1, <2>2, <2>3, <2>4, <2>5, <2>6 DEF Loop, Handling, Reconnecting
  <1>2. CASE Calls
    <2> USE DEF linkVars, countVars, handling
    <2>1. CASE Run \/ Disconnect
      BY <2>1, EmptySeq DEF Run, Disconnect
    <2>2. ASSUME NEW p \in Patterns, Subscribe(p) \/ Unsubscribe(p) PROVE MqttTypeOK'
      BY <2>2 DEF Subscribe, Unsubscribe, Request, Ready
    <2> QED
      BY <1>2, <2>1, <2>2 DEF Calls
  <1>3. CASE Finishes
    <2> USE DEF linkVars, countVars, handling, InUse
    <2>1. CASE AddCallback
      <3>1. Append(m_messageCallbacks, wanted) \in Seq(Patterns)
        BY <2>1, AppendProperties DEF AddCallback
      <3> QED
        BY <2>1, <3>1 DEF AddCallback, Changed
    <2>2. CASE RemoveCallback
      <3> DEFINE found == {i \in DOMAIN m_messageCallbacks : m_messageCallbacks[i] = wanted}
      <3>1. m_messageCallbacks' \in Seq(Patterns)
        <4>1. CASE found = {}
          BY <2>2, <4>1 DEF RemoveCallback, Changed
        <4>2. CASE found # {}
          <5>1. DOMAIN m_messageCallbacks = 1 .. Len(m_messageCallbacks) /\ found \in SUBSET Nat
            BY LenProperties
          <5>2. PICK i \in found : \A j \in found : ~(j < i)
            BY <4>2, <5>1, LeastIn
          <5>3. Min(found) \in found
            BY <5>1, <5>2 DEF Min
          <5>4. m_messageCallbacks' = RemoveAt(m_messageCallbacks, Min(found))
            BY <2>2, <4>2 DEF RemoveCallback, Changed
          <5> QED
            BY <5>1, <5>3, <5>4, RemovedType
        <4> QED
          BY <4>1, <4>2
      <3> QED
        BY <2>2, <3>1 DEF RemoveCallback, Changed
    <2>3. CASE Stop \/ Join
      BY <2>3 DEF Stop, Join
    <2> QED
      BY <1>3, <2>1, <2>2, <2>3 DEF Finishes
  <1>4. CASE Outside
    <2>1. CASE Break
      BY <2>1, EmptySeq DEF Break, clientVars, handling
    <2>2. ASSUME NEW t \in Topics, Send(t) PROVE MqttTypeOK'
      <3>1. messages + 1 \in 1 .. MaxMessages
        BY <2>2, MqttAssumption DEF Send
      <3>2. [number |-> messages + 1, topic |-> t] \in MessageSet
        BY <3>1 DEF MessageSet
      <3>3. inbox' \in Seq(MessageSet) /\ messages' \in 0 .. MaxMessages
        BY <2>2, <3>1, <3>2, AppendProperties DEF Send
      <3> QED
        BY <2>2, <3>3 DEF Send, clientVars, handling
    <2> QED
      BY <1>4, <2>1, <2>2 DEF Outside
  <1>5. CASE Arrive
    BY <1>5, HeadTailProperties DEF Arrive, clientVars, countVars, handling
  <1>6. CASE PublishValue
    <2>1. wire' \in Seq(0 .. MAXIMUM_VALUE)
      <3>1. Append(wire, m_lastValue) \in Seq(0 .. MAXIMUM_VALUE)
        BY AppendProperties
      <3> QED
        BY <1>6, <3>1 DEF PublishValue, Publish
    <2> QED
      BY <1>6, <2>1 DEF PublishValue, Publish, clientVars, countVars, handling
  <1>7. CASE UNCHANGED mqttVars
    BY <1>7 DEF mqttVars, clientVars, linkVars, countVars, handling
  <1> QED
    BY <1>1, <1>2, <1>3, <1>4, <1>5, <1>6, <1>7 DEF ClientStep

-----------------------------------------------------------------------------
(* The client.                                                             *)
LEMMA ThreadStep ==
    ASSUME MqttTypeOK, ThreadInv, ClientStep
    PROVE  ThreadInv'
  <1> USE DEF ThreadInv
  <1>1. CASE Loop
    <2>1. CASE Test
      BY <2>1 DEF Test
    <2>2. CASE ~Test
      <3>1. /\ loop_pc \in {"loop", "reconnect", "find", "found", "callback"} /\ loop_pc' \notin {"none", "ended"}
            /\ UNCHANGED <<m_running, owner_pc>>
        BY <1>1, <2>2
           DEF Loop, Handling, Reconnecting, LoopIdle, LoopFails, Reconnects, ReconnectFails,
               OnMessage, FindCallback, RunCallback, CallbackReturns
      <3> QED
        BY <3>1
    <2> QED
      BY <2>1, <2>2
  <1>2. CASE Calls
    <2>1. CASE Run
      BY <2>1 DEF Run
    <2>2. CASE Disconnect
      BY <2>2 DEF Disconnect, Ready
    <2>3. ASSUME NEW p \in Patterns, Subscribe(p) \/ Unsubscribe(p)
          PROVE  ThreadInv'
      <3>1. UNCHANGED <<m_running, loop_pc>> /\ Ready /\ owner_pc' \in {owner_pc, "subscribe", "unsubscribe"}
        BY <2>3 DEF Subscribe, Unsubscribe, Request
      <3> QED
        BY <3>1 DEF Ready
    <2> QED
      BY <1>2, <2>1, <2>2, <2>3 DEF Calls
  <1>3. CASE Finishes
    <2>1. CASE AddCallback \/ RemoveCallback
      <3>1. /\ owner_pc \in {"subscribe", "unsubscribe"} /\ owner_pc' \in {"running", "created"}
            /\ UNCHANGED <<m_running, loop_pc>>
        BY <2>1 DEF AddCallback, RemoveCallback, Changed
      <3> QED
        BY <3>1
    <2>2. CASE Stop
      BY <2>2 DEF Stop
    <2>3. CASE Join
      BY <2>3 DEF Join
    <2> QED
      BY <1>3, <2>1, <2>2, <2>3 DEF Finishes
  <1>4. CASE Outside \/ Arrive \/ PublishValue \/ UNCHANGED mqttVars
    <2>1. UNCHANGED <<m_running, loop_pc, owner_pc>>
      BY <1>4 DEF Outside, Break, Send, Arrive, PublishValue, Publish, mqttVars, clientVars
    <2> QED
      BY <2>1
  <1> QED
    BY <1>1, <1>2, <1>3, <1>4 DEF ClientStep

LEMMA EntryStep ==
    ASSUME MqttTypeOK, RightEntry, FoundEntry, ClientStep
    PROVE  RightEntry' /\ FoundEntry'
  <1> USE DEF RightEntry, FoundEntry
  <1>1. CASE FindCallback
    <2>1. loop_pc' # "callback" /\ UNCHANGED <<m_messageCallbacks, raced>>
      BY <1>1 DEF FindCallback, countVars
    <2>2. CASE loop_pc' = "found" /\ ~raced
      <3>1. Has(message.topic) /\ it' = FirstEntry(message.topic) /\ UNCHANGED message
        BY <1>1, <2>2 DEF FindCallback
      <3> QED
        BY <2>1, <3>1, FirstEntryFound DEF MqttTypeOK
    <2> QED
      BY <2>1, <2>2
  <1>2. CASE RunCallback
    <2>1. loop_pc = "found" /\ loop_pc' = "callback" /\ UNCHANGED <<message, raced>>
      BY <1>2 DEF RunCallback, countVars
    <2>2. raced \/ entry' = m_messageCallbacks[it]
      BY <1>2 DEF RunCallback
    <2> QED
      BY <2>1, <2>2
  <1>3. CASE Loop /\ ~FindCallback /\ ~RunCallback
    <2>1. loop_pc' \notin {"found", "callback"}
      BY <1>3 DEF Loop, Handling, Reconnecting, Test, LoopIdle, LoopFails, Reconnects, ReconnectFails,
                  OnMessage, CallbackReturns
    <2> QED
      BY <2>1
  <1>4. CASE Run
    BY <1>4 DEF Run
  <1>5. CASE AddCallback \/ RemoveCallback
    <2>1. UNCHANGED <<loop_pc, message, entry>> /\ raced' = (raced \/ InUse)
      BY <1>5 DEF AddCallback, RemoveCallback, Changed, handling
    <2> QED
      BY <2>1 DEF InUse
  <1>6. CASE \/ Disconnect \/ \E p \in Patterns : Subscribe(p) \/ Unsubscribe(p)
             \/ Stop \/ Join \/ Outside \/ Arrive \/ PublishValue \/ UNCHANGED mqttVars
    <2>1. UNCHANGED <<m_messageCallbacks, loop_pc, message, it, entry, raced>>
      BY <1>6 DEF Disconnect, Subscribe, Unsubscribe, Request,
                  Stop, Join, Outside, Break, Send, Arrive, PublishValue, Publish,
                  mqttVars, clientVars, countVars, handling
    <2> QED
      BY <2>1
  <1> QED
    BY <1>1, <1>2, <1>3, <1>4, <1>5, <1>6 DEF ClientStep, Calls, Finishes

LEMMA OrderStep ==
    ASSUME MqttTypeOK, OrderInv, ClientStep
    PROVE  OrderInv'
  <1> USE DEF OrderInv
  <1>0. /\ inbox \in Seq(MessageSet) /\ Len(inbox) \in Nat
        /\ \A i \in 1 .. Len(inbox) : inbox[i] \in MessageSet /\ inbox[i].number \in Nat
        /\ \A n \in handled : n \in Nat
        /\ messages \in Nat
        /\ Handles => message.number \in Nat
    <2>1. inbox \in Seq(MessageSet)
      BY DEF MqttTypeOK
    <2>2. \A i \in 1 .. Len(inbox) : inbox[i] \in MessageSet
      BY <2>1, ElementOfSeq
    <2> QED
      BY <2>1, <2>2, LenProperties DEF MqttTypeOK, MessageSet
  <1>1. CASE OnMessage
    <2>1. /\ inbox # <<>> /\ inbox' = Tail(inbox) /\ UNCHANGED <<handled, messages>>
          /\ Handles' /\ message' = Head(inbox)
      BY <1>1 DEF OnMessage, countVars, Handles
    <2>2. /\ Len(inbox) \in Nat \ {0} /\ Len(inbox') = Len(inbox) - 1 /\ Head(inbox) = inbox[1]
          /\ \A i \in 1 .. Len(inbox') : i + 1 \in 1 .. Len(inbox) /\ inbox'[i] = inbox[i + 1]
      BY <1>0, <2>1, HeadTailProperties, LenProperties, EmptySeq
    <2>3. 1 \in 1 .. Len(inbox)
      BY <2>2
    <2>4. \A i \in 1 .. Len(inbox') : \A j \in 1 .. i - 1 :
            j \in 1 .. Len(inbox') /\ j + 1 \in 1 .. (i + 1) - 1
      BY <2>2
    <2>5. \A i \in 1 .. Len(inbox') : 1 \in 1 .. (i + 1) - 1
      BY <2>2
    <2>6. \A i \in 1 .. Len(inbox') : \A j \in 1 .. i - 1 : inbox'[j].number < inbox'[i].number
      BY <2>2, <2>4
    <2>7. \A i \in 1 .. Len(inbox') : inbox[1].number < inbox'[i].number
      BY <2>2, <2>5
    <2>8. \A i \in 1 .. Len(inbox') : /\ inbox'[i].number <= messages
                                      /\ \A n \in handled : n < inbox'[i].number
      BY <2>2
    <2>9. inbox[1].number <= messages /\ \A n \in handled : n < inbox[1].number
      BY <2>3
    <2> QED
      BY <2>1, <2>2, <2>6, <2>7, <2>8, <2>9
  <1>2. CASE CallbackReturns
    <2>1. /\ Handles /\ ~Handles' /\ handled' = handled \cup {message.number}
          /\ UNCHANGED <<inbox, messages>>
      BY <1>2 DEF CallbackReturns, linkVars, Handles
    <2> QED
      BY <2>1
  <1>3. ASSUME NEW t \in Topics, Send(t) PROVE OrderInv'
    <2> DEFINE m == [number |-> messages + 1, topic |-> t]
    <2>1. inbox' = Append(inbox, m) /\ messages' = messages + 1 /\ UNCHANGED <<handled, Handles, message>>
      BY <1>3 DEF Send, clientVars, handling, Handles
    <2>2. m \in MessageSet /\ m.number = messages + 1
      BY <1>3, MqttAssumption DEF Send, MessageSet, MqttTypeOK
    <2> HIDE DEF m
    <2>3. /\ Len(inbox') = Len(inbox) + 1 /\ inbox'[Len(inbox) + 1] = m
          /\ \A i \in 1 .. Len(inbox) : inbox'[i] = inbox[i]
      BY <1>0, <2>1, <2>2, AppendProperties
    <2>4. ASSUME NEW i \in 1 .. Len(inbox')
          PROVE  /\ inbox'[i].number <= messages'
                 /\ \A n \in handled : n < inbox'[i].number
                 /\ Handles => message.number < inbox'[i].number
                 /\ \A j \in 1 .. i - 1 : inbox'[j].number < inbox'[i].number
      <3>1. CASE i \in 1 .. Len(inbox)
        <4>1. \A j \in 1 .. i - 1 : j \in 1 .. Len(inbox)
          BY <1>0, <3>1
        <4>2. inbox'[i] = inbox[i] /\ \A j \in 1 .. i - 1 : inbox'[j] = inbox[j]
          BY <2>3, <3>1, <4>1
        <4> QED
          BY <1>0, <2>1, <3>1, <4>2
      <3>2. CASE i = Len(inbox) + 1
        <4>1. inbox'[i].number = messages + 1
          BY <2>2, <2>3, <3>2
        <4>2. \A j \in 1 .. i - 1 : j \in 1 .. Len(inbox) /\ inbox'[j] = inbox[j]
          BY <1>0, <2>3, <3>2
        <4>3. \A j \in 1 .. i - 1 : inbox'[j].number <= messages
          BY <4>2
        <4>4. \A n \in handled : n < messages + 1
          BY <1>0
        <4>5. Handles => message.number < messages + 1
          BY <1>0
        <4>6. \A j \in 1 .. i - 1 : inbox'[j].number < messages + 1
          BY <1>0, <4>2, <4>3
        <4>7. messages + 1 <= messages'
          BY <1>0, <2>1
        <4> HIDE DEF OrderInv
        <4> QED
          BY <4>1, <4>4, <4>5, <4>6, <4>7
      <3> QED
        BY <1>0, <2>3, <3>1, <3>2
    <2>5. \A n \in handled : n <= messages'
      BY <1>0, <2>1
    <2>6. Handles => message.number <= messages'
      BY <1>0, <2>1
    <2> QED
      BY <2>1, <2>4, <2>5, <2>6
  <1>4. CASE Break \/ Disconnect
    <2>1. inbox' = <<>> /\ UNCHANGED <<messages, handled, Handles, message>>
      BY <1>4 DEF Break, Disconnect, clientVars, handling, Handles
    <2>2. Len(inbox') = 0
      BY <2>1
    <2> QED
      BY <2>1, <2>2
  <1>5. CASE FindCallback \/ RunCallback
    <2>1. /\ UNCHANGED <<inbox, messages, handled>> /\ Handles
          /\ ~Handles' \/ UNCHANGED message
      BY <1>5 DEF FindCallback, RunCallback, linkVars, countVars, Handles
    <2> QED
      BY <2>1
  <1>6. CASE Run \/ Reconnecting \/ Test \/ LoopIdle
    <2>1. UNCHANGED <<inbox, messages, handled>> /\ ~Handles'
      BY <1>6 DEF Run, Reconnecting, Test, LoopIdle, LoopFails, Reconnects, ReconnectFails, Handles,
                  linkVars, countVars
    <2> QED
      BY <2>1
  <1>7. CASE \/ \E p \in Patterns : Subscribe(p) \/ Unsubscribe(p)
             \/ Finishes \/ Arrive \/ PublishValue \/ UNCHANGED mqttVars
    <2>1. UNCHANGED <<inbox, messages, handled, Handles, message>>
      BY <1>7 DEF Subscribe, Unsubscribe, Request, Finishes, AddCallback, RemoveCallback,
                  Changed, Stop, Join, Arrive, PublishValue, Publish, handling, Handles,
                  mqttVars, clientVars, linkVars, countVars
    <2> QED
      BY <2>1
  <1> QED
    BY <1>1, <1>2, <1>3, <1>4, <1>5, <1>6, <1>7
       DEF ClientStep, Calls, Outside, Loop, Handling

-----------------------------------------------------------------------------
(* From the bricklet to the broker.                                        *)
LEMMA LastOfTail ==
    ASSUME NEW S, NEW s \in Seq(S), s # <<>>
    PROVE  /\ Tail(s) \in Seq(S)
           /\ Tail(s) = <<>> => Head(s) = s[Len(s)]
           /\ Tail(s) # <<>> => Tail(s)[Len(Tail(s))] = s[Len(s)]
  <1> DEFINE t == Tail(s)
             n == Len(t)
  <1>1. /\ Len(s) \in Nat \ {0} /\ t \in Seq(S) /\ n \in Nat /\ n = Len(s) - 1
        /\ Head(s) = s[1] /\ \A i \in 1 .. n : t[i] = s[i + 1]
    BY HeadTailProperties, LenProperties, EmptySeq
  <1>2. t = <<>> <=> n = 0
    BY <1>1, EmptySeq
  <1> HIDE DEF t, n
  <1>3. Len(s) = n + 1
    BY <1>1
  <1> SUFFICES /\ t = <<>> => Head(s) = s[Len(s)]
               /\ t # <<>> => t[n] = s[Len(s)]
    BY <1>1 DEF t, n
  <1>4. CASE t = <<>>
    BY <1>1, <1>2, <1>3, <1>4
  <1>5. CASE t # <<>>
    <2>1. n \in 1 .. n
      BY <1>1, <1>2, <1>5
    <2>2. t[n] = s[n + 1]
      BY <1>1, <2>1
    <2> QED
      BY <1>3, <1>5, <2>2
  <1> QED
    BY <1>4, <1>5

LEMMA LastOfAppend ==
    ASSUME NEW S, NEW s \in Seq(S), NEW e \in S
    PROVE  Append(s, e) # <<>> /\ Append(s, e)[Len(Append(s, e))] = e
  BY AppendProperties

LEMMA ReportStep ==
    ASSUME DistanceTypeOK, ReportInv, [Next]_vars
    PROVE  ReportInv'
  <1> USE DEF ReportInv
  <1>0. reports \in Seq(Distances) /\ distance \in Distances
    BY DEF DistanceTypeOK
  <1>1. CASE Report
    <2>1. period /\ UNCHANGED period /\ triggered' = distance
      BY <1>1 DEF Report
    <2>2. CASE missed'
      BY <2>1, <2>2
    <2>3. CASE ~missed'
      <3>1. reports' = Append(reports, distance)
        BY <1>1, <2>3 DEF Report
      <3> QED
        BY <1>0, <2>1, <3>1, LastOfAppend
    <2> QED
      BY <2>2, <2>3
  <1>2. CASE ValueUpdated
    <2>1. /\ reports # <<>> /\ reports' = Tail(reports) /\ UNCHANGED <<period, missed, triggered>>
          /\ m_lastValue' = Cut(Head(reports))
      BY <1>2 DEF ValueUpdated
    <2> QED
      BY <1>0, <2>1, LastOfTail DEF Cut
  <1>3. CASE SetPeriod
    <2>1. UNCHANGED <<missed, triggered, reports, m_lastValue>> /\ period' \in {TRUE, period}
      BY <1>3 DEF SetPeriod
    <2>2. ~period' => ~period
      BY <2>1 DEF DistanceTypeOK
    <2> QED
      BY <2>1, <2>2 DEF Cut
  <1>4. CASE Change \/ RegisterCallback \/ Published \/ UNCHANGED sensorVars
    <2>1. UNCHANGED <<period, missed, triggered, reports, m_lastValue>>
      BY <1>4 DEF Change, RegisterCallback, Published, sensorVars
    <2> QED
      BY <2>1 DEF Cut
  <1> QED
    BY <1>1, <1>2, <1>3, <1>4 DEF Next, vars, Bricklet, Sensor, PublishValue

LEMMA PublishStep ==
    ASSUME DistanceTypeOK, wire \in Seq(0 .. MAXIMUM_VALUE), PublishInv, [Next]_vars
    PROVE  PublishInv'
  <1> USE DEF PublishInv
  <1>1. CASE PublishValue
    <2>1. /\ sensor_pc = "publish" /\ sensor_pc' = "idle" /\ UNCHANGED <<silent, m_lastValue, retained>>
          /\ m_lastValue \in 0 .. MAXIMUM_VALUE
      BY <1>1 DEF PublishValue, Published, Publish, DistanceTypeOK
    <2>2. CASE lost'
      BY <2>1, <2>2
    <2>3. CASE ~lost'
      <3>1. wire' = Append(wire, m_lastValue)
        BY <1>1, <2>3 DEF PublishValue, Publish
      <3> QED
        BY <2>1, <3>1, LastOfAppend
    <2> QED
      BY <2>2, <2>3
  <1>2. CASE ValueUpdated /\ UNCHANGED mqttVars
    <2>1. UNCHANGED <<wire, retained, lost>> /\ sensor_pc # "publish"
      BY <1>2 DEF ValueUpdated, mqttVars, linkVars
    <2>2. \/ UNCHANGED <<m_lastValue, silent, sensor_pc>>
          \/ silent' = FALSE /\ sensor_pc' = "publish"
      BY <1>2 DEF ValueUpdated
    <2> QED
      BY <2>1, <2>2
  <1>3. CASE (Change \/ Report \/ SetPeriod \/ RegisterCallback) /\ UNCHANGED mqttVars
    <2>1. /\ UNCHANGED <<wire, retained, lost, silent, m_lastValue>>
          /\ sensor_pc' = "publish" <=> sensor_pc = "publish"
      BY <1>3 DEF Change, Report, SetPeriod, RegisterCallback, mqttVars, linkVars
    <2> QED
      BY <2>1
  <1>4. CASE UNCHANGED sensorVars /\ Arrive
    <2>1. /\ UNCHANGED <<sensor_pc, silent, m_lastValue, lost>>
          /\ wire # <<>> /\ wire' = Tail(wire) /\ retained' = Head(wire)
      BY <1>4 DEF Arrive, sensorVars
    <2> QED
      BY <2>1, LastOfTail
  <1>5. CASE UNCHANGED sensorVars /\ Break
    <2>1. /\ UNCHANGED <<sensor_pc, silent, m_lastValue, retained>>
          /\ wire' = <<>>
          /\ wire # <<>> => lost'
          /\ ~lost' => ~lost
      BY <1>5 DEF Break, sensorVars
    <2> QED
      BY <2>1
  <1>6. CASE UNCHANGED sensorVars /\ (Loop \/ Calls \/ Finishes \/ UNCHANGED mqttVars)
    <2>1. UNCHANGED <<wire, retained, lost>>
      BY <1>6 DEF Loop, Handling, Reconnecting, Test, LoopIdle, LoopFails, Reconnects, ReconnectFails,
                  OnMessage, FindCallback, RunCallback, CallbackReturns,
                  Calls, Run, Subscribe, Unsubscribe, Request, Disconnect,
                  Finishes, AddCallback, RemoveCallback, Changed, Stop, Join, mqttVars, linkVars
    <2>2. UNCHANGED <<sensor_pc, silent, m_lastValue>>
      BY <1>6 DEF sensorVars
    <2> QED
      BY <2>1, <2>2
  <1>7. ASSUME UNCHANGED sensorVars, NEW t \in Topics, Send(t)
        PROVE  PublishInv'
    BY <1>7 DEF sensorVars, Send
  <1> QED
    BY <1>1, <1>2, <1>3, <1>4, <1>5, <1>6, <1>7 DEF Next, vars, Bricklet, Sensor, Outside

-----------------------------------------------------------------------------
LEMMA InitOK == Init => ClientInv /\ SensorInv
  <1> SUFFICES ASSUME Init PROVE ClientInv /\ SensorInv
    OBVIOUS
  <1>1. MqttTypeOK
    <2>1. /\ m_messageCallbacks \in Seq(Patterns) /\ wire \in Seq(0 .. MAXIMUM_VALUE)
          /\ inbox \in Seq(MessageSet)
      BY EmptySeq DEF Init, MqttInit
    <2>2. messages \in 0 .. MaxMessages /\ handled \in SUBSET (1 .. MaxMessages)
      BY MqttAssumption DEF Init, MqttInit
    <2> QED
      BY <2>1, <2>2 DEF Init, MqttInit, MqttTypeOK, Handles
  <1>2. ThreadInv /\ RightEntry /\ FoundEntry /\ OrderInv
    <2>1. Len(inbox) = 0
      BY DEF Init, MqttInit
    <2> QED
      BY <2>1, MqttAssumption DEF Init, MqttInit, ThreadInv, RightEntry, FoundEntry, OrderInv, Handles
  <1>3. DistanceTypeOK
    <2>1. reports \in Seq(Distances)
      BY EmptySeq DEF Init, DistanceInit
    <2>2. changes \in 0 .. MaxChanges /\ m_lastValue \in 0 .. MAXIMUM_VALUE
      BY DistanceAssumption DEF Init, DistanceInit
    <2>3. {silent, missed} \subseteq BOOLEAN /\ period \in BOOLEAN
      BY DEF Init, DistanceInit
    <2>4. triggered \in Distances \cup {-1} /\ distance \in Distances
      BY DEF Init, DistanceInit
    <2> QED
      BY <2>1, <2>2, <2>3, <2>4 DEF Init, DistanceInit, DistanceTypeOK
  <1>4. ReportInv /\ PublishInv
    BY DEF Init, DistanceInit, ReportInv, PublishInv
  <1> QED
    BY <1>1, <1>2, <1>3, <1>4 DEF ClientInv, SensorInv

(* Every state of the program satisfies the invariant.                     *)
THEOREM DistanceLoggerCorrect == Spec => [](ClientInv /\ SensorInv)
  <1>1. ClientInv /\ SensorInv /\ [Next]_vars => ClientInv' /\ SensorInv'
    <2> SUFFICES ASSUME ClientInv, SensorInv, [Next]_vars PROVE ClientInv' /\ SensorInv'
      OBVIOUS
    <2> USE DEF ClientInv, SensorInv
    <2>1. ClientStep /\ m_lastValue \in 0 .. MAXIMUM_VALUE /\ wire \in Seq(0 .. MAXIMUM_VALUE)
      BY ClientSteps DEF DistanceTypeOK, MqttTypeOK
    <2>2. MqttTypeOK' /\ ThreadInv' /\ RightEntry' /\ FoundEntry' /\ OrderInv'
      BY <2>1, MqttTypeStep, ThreadStep, EntryStep, OrderStep
    <2>3. DistanceTypeOK' /\ ReportInv' /\ PublishInv'
      BY <2>1, SensorTypeStep, ReportStep, PublishStep
    <2> QED
      BY <2>2, <2>3
  <1> QED
    BY <1>1, InitOK, PTL DEF Spec

(* The callback that is run has a pattern that matches the message, unless *)
(* another thread changed the callbacks between find_if and the return of  *)
(* the callback, which no mutex prevents (MqttClient.cpp, onMessage).      *)
THEOREM RightEntryCorrect == Spec => []RightEntry
  BY DistanceLoggerCorrect, PTL DEF ClientInv

(* No message is given to a callback twice or late.                        *)
THEOREM InOrderCorrect == Spec => []InOrder
  <1>1. ClientInv => InOrder
    BY DEF ClientInv, OrderInv, InOrder, Handles
  <1> QED
    BY <1>1, DistanceLoggerCorrect, PTL

(* Once everything is handled, the broker keeps the value of the bricklet  *)
(* (BrickletDistanceIr.cpp, valueUpdated, and MqttClient.cpp, publish),    *)
(* whatever was lost, reconnected or subscribed before.                    *)
THEOREM RetainedCorrect == Spec => []RetainedWhenQuiet
  <1>1. SensorInv => RetainedWhenQuiet
    <2> SUFFICES ASSUME SensorInv, Quiet PROVE retained = Cut(distance) \/ (silent /\ Cut(distance) = 0)
      BY DEF RetainedWhenQuiet
    <2>1. distance # -1
      BY DistanceAssumption DEF SensorInv, DistanceTypeOK, Distances
    <2>2. m_lastValue = Cut(distance)
      BY <2>1 DEF SensorInv, ReportInv, Quiet
    <2> QED
      BY <2>2 DEF SensorInv, PublishInv, Quiet
  <1> QED
    BY <1>1, DistanceLoggerCorrect, PTL

=============================================================================
