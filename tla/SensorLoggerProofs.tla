------------------------- MODULE SensorLoggerProofs -------------------------
(***************************************************************************)
(* Theorems about the sensor logger, for every number of bricklets, of     *)
(* sensors and of events.                                                  *)
(***************************************************************************)
EXTENDS SensorLogger, FiniteSetTheorems, SequenceTheorems, WellFoundedInduction,
        NaturalsInduction, TLAPS

T == INSTANCE DeviceTableProofs

-----------------------------------------------------------------------------
(* What the callback thread works for, and which devices it has: those of  *)
(* the sensors, each once, and the one of a sensor it is setting up.       *)
SettingUp == current # Nothing /\ held[callback] = Nothing

ThreadInv ==
    /\ pc = "idle" <=> current = Nothing
    /\ held[callback] # Nothing => current = held[callback] /\ pc \in {"update", "publish"}
    /\ \A i, j \in 1 .. Len(m_sensors) : m_sensors[i] = m_sensors[j] => i = j
    /\ owned = Range(m_sensors) \cup (IF SettingUp THEN {current} ELSE {})
    /\ SettingUp => current \notin Range(m_sensors)

(* A loss is the last packet in the queue until the callback thread has    *)
(* connected again.                                                        *)
LossInv ==
    IF connected
    THEN \A i \in 1 .. Len(queue) : queue[i].kind # "lost"
    ELSE queue # <<>> /\ \A i \in 1 .. Len(queue) : queue[i].kind = "lost" <=> i = Len(queue)

(* Where the queue has a packet of that kind for that bricklet.            *)
Is(i, kind, u) == queue[i].kind = kind /\ queue[i].uid = u

(* A bricklet that is there announces itself after it has disconnected.    *)
PlugInv == \A u \in plugged : \A j \in 1 .. Len(queue) :
    Is(j, "disconnected", u) =>
      \/ \E k \in j + 1 .. Len(queue) : Is(k, "available", u)
      \/ ~connected /\ u \in missed

(* It does so before it reports.                                           *)
OrderInv == \A u \in UIDs : \A i, j \in 1 .. Len(queue) :
    j < i /\ Is(j, "disconnected", u) /\ Is(i, "report", u) =>
      \E k \in j + 1 .. i - 1 : Is(k, "available", u)

(* A device that only the receive thread holds gets no report any more: its *)
(* bricklet announces itself before, and takes another device.             *)
OrphanInv == \A u \in UIDs :
    Table!Lookup(u) # Nothing /\ Table!Lookup(u) \notin owned =>
      \A i \in 1 .. Len(queue) : Is(i, "report", u) =>
        \E k \in 1 .. i - 1 : Is(k, "available", u)

HandlerInv == held[callback] # Nothing => held[callback] \in Range(m_sensors)

(* A bricklet whose announcements are all handled has a sensor, and after   *)
(* the first value a threshold around what was published.                  *)
Expected(u) == u \in due \/ \E i \in 1 .. Len(queue) : Is(i, "available", u)
At(u, where) == current # Nothing /\ current[1] = u /\ pc \in where

ServedInv == \A u \in plugged \ missed :
    Expected(u) \/ \E d \in owned : d[1] = u

ArmedInv == \A u \in plugged \ missed :
    \/ Expected(u)
    \/ At(u, {"register", "get", "update"})
    \/ At(u, {"publish"}) /\ threshold[u] = Around(newValue)
    \/ /\ ~At(u, {"register", "get", "update", "publish"})
       /\ published[u] # Nothing /\ threshold[u] = Around(published[u])

LoggerInv ==
    /\ uid = [d \in Devices |-> d[1]]
    /\ TypeOK /\ Table!DeviceInv
    /\ ThreadInv /\ LossInv /\ PlugInv /\ OrderInv /\ OrphanInv /\ HandlerInv
    /\ ServedInv /\ ArmedInv

-----------------------------------------------------------------------------
(* The theorems about the device table speak of the same table.            *)
LEMMA SameSets ==
    /\ \A S : T!IsFiniteSet(S) <=> Table!IsFiniteSet(S)
    /\ \A S : T!Cardinality(S) = Table!Cardinality(S)
    /\ \A S : T!IsFiniteSet(S) <=> IsFiniteSet(S)
  BY DEF T!Cardinality, Table!Cardinality, T!IsFiniteSet, Table!IsFiniteSet, IsFiniteSet

LEMMA SameAssumption == T!TableAssumption
  <1>1. IsFiniteSet({receiver}) /\ Workers = {receiver} \cup {callback}
    BY FS_Singleton DEF Workers
  <1>2. IsFiniteSet(Workers)
    BY <1>1, FS_AddElement
  <1> QED
    BY <1>2, SameSets, DevicesAssumption DEF T!TableAssumption

LEMMA SameTable ==
    /\ T!TypeOK <=> Table!TypeOK
    /\ T!DeviceInv <=> Table!DeviceInv
    /\ \A u : T!HasKey(u) <=> Table!HasKey(u)
    /\ \A u : T!Lookup(u) = Table!Lookup(u)
  <1>1. T!TypeOK <=> Table!TypeOK
    BY DEF T!TypeOK, Table!TypeOK, T!Entries, Table!Entries
  <1>2. T!DeviceInv <=> Table!DeviceInv
    <2>1. T!CountInv <=> Table!CountInv
      BY SameSets DEF T!CountInv, Table!CountInv, T!Holders, Table!Holders
    <2>2. T!TableInv <=> Table!TableInv
      BY DEF T!TableInv, Table!TableInv, T!NoDangling, Table!NoDangling
    <2> QED
      BY <2>1, <2>2 DEF T!DeviceInv, Table!DeviceInv
  <1>3. \A u : T!HasKey(u) <=> Table!HasKey(u)
    BY DEF T!HasKey, Table!HasKey
  <1>4. \A u : T!First(u) = Table!First(u)
    BY DEF T!First, Table!First, T!IsFirst, Table!IsFirst
  <1> QED
    BY <1>1, <1>2, <1>3, <1>4 DEF T!Lookup, Table!Lookup

LEMMA SameTableNext ==
    /\ T!TypeOK' <=> Table!TypeOK'
    /\ T!DeviceInv' <=> Table!DeviceInv'
    /\ \A u : T!HasKey(u)' <=> Table!HasKey(u)'
    /\ \A u : T!Lookup(u)' = Table!Lookup(u)'
  <1>1. T!TypeOK' <=> Table!TypeOK'
    BY DEF T!TypeOK, Table!TypeOK, T!Entries, Table!Entries
  <1>2. T!DeviceInv' <=> Table!DeviceInv'
    <2>1. T!CountInv' <=> Table!CountInv'
      BY SameSets DEF T!CountInv, Table!CountInv, T!Holders, Table!Holders
    <2>2. T!TableInv' <=> Table!TableInv'
      BY DEF T!TableInv, Table!TableInv, T!NoDangling, Table!NoDangling
    <2> QED
      BY <2>1, <2>2 DEF T!DeviceInv, Table!DeviceInv
  <1>3. \A u : T!HasKey(u)' <=> Table!HasKey(u)'
    BY DEF T!HasKey, Table!HasKey
  <1>4. \A u : T!First(u)' = Table!First(u)'
    BY DEF T!First, Table!First, T!IsFirst, Table!IsFirst
  <1> QED
    BY <1>1, <1>2, <1>3, <1>4 DEF T!Lookup, Table!Lookup

LEMMA SameSteps ==
    /\ \A d : T!Create(d) <=> Table!Create(d)
    /\ \A d : T!GiveUp(d) <=> Table!GiveUp(d)
    /\ \A w : T!Release(w) <=> Table!Release(w)
    /\ \A w, u : T!Acquire(w, u) <=> Table!Acquire(w, u)
  <1>1. \A u : T!First(u) = Table!First(u) /\ (T!HasKey(u) <=> Table!HasKey(u))
    BY DEF T!First, Table!First, T!IsFirst, Table!IsFirst, T!HasKey, Table!HasKey
  <1>2. \A u, d : T!Insert(u, d) <=> Table!Insert(u, d)
    BY <1>1 DEF T!Insert, Table!Insert
  <1>3. \A u : T!Remove(u) <=> Table!Remove(u)
    BY <1>1 DEF T!Remove, Table!Remove
  <1>4. \A d : T!Drop(d) <=> Table!Drop(d)
    BY <1>3 DEF T!Drop, Table!Drop
  <1>5. \A d : T!Create(d) <=> Table!Create(d)
    BY <1>2 DEF T!Create, Table!Create
  <1>6. \A w, u : T!Acquire(w, u) <=> Table!Acquire(w, u)
    BY SameTable DEF T!Acquire, Table!Acquire
  <1> QED
    BY <1>4, <1>5, <1>6 DEF T!GiveUp, Table!GiveUp, T!Release, Table!Release

-----------------------------------------------------------------------------
(* What the steps of the table do, from the theorems about it.             *)
LEMMA TableInit == Table!Init => Table!TypeOK /\ Table!DeviceInv
  <1>1. T!Init <=> Table!Init
    BY DEF T!Init, Table!Init
  <1> QED
    BY <1>1, SameAssumption, SameTable, T!InitOK

LEMMA TableCreates ==
    ASSUME Table!TypeOK, Table!DeviceInv, NEW d \in Devices, Table!Create(d)
    PROVE  /\ Table!TypeOK' /\ Table!DeviceInv'
           /\ \A u : Table!Lookup(u)' = IF u = uid[d] THEN d ELSE Table!Lookup(u)
  <1> USE SameAssumption, SameTable, SameTableNext, SameSteps
  <1>1. T!TypeOK' /\ T!DeviceInv'
    BY T!CreateKeeps
  <1>2. \A u : T!Lookup(u)' = IF u = uid[d] THEN d ELSE T!Lookup(u)
    BY T!CreateLookup
  <1> QED
    BY <1>1, <1>2

LEMMA TableGivesUp ==
    ASSUME Table!TypeOK, Table!DeviceInv, NEW d \in Devices, Table!GiveUp(d)
    PROVE  /\ Table!TypeOK' /\ Table!DeviceInv'
           /\ \A u : Table!Lookup(u)' \in {Table!Lookup(u), Nothing}
  <1> USE SameAssumption, SameTable, SameTableNext, SameSteps
  <1>1. T!TypeOK' /\ T!DeviceInv'
    BY T!GiveUpKeeps
  <1>2. T!Frees(d)
    BY T!FreesWhat
  <1>3. \A u : T!Lookup(u)' \in {T!Lookup(u), Nothing}
    BY <1>2, T!FreesLookup
  <1> QED
    BY <1>1, <1>3

LEMMA TableReleases ==
    ASSUME Table!TypeOK, Table!DeviceInv, NEW w \in Workers, Table!Release(w)
    PROVE  /\ Table!TypeOK' /\ Table!DeviceInv'
           /\ \A u : Table!Lookup(u)' \in {Table!Lookup(u), Nothing}
  <1> USE SameAssumption, SameTable, SameTableNext, SameSteps
  <1>1. T!TypeOK' /\ T!DeviceInv'
    BY T!ReleaseKeeps
  <1>2. held[w] \in Devices /\ T!Frees(held[w])
    BY T!FreesWhat
  <1>3. \A u : T!Lookup(u)' \in {T!Lookup(u), Nothing}
    BY <1>2, T!FreesLookup
  <1> QED
    BY <1>1, <1>3

LEMMA TableAcquires ==
    ASSUME Table!TypeOK, Table!DeviceInv, NEW w \in Workers, NEW u \in UIDs, Table!Acquire(w, u)
    PROVE  /\ Table!TypeOK' /\ Table!DeviceInv'
           /\ \A v : Table!Lookup(v)' = Table!Lookup(v)
  <1> USE SameAssumption, SameTable, SameTableNext, SameSteps
  <1>1. T!TypeOK' /\ T!DeviceInv'
    BY T!AcquireKeeps
  <1>2. UNCHANGED table
    BY DEF Table!Acquire
  <1>3. \A v : Table!Lookup(v)' = Table!Lookup(v)
    BY <1>2 DEF Table!Lookup, Table!HasKey, Table!First, Table!IsFirst
  <1> QED
    BY <1>1, <1>3

LEMMA TableStays ==
    ASSUME Table!TypeOK, Table!DeviceInv, UNCHANGED tableVars
    PROVE  /\ Table!TypeOK' /\ Table!DeviceInv'
           /\ \A v : Table!Lookup(v)' = Table!Lookup(v)
  <1>1. UNCHANGED T!vars /\ UNCHANGED table
    BY DEF T!vars, tableVars
  <1>2. T!TypeOK' /\ T!DeviceInv'
    BY <1>1, SameAssumption, SameTable, T!DeviceStep
  <1>3. \A v : Table!Lookup(v)' = Table!Lookup(v)
    BY <1>1 DEF Table!Lookup, Table!HasKey, Table!First, Table!IsFirst
  <1> QED
    BY <1>2, <1>3, SameTableNext

(* What is looked up is a device with that UID, which somebody uses.       *)
LEMMA LookedUp ==
    ASSUME Table!TypeOK, Table!DeviceInv, uid = [d \in Devices |-> d[1]],
           NEW u, Table!Lookup(u) # Nothing
    PROVE  /\ Table!Lookup(u) \in made \ freed /\ Table!Lookup(u) \in Devices
           /\ Table!Lookup(u)[1] = u /\ u \in UIDs
  <1> USE SameAssumption, SameTable
  <1>1. T!Lookup(u) \in made \ freed
    BY T!LookupAlive DEF T!DeviceInv
  <1>2. Table!Lookup(u) \in Devices
    BY <1>1 DEF Table!TypeOK
  <1>3. T!HasKey(u)
    BY DEF T!Lookup
  <1>4. PICK i \in 1 .. Len(table) : table[i].key = u
    BY <1>3, T!LookupNone
  <1>5. T!Lookup(u) = table[i].value
    BY <1>4, T!LookupEntry DEF T!DeviceInv
  <1>6. uid[table[i].value] = u
    BY <1>4 DEF Table!DeviceInv, Table!TableInv
  <1>7. Table!Lookup(u)[1] \in UIDs
    BY <1>2 DEF Devices
  <1> QED
    BY <1>1, <1>2, <1>5, <1>6, <1>7

LEMMA Used ==
    ASSUME Table!TypeOK, Table!DeviceInv, NEW d \in made \ freed
    PROVE  d \in owned \/ d = held[callback] \/ d = held[receiver]
  <1> USE SameAssumption, SameTable
  <1>1. d \in Devices
    BY DEF Table!TypeOK
  <1>2. d \in owned \/ T!Holders(d) # {}
    BY <1>1, T!CountUses DEF T!DeviceInv, T!CountInv
  <1> QED
    BY <1>2 DEF T!Holders, Workers

LEMMA UsedAlive ==
    ASSUME Table!TypeOK, Table!DeviceInv
    PROVE  /\ owned \subseteq made \ freed
           /\ \A w \in Workers : held[w] # Nothing => held[w] \in made \ freed
  <1> USE SameAssumption, SameTable
  <1>1. \A d \in owned : d \in made \ freed
    <2> SUFFICES ASSUME NEW d \in owned PROVE d \in made \ freed
      OBVIOUS
    <2>1. d \in Devices
      BY DEF Table!TypeOK
    <2> QED
      BY <2>1, T!CountUses DEF T!DeviceInv, T!CountInv
  <1>2. ASSUME NEW w \in Workers, held[w] # Nothing PROVE held[w] \in made \ freed
    <2>1. held[w] \in Devices /\ w \in T!Holders(held[w])
      BY <1>2 DEF Table!TypeOK, T!Holders
    <2> QED
      BY <2>1, T!CountUses DEF T!DeviceInv, T!CountInv
  <1> QED
    BY <1>1, <1>2

-----------------------------------------------------------------------------
(* The queue.                                                              *)
LEMMA Taken ==
    ASSUME queue \in Seq(Messages), queue # <<>>, queue' = Tail(queue)
    PROVE  /\ Len(queue) \in Nat \ {0} /\ Len(queue)' = Len(queue) - 1
           /\ \A i \in 1 .. Len(queue)' : i + 1 \in 1 .. Len(queue) /\ queue'[i] = queue[i + 1]
           /\ Head(queue) = queue[1] /\ Head(queue) \in Messages
           /\ queue' \in Seq(Messages)
  BY HeadTailProperties, LenProperties, EmptySeq

LEMMA Put ==
    ASSUME queue \in Seq(Messages), NEW m \in Messages, queue' = Append(queue, m)
    PROVE  /\ Len(queue) \in Nat /\ Len(queue)' = Len(queue) + 1
           /\ \A i \in 1 .. Len(queue) : queue'[i] = queue[i]
           /\ queue'[Len(queue) + 1] = m
           /\ queue' \in Seq(Messages)
  BY AppendProperties, LenProperties

LEMMA MessageTypes ==
    /\ \A u \in UIDs : \A kind \in {"available", "disconnected", "report"} :
         \A v \in 0 .. MaxValue : Message(kind, u, v) \in Messages
    /\ Message("lost", Nothing, 0) \in Messages
    /\ \A m \in Messages : m.kind # "lost" => m.uid \in UIDs /\ m.value \in 0 .. MaxValue
    /\ \A m \in Messages : m.kind \in {"available", "disconnected", "report", "lost"}
  BY DEF Messages, Message

LEMMA EnumerationMessage ==
    \A u \in UIDs, kind \in {"available", "disconnected"} :
        /\ Message(kind, u, 0) \in Messages
        /\ Message(kind, u, 0).kind = kind /\ Message(kind, u, 0).uid = u
  <1>1. 0 \in 0 .. MaxValue
    BY LoggerAssumption
  <1> QED
    BY <1>1, MessageTypes DEF Message

(* The first sensor of a bricklet, if it has one.                          *)
LEMMA FirstSensorFound ==
    ASSUME m_sensors \in Seq(Devices), NEW u, NEW n \in DOMAIN m_sensors, IsSensorOf(n, u)
    PROVE  /\ FirstSensor(u) \in DOMAIN m_sensors /\ DOMAIN m_sensors = 1 .. Len(m_sensors)
           /\ m_sensors[FirstSensor(u)][1] = u
  <1> DEFINE Matches == {i \in DOMAIN m_sensors : IsSensorOf(i, u)}
  <1>1. DOMAIN m_sensors = 1 .. Len(m_sensors) /\ Len(m_sensors) \in Nat
    BY LenProperties
  <1>2. Matches \subseteq Nat /\ Matches # {}
    BY <1>1
  <1>3. PICK i \in Matches : \A j \in Matches : ~(<<j, i>> \in OpToRel(<, Nat))
    BY <1>2, NatLessThanWellFounded, WFMin
  <1>4. \A j \in Matches : ~(j < i)
    BY <1>2, <1>3 DEF OpToRel
  <1>5. i \in DOMAIN m_sensors /\ IsSensorOf(i, u) /\ \A j \in 1 .. i - 1 : ~IsSensorOf(j, u)
    BY <1>1, <1>4 DEF IsSensorOf
  <1>6. FirstSensor(u) \in DOMAIN m_sensors /\ IsSensorOf(FirstSensor(u), u)
    BY <1>5 DEF FirstSensor
  <1> QED
    BY <1>1, <1>6 DEF IsSensorOf

LEMMA AroundType == \A v \in Values : Around(v) \in [min : Values, max : Values]
  <1> SUFFICES ASSUME NEW v \in Values PROVE Around(v) \in [min : Values, max : Values]
    OBVIOUS
  <1>1. Width \in Nat \ {0} /\ v \in Nat /\ v < Width /\ Tolerance \in Nat
    BY LoggerAssumption DEF Values
  <1>2. (v + Tolerance) % Width \in 0 .. Width - 1
    BY <1>1
  <1>3. (IF v >= Tolerance THEN v - Tolerance ELSE 0) \in 0 .. Width - 1
    BY <1>1
  <1> QED
    BY <1>2, <1>3 DEF Around, Values

(* A step of the logger is a step of the table, or none.                   *)
LEMMA TableStep ==
    ASSUME TypeOK, Table!DeviceInv, uid = [d \in Devices |-> d[1]], [Next]_vars
    PROVE  [Table!Next]_tableVars
  <1> USE DEF TypeOK
  <1>1. CASE AddSensor
    BY <1>1 DEF AddSensor, Table!Next
  <1>2. CASE Get \/ SetThreshold
    <2>1. CASE Answered(current)
      <3>1. Table!Lookup(current[1]) # Nothing /\ Table!Acquire(receiver, current[1])
        BY <2>1 DEF Answered, Table!Acquire
      <3>2. current[1] \in UIDs
        BY <3>1, LookedUp
      <3> QED
        BY <3>1, <3>2 DEF Table!Next, Workers
    <2> QED
      BY <1>2, <2>1 DEF Get, SetThreshold, tableVars
  <1>3. CASE Publish
    BY <1>3 DEF Publish, Table!Next, Workers
  <1>4. CASE RemoveSensor
    <2>1. CASE UNCHANGED tableVars
      BY <2>1
    <2>2. CASE ~UNCHANGED tableVars
      <3>1. PICK d : d = m_sensors[FirstSensor(Head(queue).uid)] /\ Table!GiveUp(d)
        BY <1>4, <2>2 DEF RemoveSensor
      <3>2. d \in Devices
        BY <3>1 DEF Table!GiveUp, Table!TypeOK
      <3> QED
        BY <3>1, <3>2 DEF Table!Next
    <2> QED
      BY <2>1, <2>2
  <1>5. CASE DispatchReport
    <2>1. CASE UNCHANGED tableVars
      BY <2>1
    <2>2. CASE ~UNCHANGED tableVars
      <3>1. PICK u : Table!Lookup(u) # Nothing /\ Table!Acquire(callback, u)
        BY <1>5, <2>2 DEF DispatchReport
      <3>2. u \in UIDs
        BY <3>1, LookedUp
      <3> QED
        BY <3>1, <3>2 DEF Table!Next, Workers
    <2> QED
      BY <2>1, <2>2
  <1>6. CASE ReceiverReleases
    BY <1>6 DEF ReceiverReleases, Table!Next, Workers
  <1>7. ASSUME NEW u \in UIDs, Report(u) PROVE Table!Next
    BY <1>7 DEF Report, Table!Next, Workers
  <1>8. CASE Register \/ Reconnect \/ Enumerate \/ Lose \/ UNCHANGED vars
    BY <1>8 DEF Register, Reconnect, Enumerate, Lose, vars, tableVars
  <1>9. ASSUME NEW u \in UIDs, Change(u) \/ Plug(u) \/ Unplug(u) \/ Announce(u)
        PROVE  UNCHANGED tableVars
    BY <1>9 DEF Change, Plug, Unplug, Announce
  <1> QED
    BY <1>1, <1>2, <1>3, <1>4, <1>5, <1>6, <1>7, <1>8, <1>9 DEF Next, CallbackThread, Bricklets

LEMMA TableKept ==
    ASSUME TypeOK, Table!DeviceInv, uid = [d \in Devices |-> d[1]], [Next]_vars
    PROVE  /\ Table!TypeOK' /\ Table!DeviceInv' /\ UNCHANGED uid
           /\ T!EntryKept => T!EntryKept'
  <1>1. [Table!Next]_tableVars
    BY TableStep
  <1>2. T!Next <=> Table!Next
    BY SameSteps DEF T!Next, Table!Next
  <1>3. [T!Next]_T!vars
    BY <1>1, <1>2 DEF T!vars, tableVars
  <1>4. T!TypeOK /\ T!DeviceInv
    BY SameTable DEF TypeOK
  <1>5. T!TypeOK' /\ T!DeviceInv' /\ (T!EntryKept => T!EntryKept')
    BY <1>3, <1>4, SameAssumption, T!DeviceStep, T!EntryStep
  <1>6. UNCHANGED uid
    BY <1>1 DEF Table!Next, tableVars, Table!Create, Table!GiveUp, Table!Release, Table!Acquire
  <1> QED
    BY <1>5, <1>6, SameTableNext

-----------------------------------------------------------------------------
(* The types.                                                              *)
LEMMA TypeStep ==
    ASSUME TypeOK, Table!DeviceInv, uid = [d \in Devices |-> d[1]], ThreadInv, [Next]_vars
    PROVE  TypeOK'
  <1>0. Table!TypeOK'
    BY TableKept
  <1> USE <1>0 DEF TypeOK
  <1>t. /\ connected \in BOOLEAN /\ MaxValue \in Nat /\ MaxValue < Width /\ Width \in Nat
        /\ MaxEvents \in Nat /\ 0 .. MaxValue \subseteq Values /\ 0 \in Values
        /\ Off \in [min : Values, max : Values]
    BY LoggerAssumption DEF Values, Off
  <1>c. current # Nothing => current \in Devices /\ current[1] \in UIDs
    BY DEF Devices
  <1>1. CASE AddSensor
    <2>1. NextDevice(Head(queue).uid) \in Devices
      BY <1>1 DEF AddSensor
    <2> QED
      BY <1>1, <2>1, Taken DEF AddSensor, Pop, brickletVars
  <1>2. CASE Register
    BY <1>2 DEF Register, brickletVars
  <1>3. CASE Get
    <2>1. newValue' \in Values
      <3>1. CASE Answered(current)
        <4>1. Table!Lookup(current[1]) # Nothing
          BY <3>1 DEF Answered, Table!Acquire
        <4>2. current[1] \in UIDs
          BY <4>1, LookedUp
        <4> QED
          BY <1>3, <3>1, <4>2, <1>t DEF Get
      <3> QED
        BY <1>3, <3>1 DEF Get
    <2> QED
      BY <1>3, <2>1 DEF Get, brickletVars
  <1>4. CASE SetThreshold
    <2>1. current # Nothing
      BY <1>4 DEF SetThreshold, ThreadInv
    <2>2. Around(newValue) \in [min : Values, max : Values]
      BY AroundType
    <2>3. threshold' \in [UIDs -> [min : Values, max : Values]] /\ missed' \in SUBSET UIDs
      <3>1. CASE connected /\ current[1] \in plugged
        <4>1. /\ threshold' = [threshold EXCEPT ![current[1]] = Around(newValue)]
              /\ missed' = missed \ {current[1]}
          BY <1>4, <3>1 DEF SetThreshold
        <4> QED
          BY <2>2, <4>1
      <3>2. CASE ~(connected /\ current[1] \in plugged)
        <4>1. missed' = missed \cup {current[1]} /\ UNCHANGED threshold
          BY <1>4, <3>2 DEF SetThreshold
        <4> QED
          BY <2>1, <1>c, <4>1
      <3> QED
        BY <3>1, <3>2
    <2> QED
      BY <1>4, <2>3 DEF SetThreshold
  <1>5. CASE Publish
    <2>1. current # Nothing
      BY <1>5 DEF Publish, ThreadInv
    <2>2. m_sensors' \in Seq(Devices)
      <3>1. Append(m_sensors, current) \in Seq(Devices)
        BY <2>1, <1>c, AppendProperties
      <3> QED
        BY <1>5, <3>1 DEF Publish
    <2>3. published' \in [UIDs -> Values \cup {Nothing}]
      BY <1>5 DEF Publish
    <2> QED
      BY <1>5, <2>2, <2>3, <1>t DEF Publish, brickletVars
  <1>6. CASE RemoveSensor
    <2>1. m_sensors' \in Seq(Devices)
      <3>1. \A i : i \in DOMAIN m_sensors => RemoveAt(m_sensors, i) \in Seq(Devices)
        BY LenProperties, SubSeqProperties, ConcatProperties DEF RemoveAt
      <3>2. (\E i \in DOMAIN m_sensors : IsSensorOf(i, Head(queue).uid)) => FirstSensor(Head(queue).uid) \in DOMAIN m_sensors
        BY FirstSensorFound
      <3> QED
        BY <1>6, <3>1, <3>2 DEF RemoveSensor
    <2> QED
      BY <1>6, <2>1, Taken DEF RemoveSensor, Pop, brickletVars
  <1>7. CASE DispatchReport
    <2>1. queue' \in Seq(Messages) /\ Head(queue) \in Messages /\ Head(queue).kind = "report"
      BY <1>7, Taken DEF DispatchReport, Pop
    <2>2. Head(queue).value \in Values
      BY <2>1, MessageTypes, <1>t
    <2>3. current' \in Devices \cup {Nothing} /\ newValue' \in Values /\ pc' \in {"idle", "update"}
      BY <1>7, <2>2, LookedUp DEF DispatchReport, Pop
    <2> QED
      BY <1>7, <2>1, <2>3 DEF DispatchReport, brickletVars
  <1>8. CASE Reconnect
    BY <1>8, Taken DEF Reconnect, Pop, loggerVars
  <1>9. CASE ReceiverReleases
    BY <1>9 DEF ReceiverReleases, brickletVars, loggerVars
  <1>10. ASSUME NEW u \in UIDs, Change(u) PROVE TypeOK'
    BY <1>10, <1>t DEF Change, EventOf, Event, loggerVars
  <1>11. ASSUME NEW u \in UIDs, NEW kind \in {"available", "disconnected"}, Receive(kind, u)
         PROVE  queue' \in Seq(Messages) /\ missed' \in SUBSET UIDs
    <2>1. Message(kind, u, 0) \in Messages
      BY <1>t, MessageTypes
    <2> QED
      BY <1>11, <2>1, Put DEF Receive
  <1>12. ASSUME NEW u \in UIDs, Plug(u) PROVE TypeOK'
    BY <1>11, <1>12, <1>t DEF Plug, EventOf, Event, loggerVars
  <1>13. ASSUME NEW u \in UIDs, Unplug(u) PROVE TypeOK'
    BY <1>11, <1>13, <1>t DEF Unplug, EventOf, Event, loggerVars
  <1>14. ASSUME NEW u \in UIDs, Announce(u) PROVE TypeOK'
    BY <1>11, <1>14, <1>t DEF Announce, loggerVars
  <1>15. ASSUME NEW u \in UIDs, Report(u) PROVE TypeOK'
    <2>1. Message("report", u, value[u]) \in Messages
      BY MessageTypes
    <2> QED
      BY <1>15, <2>1, Put DEF Report, brickletVars, loggerVars
  <1>16. CASE Enumerate
    BY <1>16, <1>t DEF Enumerate, Event, loggerVars
  <1>17. CASE Lose
    <2>1. queue' \in Seq(Messages)
      BY <1>17, MessageTypes, Put DEF Lose
    <2> QED
      <3>1. connected' \in BOOLEAN
        BY <1>17 DEF Lose
      <3>2. events' \in 0 .. MaxEvents
        BY <1>17, <1>t DEF Lose, Event
      <3>3. UNCHANGED <<plugged, value, threshold, due, missed, loggerVars>>
        BY <1>17 DEF Lose
      <3> QED
        BY <2>1, <3>1, <3>2, <3>3 DEF loggerVars
  <1>18. CASE UNCHANGED vars
    BY <1>18 DEF vars, brickletVars, loggerVars
  <1> QED
    BY <1>1, <1>2, <1>3, <1>4, <1>5, <1>6, <1>7, <1>8, <1>9, <1>10, <1>12, <1>13, <1>14,
       <1>15, <1>16, <1>17, <1>18 DEF Next, CallbackThread, Bricklets

-----------------------------------------------------------------------------
(* Who works for what.                                                     *)
LEMMA ReceiverOnly ==
    ASSUME TypeOK, NEW u, Table!Acquire(receiver, u) \/ Table!Release(receiver)
    PROVE  held'[callback] = held[callback] /\ UNCHANGED <<owned, made>>
  BY LoggerAssumption DEF TypeOK, Table!TypeOK, Table!Acquire, Table!Release, Workers

LEMMA AnsweredOnly ==
    ASSUME TypeOK, Answered(current) \/ UNCHANGED tableVars
    PROVE  held'[callback] = held[callback] /\ UNCHANGED <<owned, made>>
  BY ReceiverOnly DEF Answered, tableVars

LEMMA NothingBetween == \A k, n \in Nat : k <= n /\ ~(k + 1 <= n) => n - k = 0
  OBVIOUS

LEMMA Removed ==
    ASSUME NEW S, NEW s \in Seq(S), NEW n \in 1 .. Len(s),
           \A i, j \in 1 .. Len(s) : s[i] = s[j] => i = j
    PROVE  /\ Range(RemoveAt(s, n)) = Range(s) \ {s[n]}
           /\ \A i, j \in 1 .. Len(RemoveAt(s, n)) : RemoveAt(s, n)[i] = RemoveAt(s, n)[j] => i = j
  <1> DEFINE r == RemoveAt(s, n)
             Place(k) == IF k < n THEN k ELSE k + 1
  <1>1. Len(s) \in Nat /\ DOMAIN s = 1 .. Len(s) /\ n \in Nat
    BY LenProperties
  <1> DEFINE a == SubSeq(s, 1, n - 1)
             b == SubSeq(s, n + 1, Len(s))
  <1>2. a \in Seq(S) /\ Len(a) = n - 1 /\ \A k \in 1 .. n - 1 : a[k] = s[k]
    <2>1. \A i \in 1 .. n - 1 : s[i] \in S
      BY <1>1, ElementOfSeq
    <2>2. /\ a \in Seq(S) /\ Len(a) = IF 1 <= n - 1 THEN n - 1 - 1 + 1 ELSE 0
          /\ \A k \in 1 .. n - 1 - 1 + 1 : a[k] = s[1 + k - 1]
      BY <1>1, <2>1, SubSeqProperties
    <2>3. n - 1 - 1 + 1 = n - 1 /\ (IF 1 <= n - 1 THEN n - 1 - 1 + 1 ELSE 0) = n - 1
      BY <1>1
    <2>4. \A k \in 1 .. n - 1 : 1 + k - 1 = k
      BY <1>1
    <2> HIDE DEF a
    <2> QED
      BY <2>2, <2>3, <2>4
  <1>3. b \in Seq(S) /\ Len(b) = Len(s) - n /\ \A k \in 1 .. Len(s) - n : b[k] = s[n + k]
    <2>1. \A i \in n + 1 .. Len(s) : s[i] \in S
      BY <1>1, ElementOfSeq
    <2>2. /\ b \in Seq(S) /\ Len(b) = IF n + 1 <= Len(s) THEN Len(s) - (n + 1) + 1 ELSE 0
          /\ \A k \in 1 .. Len(s) - (n + 1) + 1 : b[k] = s[n + 1 + k - 1]
      BY <1>1, <2>1, SubSeqProperties
    <2>3. Len(s) - (n + 1) + 1 = Len(s) - n
      BY <1>1
    <2>4. ~(n + 1 <= Len(s)) => Len(s) - n = 0
      <3>1. n <= Len(s)
        OBVIOUS
      <3> QED
        BY <1>1, <3>1, NothingBetween
    <2>5. \A k \in 1 .. Len(s) - n : n + 1 + k - 1 = n + k
      BY <1>1
    <2> HIDE DEF b
    <2> QED
      BY <2>2, <2>3, <2>4, <2>5
  <1>4. r = a \o b
    BY DEF RemoveAt
  <1>5. r \in Seq(S) /\ Len(r) = Len(s) - 1 /\
        \A k \in 1 .. Len(s) - 1 : r[k] = IF k <= n - 1 THEN a[k] ELSE b[k - (n - 1)]
    <2> HIDE DEF a, b, r
    <2>0. a \in Seq(S) /\ b \in Seq(S)
      BY <1>2, <1>3
    <2>1. /\ a \o b \in Seq(S) /\ Len(a \o b) = Len(a) + Len(b)
          /\ \A k \in 1 .. Len(a) + Len(b) : (a \o b)[k] = IF k <= Len(a) THEN a[k] ELSE b[k - Len(a)]
      BY <2>0, ConcatProperties
    <2>2. (n - 1) + (Len(s) - n) = Len(s) - 1
      BY <1>1
    <2> QED
      BY <1>2, <1>3, <1>4, <2>1, <2>2
  <1>6. \A k \in 1 .. Len(r) : r[k] = s[Place(k)] /\ Place(k) \in 1 .. Len(s) \ {n}
    <2> SUFFICES ASSUME NEW k \in 1 .. Len(s) - 1
                 PROVE  r[k] = s[Place(k)] /\ Place(k) \in 1 .. Len(s) \ {n}
      BY <1>5
    <2>1. CASE k < n
      BY <1>1, <1>2, <1>5, <2>1
    <2>2. CASE k >= n
      <3>1. k - (n - 1) \in 1 .. Len(s) - n /\ n + (k - (n - 1)) = k + 1 /\ ~(k <= n - 1)
        BY <1>1, <2>2
      <3>2. b[k - (n - 1)] = s[k + 1]
        BY <1>3, <3>1
      <3> QED
        BY <1>1, <1>5, <2>2, <3>1, <3>2
    <2> QED
      BY <1>1, <2>1, <2>2
  <1>7. DOMAIN r = 1 .. Len(r)
    BY <1>5, LenProperties
  <1> HIDE DEF r
  <1>8. \A i \in 1 .. Len(s) \ {n} : \E k \in 1 .. Len(r) : Place(k) = i
    <2> SUFFICES ASSUME NEW i \in 1 .. Len(s) \ {n}
                 PROVE  \E k \in 1 .. Len(r) : Place(k) = i
      OBVIOUS
    <2>1. CASE i < n
      BY <1>1, <1>5, <2>1
    <2>2. CASE i > n
      <3>1. i - 1 \in 1 .. Len(r) /\ Place(i - 1) = i
        BY <1>1, <1>5, <2>2
      <3> QED
        BY <3>1
    <2> QED
      BY <1>1, <2>1, <2>2
  <1>9. \A i, j \in 1 .. Len(r) : r[i] = r[j] => i = j
    <2> SUFFICES ASSUME NEW i \in 1 .. Len(r), NEW j \in 1 .. Len(r), r[i] = r[j] PROVE i = j
      OBVIOUS
    <2>1. Place(i) = Place(j)
      BY <1>6
    <2> QED
      BY <1>1, <1>5, <2>1
  <1>10. Range(r) \subseteq Range(s) \ {s[n]}
    BY <1>1, <1>6, <1>7 DEF Range
  <1>11. Range(s) \ {s[n]} \subseteq Range(r)
    <2> SUFFICES ASSUME NEW i \in 1 .. Len(s), i # n PROVE s[i] \in Range(r)
      BY <1>1 DEF Range
    <2>1. PICK k \in 1 .. Len(r) : Place(k) = i
      BY <1>8
    <2>2. r[k] = s[i]
      BY <1>6, <2>1
    <2> QED
      BY <1>7, <2>2 DEF Range
  <1> QED
    BY <1>9, <1>10, <1>11 DEF r

(* Steps of the others, and of the callback thread between two packets.    *)
LEMMA OtherStep ==
    ASSUME TypeOK, [Next]_vars
    PROVE  \/ CallbackThread
           \/ /\ UNCHANGED loggerVars
              /\ held'[callback] = held[callback] /\ UNCHANGED <<owned, made>>
  <1>1. CASE ReceiverReleases
    BY <1>1, ReceiverOnly DEF ReceiverReleases
  <1>2. ASSUME NEW u \in UIDs, Report(u)
        PROVE  /\ UNCHANGED loggerVars
               /\ held'[callback] = held[callback] /\ UNCHANGED <<owned, made>>
    BY <1>2, ReceiverOnly DEF Report
  <1>3. ASSUME NEW u \in UIDs, Change(u) \/ Plug(u) \/ Unplug(u) \/ Announce(u)
        PROVE  UNCHANGED <<loggerVars, tableVars>>
    BY <1>3 DEF Change, Plug, Unplug, Announce
  <1>4. CASE Enumerate \/ Lose \/ UNCHANGED vars
    BY <1>4 DEF Enumerate, Lose, vars, loggerVars, tableVars
  <1> QED
    BY <1>1, <1>2, <1>3, <1>4 DEF Next, Bricklets, tableVars

LEMMA ThreadStep ==
    ASSUME TypeOK, Table!DeviceInv, ThreadInv, [Next]_vars
    PROVE  ThreadInv'
  <1> USE DEF TypeOK
  <1>n. \A d \in Devices : d # Nothing
    BY DevicesAssumption
  <1>r. /\ Len(m_sensors) \in Nat /\ DOMAIN m_sensors = 1 .. Len(m_sensors)
        /\ \A i \in 1 .. Len(m_sensors) : m_sensors[i] \in Range(m_sensors)
    BY LenProperties DEF Range
  <1>u. UNCHANGED m_sensors => Range(m_sensors)' = Range(m_sensors)
    OBVIOUS
  <1>i. pc = "idle" => /\ current = Nothing /\ held[callback] = Nothing
                       /\ owned = Range(m_sensors) /\ ~SettingUp
    BY DEF ThreadInv, SettingUp
  <1>1. CASE AddSensor
    <2>1. PICK d \in Devices : Table!Create(d) /\ current' = d
      BY <1>1 DEF AddSensor
    <2>2. /\ d \notin made /\ owned' = owned \cup {d} /\ UNCHANGED <<held, m_sensors>>
          /\ pc = "idle" /\ pc' = "register"
      BY <1>1, <2>1 DEF AddSensor, Pop, Table!Create
    <2>3. d \notin Range(m_sensors)
      BY <1>i, <2>2 DEF Table!TypeOK
    <2>4. SettingUp'
      BY <1>n, <1>i, <2>1, <2>2 DEF SettingUp
    <2> QED
      BY <1>n, <1>i, <2>1, <2>2, <2>3, <2>4 DEF ThreadInv
  <1>2. CASE Register \/ Get \/ SetThreshold
    <2>1. /\ held'[callback] = held[callback] /\ UNCHANGED <<owned, m_sensors, current>>
          /\ pc # "idle" /\ pc' # "idle" /\ (pc = "update" => pc' = "publish")
          /\ pc # "publish"
      BY <1>2, AnsweredOnly DEF Register, Get, SetThreshold, tableVars
    <2>2. SettingUp' <=> SettingUp
      BY <2>1 DEF SettingUp
    <2>3. held[callback] # Nothing => pc' \in {"update", "publish"}
      BY <2>1 DEF ThreadInv
    <2> QED
      BY <2>1, <2>2, <2>3 DEF ThreadInv
  <1>3. CASE Publish
    <2>1. current # Nothing /\ current' = Nothing /\ pc' = "idle" /\ ~SettingUp'
      BY <1>3 DEF Publish, ThreadInv, SettingUp
    <2>2. CASE held[callback] = Nothing
      <3>1. m_sensors' = Append(m_sensors, current) /\ UNCHANGED <<owned, held>>
        BY <1>3, <2>2 DEF Publish, tableVars
      <3>2. /\ Len(m_sensors)' = Len(m_sensors) + 1
            /\ \A i \in 1 .. Len(m_sensors) : m_sensors'[i] = m_sensors[i]
            /\ m_sensors'[Len(m_sensors) + 1] = current
            /\ m_sensors' \in Seq(Devices)
        BY <2>1, <3>1, AppendProperties
      <3>3. DOMAIN m_sensors' = 1 .. Len(m_sensors)'
        BY <3>2, LenProperties
      <3>4. Range(m_sensors)' = Range(m_sensors) \cup {current}
        <4>1. \A i \in 1 .. Len(m_sensors)' : i \in 1 .. Len(m_sensors) \/ i = Len(m_sensors) + 1
          BY <1>r, <3>2
        <4>2. /\ Len(m_sensors) + 1 \in 1 .. Len(m_sensors)'
              /\ \A i \in 1 .. Len(m_sensors) : i \in 1 .. Len(m_sensors)'
          BY <1>r, <3>2
        <4>3. Range(m_sensors)' \subseteq Range(m_sensors) \cup {current}
          BY <1>r, <3>2, <3>3, <4>1 DEF Range
        <4>4. current \in Range(m_sensors)' /\ Range(m_sensors) \subseteq Range(m_sensors)'
          BY <1>r, <3>2, <3>3, <4>2 DEF Range
        <4> QED
          BY <4>3, <4>4
      <3>5. SettingUp /\ current \notin Range(m_sensors) /\ owned = Range(m_sensors) \cup {current}
        BY <2>1, <2>2 DEF SettingUp, ThreadInv
      <3>6. \A i, j \in 1 .. Len(m_sensors)' : m_sensors'[i] = m_sensors'[j] => i = j
        <4> SUFFICES ASSUME NEW i \in 1 .. Len(m_sensors)', NEW j \in 1 .. Len(m_sensors)',
                            m_sensors'[i] = m_sensors'[j]
                     PROVE  i = j
          OBVIOUS
        <4>1. CASE i \in 1 .. Len(m_sensors) /\ j \in 1 .. Len(m_sensors)
          BY <3>2, <4>1 DEF ThreadInv
        <4>2. CASE i \in 1 .. Len(m_sensors) /\ j = Len(m_sensors) + 1
          BY <1>r, <3>2, <3>5, <4>2
        <4>3. CASE j \in 1 .. Len(m_sensors) /\ i = Len(m_sensors) + 1
          BY <1>r, <3>2, <3>5, <4>3
        <4> QED
          BY <1>r, <3>2, <4>1, <4>2, <4>3
      <3> QED
        BY <2>1, <2>2, <3>1, <3>4, <3>5, <3>6 DEF ThreadInv
    <2>3. CASE held[callback] # Nothing
      <3>1. Table!Release(callback) /\ UNCHANGED m_sensors
        BY <1>3, <2>3 DEF Publish
      <3>2. held'[callback] = Nothing /\ UNCHANGED owned
        BY <3>1 DEF Table!Release, Table!TypeOK, Workers
      <3>3. ~SettingUp
        BY <2>3 DEF SettingUp
      <3> QED
        BY <2>1, <3>1, <3>2, <3>3 DEF ThreadInv
    <2> QED
      BY <2>2, <2>3
  <1>4. CASE RemoveSensor
    <2>1. /\ pc = "idle" /\ UNCHANGED <<pc, current>>
      BY <1>4 DEF RemoveSensor, Pop
    <2>2. CASE UNCHANGED <<tableVars, m_sensors>>
      <3>1. UNCHANGED <<held, owned, m_sensors>>
        BY <2>2 DEF tableVars
      <3> QED
        BY <2>1, <3>1 DEF ThreadInv, SettingUp
    <2>3. CASE ~UNCHANGED <<tableVars, m_sensors>>
      <3>1. PICK n : /\ n = FirstSensor(Head(queue).uid)
                     /\ n \in 1 .. Len(m_sensors)
                     /\ Table!GiveUp(m_sensors[n]) /\ m_sensors' = RemoveAt(m_sensors, n)
        BY <1>4, <2>3, FirstSensorFound, <1>r DEF RemoveSensor
      <3>2. owned' = owned \ {m_sensors[n]} /\ UNCHANGED held
        BY <3>1 DEF Table!GiveUp
      <3>3. Range(m_sensors)' = Range(m_sensors) \ {m_sensors[n]}
        BY <3>1, Removed DEF ThreadInv
      <3>4. (\A i, j \in 1 .. Len(m_sensors) : m_sensors[i] = m_sensors[j] => i = j)'
        BY <3>1, Removed DEF ThreadInv
      <3> QED
        BY <1>i, <2>1, <3>2, <3>3, <3>4 DEF ThreadInv, SettingUp
    <2> QED
      BY <2>2, <2>3
  <1>5. CASE DispatchReport
    <2>1. pc = "idle" /\ UNCHANGED m_sensors
      BY <1>5 DEF DispatchReport, Pop
    <2>2. CASE UNCHANGED <<tableVars, pc, current>>
      <3>1. UNCHANGED <<held, owned, m_sensors, pc, current>>
        BY <2>1, <2>2 DEF tableVars
      <3> QED
        BY <3>1 DEF ThreadInv, SettingUp
    <2>3. CASE ~UNCHANGED <<tableVars, pc, current>>
      <3>1. PICK u : /\ Table!Acquire(callback, u) /\ current' = Table!Lookup(u)
                     /\ Table!Lookup(u) # Nothing /\ pc' = "update"
        BY <1>5, <2>3 DEF DispatchReport
      <3>2. held'[callback] = Table!Lookup(u) /\ UNCHANGED owned
        BY <3>1 DEF Table!Acquire, Table!TypeOK, Workers
      <3> QED
        BY <1>i, <2>1, <3>1, <3>2 DEF ThreadInv, SettingUp
    <2> QED
      BY <2>2, <2>3
  <1>6. CASE Reconnect
    <2>1. UNCHANGED <<held, owned, m_sensors, pc, current>>
      BY <1>6 DEF Reconnect, tableVars, loggerVars
    <2> QED
      BY <2>1 DEF ThreadInv, SettingUp
  <1>7. CASE UNCHANGED loggerVars /\ held'[callback] = held[callback] /\ UNCHANGED <<owned, made>>
    BY <1>7 DEF ThreadInv, SettingUp, loggerVars
  <1> QED
    BY <1>1, <1>2, <1>3, <1>4, <1>5, <1>6, <1>7, OtherStep DEF CallbackThread

(* Only a new sensor has a new device, and only a sensor that goes gives    *)
(* its device up.                                                           *)
LEMMA TableEffect ==
    ASSUME TypeOK, Table!DeviceInv, uid = [d \in Devices |-> d[1]], [Next]_vars, ~AddSensor
    PROVE  /\ \A u : Table!Lookup(u)' \in {Table!Lookup(u), Nothing}
           /\ RemoveSensor \/ UNCHANGED owned
  <1>1. CallbackThread => UNCHANGED made /\ (RemoveSensor \/ UNCHANGED owned)
    BY AnsweredOnly
       DEF CallbackThread, Register, Get, SetThreshold, Publish, RemoveSensor, DispatchReport,
           Reconnect, Table!GiveUp, Table!Release, Table!Acquire, tableVars
  <1>2. UNCHANGED made /\ (RemoveSensor \/ UNCHANGED owned)
    BY <1>1, OtherStep
  <1>3. [Table!Next]_tableVars
    BY TableStep
  <1>4. \A d \in Devices : ~Table!Create(d)
    BY <1>2 DEF Table!Create
  <1>5. \A u : Table!Lookup(u)' \in {Table!Lookup(u), Nothing}
    <2> USE DEF TypeOK
    <2>1. CASE UNCHANGED tableVars
      BY <2>1, TableStays
    <2>2. ASSUME NEW d \in Devices, Table!GiveUp(d)
          PROVE  \A u : Table!Lookup(u)' \in {Table!Lookup(u), Nothing}
      BY <2>2, TableGivesUp
    <2>3. ASSUME NEW w \in Workers, Table!Release(w)
          PROVE  \A u : Table!Lookup(u)' \in {Table!Lookup(u), Nothing}
      BY <2>3, TableReleases
    <2>4. ASSUME NEW w \in Workers, NEW u \in UIDs, Table!Acquire(w, u)
          PROVE  \A v : Table!Lookup(v)' \in {Table!Lookup(v), Nothing}
      BY <2>4, TableAcquires
    <2> QED
      BY <1>3, <1>4, <2>1, <2>2, <2>3, <2>4 DEF Table!Next
  <1> QED
    BY <1>2, <1>5

-----------------------------------------------------------------------------
(* What a step does to the queue.                                          *)
LEMMA QueueStep ==
    ASSUME TypeOK, [Next]_vars
    PROVE  \/ UNCHANGED <<queue, connected>>
           \/ /\ queue # <<>> /\ queue' = Tail(queue)
              /\ Head(queue).kind # "lost" /\ UNCHANGED brickletVars
           \/ Reconnect
           \/ /\ connected /\ UNCHANGED connected
              /\ \E m \in Messages : m.kind # "lost" /\ queue' = Append(queue, m)
           \/ Lose
  <1> USE DEF TypeOK
  <1>1. CASE AddSensor \/ RemoveSensor \/ DispatchReport
    BY <1>1 DEF AddSensor, RemoveSensor, DispatchReport, Pop
  <1>2. CASE Register \/ Get \/ SetThreshold \/ Publish \/ ReceiverReleases \/ Enumerate \/ UNCHANGED vars
    BY <1>2 DEF Register, Get, SetThreshold, Publish, ReceiverReleases, Enumerate, vars, brickletVars
  <1>3. ASSUME NEW u \in UIDs, Change(u) PROVE UNCHANGED <<queue, connected>>
    BY <1>3 DEF Change
  <1>4. ASSUME NEW u \in UIDs, Plug(u) \/ Unplug(u) \/ Announce(u)
        PROVE  \/ UNCHANGED <<queue, connected>>
               \/ /\ connected /\ UNCHANGED connected
                  /\ \E m \in Messages : m.kind # "lost" /\ queue' = Append(queue, m)
    <2>1. /\ UNCHANGED connected
          /\ \E kind \in {"available", "disconnected"} : Receive(kind, u)
      BY <1>4 DEF Plug, Unplug, Announce
    <2>2. PICK kind \in {"available", "disconnected"} : Receive(kind, u)
      BY <2>1
    <2>3. Message(kind, u, 0) \in Messages /\ Message(kind, u, 0).kind # "lost"
      BY EnumerationMessage
    <2> QED
      BY <2>1, <2>2, <2>3 DEF Receive
  <1>5. ASSUME NEW u \in UIDs, Report(u)
        PROVE  \/ UNCHANGED <<queue, connected>>
               \/ /\ connected /\ UNCHANGED connected
                  /\ \E m \in Messages : m.kind # "lost" /\ queue' = Append(queue, m)
    <2>1. Message("report", u, value[u]) \in Messages /\ Message("report", u, value[u]).kind # "lost"
      BY MessageTypes DEF Message
    <2> QED
      BY <1>5, <2>1 DEF Report, brickletVars
  <1> QED
    BY <1>1, <1>2, <1>3, <1>4, <1>5 DEF Next, CallbackThread, Bricklets

LEMMA LossStep ==
    ASSUME TypeOK, LossInv, [Next]_vars
    PROVE  LossInv' /\ (Reconnect => Len(queue)' = 0)
  <1>0. queue \in Seq(Messages) /\ value \in [UIDs -> 0 .. MaxValue]
    BY DEF TypeOK
  <1> USE <1>0
  <1>1. CASE UNCHANGED <<queue, connected>> /\ ~Reconnect
    BY <1>1 DEF LossInv
  <1>2. CASE /\ queue # <<>> /\ queue' = Tail(queue)
             /\ Head(queue).kind # "lost" /\ UNCHANGED brickletVars /\ ~Reconnect
    <2>1. UNCHANGED connected /\ queue[1].kind # "lost"
      BY <1>2, Taken DEF brickletVars
    <2>2. CASE connected
      BY <1>2, <2>1, <2>2, Taken DEF LossInv
    <2>3. CASE ~connected
      <3>0. \A i \in 1 .. Len(queue) : queue[i].kind = "lost" <=> i = Len(queue)
        BY <2>3 DEF LossInv
      <3>1. /\ Len(queue) \in Nat /\ Len(queue)' = Len(queue) - 1 /\ Len(queue) # 1 /\ Len(queue) # 0
            /\ queue' \in Seq(Messages)
        <4>1. /\ Len(queue) \in Nat \ {0} /\ Len(queue)' = Len(queue) - 1
              /\ queue' \in Seq(Messages)
          BY <1>2, Taken
        <4>2. 1 \in 1 .. Len(queue)
          BY <4>1
        <4>3. Len(queue) # 1
          BY <2>1, <3>0, <4>2
        <4> QED
          BY <4>1, <4>3
      <3>2. queue' # <<>>
        BY <3>1, EmptySeq, LenProperties
      <3>3. \A i \in 1 .. Len(queue)' : queue'[i].kind = "lost" <=> i = Len(queue)'
        <4> SUFFICES ASSUME NEW i \in 1 .. Len(queue)'
                     PROVE  queue'[i].kind = "lost" <=> i = Len(queue)'
          OBVIOUS
        <4>1. i + 1 \in 1 .. Len(queue) /\ queue'[i] = queue[i + 1]
          BY <1>2, Taken
        <4>2. queue[i + 1].kind = "lost" <=> i + 1 = Len(queue)
          BY <3>0, <4>1
        <4>3. i + 1 = Len(queue) <=> i = Len(queue)'
          BY <3>1
        <4> QED
          BY <4>1, <4>2, <4>3
      <3> QED
        BY <1>2, <2>1, <2>3, <3>2, <3>3 DEF LossInv
    <2> QED
      BY <2>2, <2>3
  <1>3. CASE Reconnect
    <2>1. queue # <<>> /\ queue' = Tail(queue) /\ Head(queue).kind = "lost" /\ connected' = TRUE
      BY <1>3 DEF Reconnect, Pop
    <2>2. Len(queue) = 1
      <3>1. Len(queue) \in Nat \ {0} /\ queue[1].kind = "lost"
        BY <2>1, Taken
      <3>2. 1 \in 1 .. Len(queue)
        BY <3>1
      <3>3. ~connected
        BY <3>1, <3>2 DEF LossInv
      <3>4. \A i \in 1 .. Len(queue) : queue[i].kind = "lost" <=> i = Len(queue)
        BY <3>3 DEF LossInv
      <3> QED
        BY <3>1, <3>2, <3>4
    <2>3. Len(queue)' = 0
      BY <2>1, <2>2, Taken
    <2> QED
      BY <2>1, <2>3 DEF LossInv
  <1>4. CASE /\ connected /\ UNCHANGED connected /\ ~Reconnect
             /\ \E m \in Messages : m.kind # "lost" /\ queue' = Append(queue, m)
    BY <1>4, Put DEF LossInv
  <1>5. CASE Lose
    <2>1. /\ queue' = Append(queue, Message("lost", Nothing, 0)) /\ connected /\ connected' = FALSE
          /\ Message("lost", Nothing, 0) \in Messages /\ Message("lost", Nothing, 0).kind = "lost"
      BY <1>5, MessageTypes DEF Lose, Message
    <2>2. queue' # <<>>
      BY <2>1, AppendProperties
    <2>3. ~Reconnect
      BY <2>1 DEF Reconnect
    <2> QED
      BY <2>1, <2>2, <2>3, Put DEF LossInv
  <1> QED
    BY <1>1, <1>2, <1>3, <1>4, <1>5, QueueStep

LEMMA PlugStep ==
    ASSUME TypeOK, LossInv, PlugInv, [Next]_vars
    PROVE  PlugInv'
  <1>0. queue \in Seq(Messages) /\ value \in [UIDs -> 0 .. MaxValue]
    BY DEF TypeOK
  <1> USE <1>0
  <1> DEFINE Back(j, u) == \/ \E k \in j + 1 .. Len(queue)' : Is(k, "available", u)'
                           \/ ~connected' /\ u \in missed'
  <1> SUFFICES ASSUME NEW u \in plugged', NEW j \in 1 .. Len(queue)', Is(j, "disconnected", u)'
               PROVE  Back(j, u)
    BY DEF PlugInv
  <1>1. CASE u \in plugged /\ UNCHANGED <<queue, connected>> /\ (~connected => missed \subseteq missed')
    BY <1>1 DEF PlugInv, Is
  <1>2. ASSUME NEW m \in Messages, queue' = Append(queue, m), connected,
               ~(m.kind = "disconnected" /\ m.uid = u), u \in plugged
        PROVE  Back(j, u)
    <2>1. j \in 1 .. Len(queue) /\ Is(j, "disconnected", u)
      BY <1>2, Put DEF Is
    <2>2. PICK k \in j + 1 .. Len(queue) : Is(k, "available", u)
      BY <1>2, <2>1 DEF PlugInv
    <2>3. k \in j + 1 .. Len(queue)' /\ Is(k, "available", u)'
      BY <1>2, <2>1, <2>2, Put DEF Is
    <2> QED
      BY <2>3
  <1>3. ASSUME NEW m \in Messages, queue' = Append(queue, m), m.kind = "available", m.uid = u
        PROVE  Back(j, u)
    <2>1. j \in 1 .. Len(queue)
      BY <1>3, Put DEF Is
    <2>2. PICK k : k = Len(queue) + 1 /\ k = Len(queue)' /\ queue'[k] = m
      BY <1>3, Put
    <2>3. k \in j + 1 .. Len(queue)' /\ Is(k, "available", u)'
      BY <1>3, <2>1, <2>2, LenProperties DEF Is
    <2> QED
      BY <2>3
  <1>4. CASE queue # <<>> /\ queue' = Tail(queue) /\ UNCHANGED brickletVars
    <2>1. j + 1 \in 1 .. Len(queue) /\ Is(j + 1, "disconnected", u) /\ UNCHANGED <<plugged, connected, missed>>
      BY <1>4, Taken DEF Is, brickletVars
    <2>2. CASE ~connected /\ u \in missed
      BY <2>1, <2>2
    <2>3. CASE \E k \in j + 1 + 1 .. Len(queue) : Is(k, "available", u)
      <3>1. PICK k \in j + 1 + 1 .. Len(queue) : Is(k, "available", u)
        BY <2>3
      <3>2. k - 1 \in j + 1 .. Len(queue)' /\ k - 1 \in 1 .. Len(queue)' /\ (k - 1) + 1 = k
        BY <1>4, Taken
      <3>3. Is(k - 1, "available", u)'
        BY <1>4, <3>1, <3>2, Taken DEF Is
      <3> QED
        BY <3>2, <3>3
    <2> QED
      BY <2>1, <2>2, <2>3 DEF PlugInv
  <1>5. CASE Reconnect
    BY <1>5, LossStep
  <1>6. CASE AddSensor \/ RemoveSensor \/ DispatchReport
    BY <1>4, <1>6 DEF AddSensor, RemoveSensor, DispatchReport, Pop
  <1>7. CASE Register \/ Get \/ SetThreshold \/ Publish \/ ReceiverReleases \/ Enumerate \/ UNCHANGED vars
    <2>1. UNCHANGED <<queue, connected, plugged>> /\ (~connected => missed \subseteq missed')
      BY <1>7 DEF Register, Get, SetThreshold, Publish, ReceiverReleases, Enumerate, vars, brickletVars
    <2> QED
      BY <1>1, <2>1
  <1>8. ASSUME NEW v \in UIDs, Change(v) PROVE Back(j, u)
    BY <1>1, <1>8 DEF Change
  <1>9. ASSUME NEW v \in UIDs, Plug(v) PROVE Back(j, u)
    <2>1. plugged' = plugged \cup {v} /\ UNCHANGED connected /\ Receive("available", v)
      BY <1>9 DEF Plug
    <2>2. CASE ~connected
      BY <1>1, <2>1, <2>2 DEF Receive
    <2>3. CASE connected
      <3>1. /\ Message("available", v, 0) \in Messages
            /\ Message("available", v, 0).kind = "available" /\ Message("available", v, 0).uid = v
        BY EnumerationMessage
      <3> QED
        BY <1>2, <1>3, <2>1, <2>3, <3>1 DEF Receive
    <2> QED
      BY <2>1, <2>2, <2>3
  <1>10. ASSUME NEW v \in UIDs, Unplug(v) PROVE Back(j, u)
    <2>1. plugged' = plugged \ {v} /\ UNCHANGED connected /\ Receive("disconnected", v)
      BY <1>10 DEF Unplug
    <2>2. CASE ~connected
      BY <1>1, <2>1, <2>2 DEF Receive
    <2>3. CASE connected
      <3>1. /\ Message("disconnected", v, 0) \in Messages /\ Message("disconnected", v, 0).uid = v
        BY EnumerationMessage
      <3> QED
        BY <1>2, <2>1, <2>3, <3>1 DEF Receive
    <2> QED
      BY <2>1, <2>2, <2>3
  <1>11. ASSUME NEW v \in UIDs, Announce(v) PROVE Back(j, u)
    <2>1. UNCHANGED <<plugged, connected>> /\ Receive("available", v)
      BY <1>11 DEF Announce
    <2>2. CASE ~connected
      BY <1>1, <2>1, <2>2 DEF Receive
    <2>3. CASE connected
      <3>1. /\ Message("available", v, 0) \in Messages /\ Message("available", v, 0).kind = "available"
        BY EnumerationMessage
      <3> QED
        BY <1>2, <2>1, <2>3, <3>1 DEF Receive
    <2> QED
      BY <2>1, <2>2, <2>3
  <1>12. ASSUME NEW v \in UIDs, Report(v) PROVE Back(j, u)
    <2>1. /\ UNCHANGED <<plugged, connected, missed>> /\ connected
          /\ queue' = queue \/ queue' = Append(queue, Message("report", v, value[v]))
      BY <1>12 DEF Report, brickletVars
    <2>2. Message("report", v, value[v]) \in Messages /\ Message("report", v, value[v]).kind = "report"
      BY MessageTypes DEF Message
    <2> QED
      BY <1>1, <1>2, <2>1, <2>2
  <1>13. CASE Lose
    <2>1. Message("lost", Nothing, 0) \in Messages /\ Message("lost", Nothing, 0).kind = "lost"
      BY MessageTypes DEF Message
    <2> QED
      BY <1>2, <1>13, <2>1 DEF Lose
  <1> QED
    BY <1>5, <1>6, <1>7, <1>8, <1>9, <1>10, <1>11, <1>12, <1>13 DEF Next, CallbackThread, Bricklets

(* A report comes from a bricklet that is there.                           *)
LEMMA OrderStep ==
    ASSUME TypeOK, LossInv, PlugInv, OrderInv, [Next]_vars
    PROVE  OrderInv'
  <1>0. queue \in Seq(Messages) /\ value \in [UIDs -> 0 .. MaxValue]
    BY DEF TypeOK
  <1> USE <1>0
  <1> SUFFICES ASSUME NEW u \in UIDs, NEW i \in 1 .. Len(queue)', NEW j \in 1 .. Len(queue)',
                      j < i, Is(j, "disconnected", u)', Is(i, "report", u)'
               PROVE  \E k \in j + 1 .. i - 1 : Is(k, "available", u)'
    BY DEF OrderInv
  <1>1. CASE UNCHANGED queue
    BY <1>1 DEF OrderInv, Is
  <1>2. ASSUME NEW m \in Messages, queue' = Append(queue, m),
               m.kind = "report" /\ m.uid = u => connected /\ u \in plugged
        PROVE  \E k \in j + 1 .. i - 1 : Is(k, "available", u)'
    <2>1. Len(queue) \in Nat /\ Len(queue)' = Len(queue) + 1
      BY <1>2, Put
    <2>2. j \in 1 .. Len(queue) /\ Is(j, "disconnected", u)
      BY <1>2, <2>1, Put DEF Is
    <2>3. PICK k \in j + 1 .. i - 1 : Is(k, "available", u)
      <3>1. CASE i = Len(queue) + 1
        <4>1. m.kind = "report" /\ m.uid = u
          BY <1>2, <3>1, Put DEF Is
        <4>2. PICK k \in j + 1 .. Len(queue) : Is(k, "available", u)
          BY <1>2, <2>2, <4>1 DEF PlugInv
        <4> QED
          BY <2>1, <3>1, <4>2
      <3>2. CASE i # Len(queue) + 1
        <4>1. i \in 1 .. Len(queue) /\ Is(i, "report", u)
          <5>1. i \in 1 .. Len(queue)
            BY <2>1, <3>2
          <5>2. queue'[i] = queue[i]
            BY <1>2, <5>1, Put
          <5> QED
            BY <5>1, <5>2 DEF Is
        <4> QED
          BY <2>2, <4>1 DEF OrderInv
      <3> QED
        BY <3>1, <3>2
    <2>4. k \in 1 .. Len(queue)
      BY <2>1
    <2> QED
      BY <1>2, <2>3, <2>4, Put DEF Is
  <1>3. CASE queue # <<>> /\ queue' = Tail(queue)
    <2>1. /\ i + 1 \in 1 .. Len(queue) /\ Is(i + 1, "report", u)
          /\ j + 1 \in 1 .. Len(queue) /\ Is(j + 1, "disconnected", u)
          /\ j + 1 < i + 1
      BY <1>3, Taken DEF Is
    <2>2. PICK k \in j + 1 + 1 .. i + 1 - 1 : Is(k, "available", u)
      BY <2>1 DEF OrderInv
    <2>3. k - 1 \in j + 1 .. i - 1 /\ k - 1 \in 1 .. Len(queue)' /\ (k - 1) + 1 = k
      BY <1>3, Taken
    <2>4. Is(k - 1, "available", u)'
      BY <1>3, <2>2, <2>3, Taken DEF Is
    <2> QED
      BY <2>3, <2>4
  <1>4. CASE AddSensor \/ RemoveSensor \/ DispatchReport \/ Reconnect
    BY <1>3, <1>4 DEF AddSensor, RemoveSensor, DispatchReport, Reconnect, Pop
  <1>5. CASE Register \/ Get \/ SetThreshold \/ Publish \/ ReceiverReleases \/ Enumerate \/ UNCHANGED vars
    BY <1>1, <1>5 DEF Register, Get, SetThreshold, Publish, ReceiverReleases, Enumerate, vars
  <1>6. ASSUME NEW v \in UIDs, Change(v) PROVE UNCHANGED queue
    BY <1>6 DEF Change
  <1>7. ASSUME NEW v \in UIDs, Plug(v) \/ Unplug(v) \/ Announce(v)
        PROVE  \E k \in j + 1 .. i - 1 : Is(k, "available", u)'
    <2>1. PICK kind \in {"available", "disconnected"} : Receive(kind, v)
      BY <1>7 DEF Plug, Unplug, Announce
    <2>2. Message(kind, v, 0) \in Messages /\ Message(kind, v, 0).kind # "report"
      BY EnumerationMessage
    <2> QED
      BY <1>1, <1>2, <2>1, <2>2 DEF Receive
  <1>8. ASSUME NEW v \in UIDs, Report(v)
        PROVE  \E k \in j + 1 .. i - 1 : Is(k, "available", u)'
    <2>1. Message("report", v, value[v]) \in Messages /\ Message("report", v, value[v]).uid = v
      BY MessageTypes DEF Message
    <2> QED
      BY <1>1, <1>2, <1>8, <2>1 DEF Report
  <1>9. CASE Lose
    <2>1. Message("lost", Nothing, 0) \in Messages /\ Message("lost", Nothing, 0).kind = "lost"
      BY MessageTypes DEF Message
    <2> QED
      BY <1>2, <1>9, <2>1 DEF Lose
  <1> QED
    BY <1>1, <1>4, <1>5, <1>6, <1>7, <1>8, <1>9 DEF Next, CallbackThread, Bricklets

LEMMA OrphanStep ==
    ASSUME TypeOK, Table!DeviceInv, uid = [d \in Devices |-> d[1]], ThreadInv, HandlerInv,
           LossInv, OrderInv, OrphanInv, [Next]_vars
    PROVE  OrphanInv'
  <1> USE DEF TypeOK
  <1> SUFFICES ASSUME NEW u \in UIDs, Table!Lookup(u)' # Nothing, Table!Lookup(u)' \notin owned',
                      NEW i \in 1 .. Len(queue)', Is(i, "report", u)'
               PROVE  \E k \in 1 .. i - 1 : Is(k, "available", u)'
    BY DEF OrphanInv
  <1>1. CASE /\ UNCHANGED queue /\ UNCHANGED owned
             /\ Table!Lookup(u)' = Table!Lookup(u)
    BY <1>1 DEF OrphanInv, Is
  <1>2. ASSUME NEW m \in Messages, queue' = Append(queue, m), UNCHANGED owned,
               Table!Lookup(u)' = Table!Lookup(u), ~(m.kind = "report" /\ m.uid = u)
        PROVE  \E k \in 1 .. i - 1 : Is(k, "available", u)'
    <2>1. i \in 1 .. Len(queue) /\ Is(i, "report", u)
      BY <1>2, Put DEF Is
    <2>2. PICK k \in 1 .. i - 1 : Is(k, "available", u)
      BY <1>2, <2>1 DEF OrphanInv
    <2>3. k \in 1 .. Len(queue)
      BY <2>1, Put
    <2> QED
      BY <1>2, <2>2, <2>3, Put DEF Is
  <1>3. ASSUME queue # <<>>, queue' = Tail(queue), ~Is(1, "available", u),
               NEW k \in 1 .. i, Is(k, "available", u)
        PROVE  \E l \in 1 .. i - 1 : Is(l, "available", u)'
    <2>1. k - 1 \in 1 .. i - 1 /\ k - 1 \in 1 .. Len(queue)' /\ (k - 1) + 1 = k
      BY <1>3, Taken
    <2>2. Is(k - 1, "available", u)'
      BY <1>3, <2>1, Taken DEF Is
    <2> QED
      BY <2>1, <2>2
  <1>4. ASSUME queue # <<>>, queue' = Tail(queue)
        PROVE  /\ i + 1 \in 1 .. Len(queue) /\ Is(i + 1, "report", u)
               /\ i \in Nat /\ (i + 1) - 1 = i /\ Head(queue) = queue[1]
               /\ Len(queue) \in Nat \ {0} /\ 1 \in 1 .. Len(queue)
    BY <1>4, Taken DEF Is
  <1>5. CASE AddSensor
    <2>1. /\ queue # <<>> /\ queue' = Tail(queue) /\ Head(queue).kind = "available"
          /\ Table!Create(NextDevice(Head(queue).uid)) /\ NextDevice(Head(queue).uid) \in Devices
      BY <1>5 DEF AddSensor, Pop
    <2> DEFINE d == NextDevice(Head(queue).uid)
    <2>2. uid[d] = Head(queue).uid /\ d \in owned' /\ owned \subseteq owned'
      BY <2>1 DEF NextDevice, Table!Create
    <2>3. Table!Lookup(u)' = IF u = uid[d] THEN d ELSE Table!Lookup(u)
      BY <2>1, TableCreates
    <2> HIDE DEF d
    <2>4. u # Head(queue).uid /\ Table!Lookup(u)' = Table!Lookup(u) /\ Table!Lookup(u) \notin owned
      BY <2>2, <2>3
    <2>5. PICK k \in 1 .. i : Is(k, "available", u)
      BY <1>4, <2>1, <2>4 DEF OrphanInv
    <2>6. ~Is(1, "available", u)
      BY <1>4, <2>1, <2>4 DEF Is
    <2> QED
      BY <1>3, <2>1, <2>5, <2>6
  <1>6. ~AddSensor => Table!Lookup(u)' = Table!Lookup(u) /\ (RemoveSensor \/ UNCHANGED owned)
    BY TableEffect
  <1>7. CASE RemoveSensor /\ ~AddSensor
    <2>1. /\ queue # <<>> /\ queue' = Tail(queue) /\ Head(queue).kind = "disconnected"
      BY <1>7 DEF RemoveSensor, Pop
    <2>2. ~Is(1, "available", u)
      BY <1>4, <2>1 DEF Is
    <2>3. CASE Table!Lookup(u) \notin owned
      <3>1. PICK k \in 1 .. i : Is(k, "available", u)
        BY <1>4, <1>6, <1>7, <2>1, <2>3 DEF OrphanInv
      <3> QED
        BY <1>3, <2>1, <2>2, <3>1
    <2>4. CASE Table!Lookup(u) \in owned
      <3>1. ~UNCHANGED tableVars
        BY <1>6, <1>7, <2>4 DEF tableVars
      <3>2. PICK n : /\ n = FirstSensor(Head(queue).uid) /\ Table!GiveUp(m_sensors[n])
                     /\ m_sensors[n][1] = Head(queue).uid
        BY <1>7, <3>1, FirstSensorFound DEF RemoveSensor
      <3>3. Table!Lookup(u) = m_sensors[n]
        BY <1>6, <1>7, <2>4, <3>2 DEF Table!GiveUp
      <3>4. Head(queue).uid = u
        BY <1>6, <1>7, <3>2, <3>3, LookedUp
      <3>5. Is(1, "disconnected", u)
        BY <1>4, <2>1, <3>4 DEF Is
      <3>6. 1 < i + 1
        BY <1>4, <2>1
      <3>7. PICK k \in 1 + 1 .. (i + 1) - 1 : Is(k, "available", u)
        BY <1>4, <2>1, <3>5, <3>6 DEF OrderInv
      <3>8. k \in 1 .. i
        BY <1>4, <2>1
      <3> QED
        BY <1>3, <2>1, <2>2, <3>7, <3>8
    <2> QED
      BY <2>3, <2>4
  <1>8. CASE (DispatchReport \/ Reconnect) /\ ~AddSensor
    <2>1. /\ queue # <<>> /\ queue' = Tail(queue) /\ Head(queue).kind # "available"
      BY <1>8 DEF DispatchReport, Reconnect, Pop
    <2>2. ~Is(1, "available", u)
      BY <1>4, <2>1 DEF Is
    <2>3. UNCHANGED owned
      BY <1>8 DEF DispatchReport, Reconnect, tableVars, Table!Acquire
    <2>4. PICK k \in 1 .. i : Is(k, "available", u)
      BY <1>4, <1>6, <1>8, <2>1, <2>3 DEF OrphanInv
    <2> QED
      BY <1>3, <2>1, <2>2, <2>4
  <1>9. CASE /\ ~AddSensor
             /\ Register \/ Get \/ SetThreshold \/ Publish \/ ReceiverReleases \/ Enumerate \/ UNCHANGED vars
    <2>1. UNCHANGED queue
      BY <1>9 DEF Register, Get, SetThreshold, Publish, ReceiverReleases, Enumerate, vars
    <2>2. UNCHANGED owned
      BY <1>9, AnsweredOnly
         DEF Register, Get, SetThreshold, Publish, ReceiverReleases, Enumerate, vars, tableVars, Table!Release
    <2> QED
      BY <1>1, <1>6, <1>9, <2>1, <2>2
  <1>10. ASSUME NEW v \in UIDs, Change(v), ~AddSensor PROVE \E k \in 1 .. i - 1 : Is(k, "available", u)'
    BY <1>1, <1>6, <1>10 DEF Change, tableVars
  <1>11. ASSUME NEW v \in UIDs, Plug(v) \/ Unplug(v) \/ Announce(v), ~AddSensor
         PROVE  \E k \in 1 .. i - 1 : Is(k, "available", u)'
    <2>1. UNCHANGED owned
      BY <1>11 DEF Plug, Unplug, Announce, tableVars
    <2>2. PICK kind \in {"available", "disconnected"} : Receive(kind, v)
      BY <1>11 DEF Plug, Unplug, Announce
    <2>3. Message(kind, v, 0) \in Messages /\ Message(kind, v, 0).kind # "report"
      BY EnumerationMessage
    <2> QED
      BY <1>1, <1>2, <1>6, <1>11, <2>1, <2>2, <2>3 DEF Receive
  <1>12. ASSUME NEW v \in UIDs, Report(v), ~AddSensor PROVE \E k \in 1 .. i - 1 : Is(k, "available", u)'
    <2>1. /\ held[receiver] = Nothing /\ Table!Acquire(receiver, v)
          /\ queue' = queue \/ queue' = Append(queue, Message("report", v, value[v]))
      BY <1>12 DEF Report, Idle
    <2>2. Table!Lookup(v) # Nothing /\ UNCHANGED owned
      BY <2>1 DEF Table!Acquire
    <2>3. Table!Lookup(v) \in owned
      <3>1. Table!Lookup(v) \in made \ freed
        BY <2>2, LookedUp
      <3>2. Table!Lookup(v) \in owned \/ Table!Lookup(v) = held[callback]
        BY <2>1, <2>2, <3>1, Used
      <3> QED
        BY <2>2, <3>2 DEF HandlerInv, ThreadInv
    <2>4. v # u
      BY <1>6, <1>12, <2>2, <2>3
    <2>5. Message("report", v, value[v]) \in Messages /\ Message("report", v, value[v]).uid = v
      BY MessageTypes DEF Message
    <2> QED
      BY <1>1, <1>2, <1>6, <1>12, <2>1, <2>2, <2>4, <2>5
  <1>13. CASE Lose /\ ~AddSensor
    <2>1. Message("lost", Nothing, 0) \in Messages /\ Message("lost", Nothing, 0).kind = "lost"
      BY MessageTypes DEF Message
    <2> QED
      BY <1>2, <1>6, <1>13, <2>1 DEF Lose, tableVars
  <1> QED
    BY <1>5, <1>7, <1>8, <1>9, <1>10, <1>11, <1>12, <1>13 DEF Next, CallbackThread, Bricklets

(* A sensor is in the list as long as it handles a report.                 *)
LEMMA HandlerStep ==
    ASSUME TypeOK, Table!DeviceInv, uid = [d \in Devices |-> d[1]], ThreadInv, HandlerInv,
           OrphanInv, [Next]_vars
    PROVE  HandlerInv'
  <1> USE DEF TypeOK
  <1>1. CASE DispatchReport
    <2>1. /\ pc = "idle" /\ queue # <<>> /\ Head(queue).kind = "report" /\ UNCHANGED m_sensors
      BY <1>1 DEF DispatchReport, Pop
    <2> DEFINE u == Head(queue).uid
    <2>2. Head(queue) = queue[1] /\ Len(queue) \in Nat \ {0}
      BY <2>1, HeadTailProperties, LenProperties, EmptySeq
    <2>3. 1 \in 1 .. Len(queue) /\ Is(1, "report", u)
      BY <2>1, <2>2 DEF Is
    <2>4. held[callback] = Nothing /\ owned = Range(m_sensors)
      BY <2>1 DEF ThreadInv, SettingUp
    <2>5. CASE UNCHANGED tableVars
      BY <2>1, <2>4, <2>5 DEF HandlerInv, tableVars
    <2>6. CASE ~UNCHANGED tableVars
      <3>1. Table!Acquire(callback, u) /\ Table!Lookup(u) # Nothing
        BY <1>1, <2>6 DEF DispatchReport
      <3>2. u \in UIDs
        BY <3>1, LookedUp
      <3>3. Table!Lookup(u) \in owned
        BY <2>3, <3>1, <3>2 DEF OrphanInv
      <3>4. held'[callback] = Table!Lookup(u)
        BY <3>1 DEF Table!Acquire, Table!TypeOK, Workers
      <3> QED
        BY <2>1, <2>4, <3>3, <3>4 DEF HandlerInv
    <2> QED
      BY <2>5, <2>6
  <1>2. CASE AddSensor \/ RemoveSensor
    <2>1. pc = "idle" /\ UNCHANGED held
      BY <1>2 DEF AddSensor, RemoveSensor, Pop, Table!Create, Table!GiveUp, tableVars
    <2>2. held[callback] = Nothing
      BY <2>1 DEF ThreadInv
    <2> QED
      BY <2>1, <2>2 DEF HandlerInv
  <1>3. CASE Publish
    <2>1. CASE held[callback] = Nothing
      BY <1>3, <2>1 DEF Publish, tableVars, HandlerInv
    <2>2. CASE held[callback] # Nothing
      BY <1>3, <2>2 DEF Publish, Table!Release, Table!TypeOK, Workers, HandlerInv
    <2> QED
      BY <2>1, <2>2
  <1>4. CASE Register \/ Get \/ SetThreshold \/ Reconnect
    <2>1. held'[callback] = held[callback] /\ UNCHANGED m_sensors
      BY <1>4, AnsweredOnly DEF Register, Get, SetThreshold, Reconnect, tableVars, loggerVars
    <2> QED
      BY <2>1 DEF HandlerInv
  <1>5. CASE UNCHANGED loggerVars /\ held'[callback] = held[callback]
    BY <1>5 DEF HandlerInv, loggerVars
  <1> QED
    BY <1>1, <1>2, <1>3, <1>4, <1>5, OtherStep DEF CallbackThread

-----------------------------------------------------------------------------
(* An announcement stays to be handled until a sensor is added for it; only *)
(* SetThreshold makes up for what the connection has lost.                  *)
LEMMA ExpectedKept ==
    ASSUME TypeOK, NEW u, Expected(u), u \in due => u \in due',
           \/ UNCHANGED queue
           \/ \E m \in Messages : queue' = Append(queue, m)
           \/ queue # <<>> /\ queue' = Tail(queue) /\ ~Is(1, "available", u)
    PROVE  Expected(u)'
  <1>0. queue \in Seq(Messages) /\ value \in [UIDs -> 0 .. MaxValue]
    BY DEF TypeOK
  <1> USE <1>0
  <1>1. CASE u \in due
    BY <1>1 DEF Expected
  <1>2. CASE u \notin due
    <2>1. PICK i \in 1 .. Len(queue) : Is(i, "available", u)
      BY <1>2 DEF Expected
    <2>2. CASE UNCHANGED queue
      BY <2>1, <2>2 DEF Expected, Is
    <2>3. CASE \E m \in Messages : queue' = Append(queue, m)
      <3>1. i \in 1 .. Len(queue)' /\ Is(i, "available", u)'
        BY <2>1, <2>3, Put DEF Is
      <3> QED
        BY <3>1 DEF Expected
    <2>4. CASE queue # <<>> /\ queue' = Tail(queue) /\ ~Is(1, "available", u)
      <3>1. i # 1
        BY <2>1, <2>4
      <3>2. i - 1 \in 1 .. Len(queue)' /\ (i - 1) + 1 = i
        <4>1. Len(queue) \in Nat /\ Len(queue)' = Len(queue) - 1
          BY <2>4, Taken
        <4> QED
          BY <3>1, <4>1
      <3>3. Is(i - 1, "available", u)'
        BY <2>1, <2>4, <3>2, Taken DEF Is
      <3> QED
        BY <3>2, <3>3 DEF Expected
    <2> QED
      BY <2>2, <2>3, <2>4
  <1> QED
    BY <1>1, <1>2

LEMMA ExpectedStep ==
    ASSUME TypeOK, [Next]_vars, NEW u \in plugged' \ missed'
    PROVE  \/ Expected(u)'
           \/ AddSensor /\ Head(queue).uid = u
           \/ /\ ~Expected(u) /\ u \in plugged
              /\ u \in missed => SetThreshold /\ current[1] = u /\ connected
  <1>0. queue \in Seq(Messages) /\ value \in [UIDs -> 0 .. MaxValue]
    BY DEF TypeOK
  <1> USE <1>0
  <1>1. CASE /\ UNCHANGED <<plugged, missed, due>>
             /\ \/ UNCHANGED queue
                \/ \E m \in Messages : queue' = Append(queue, m)
                \/ queue # <<>> /\ queue' = Tail(queue) /\ ~Is(1, "available", u)
    BY <1>1, ExpectedKept
  <1>2. CASE AddSensor
    <2>1. queue # <<>> /\ queue' = Tail(queue) /\ UNCHANGED <<plugged, missed, due>>
      BY <1>2 DEF AddSensor, Pop, brickletVars
    <2>2. Head(queue).uid # u => ~Is(1, "available", u)
      BY <2>1, Taken DEF Is
    <2> QED
      BY <1>1, <1>2, <2>1, <2>2
  <1>3. CASE RemoveSensor \/ DispatchReport \/ Reconnect
    <2>1. /\ queue # <<>> /\ queue' = Tail(queue) /\ UNCHANGED <<plugged, missed, due>>
          /\ Head(queue).kind # "available"
      BY <1>3 DEF RemoveSensor, DispatchReport, Reconnect, Pop, brickletVars
    <2>2. ~Is(1, "available", u)
      BY <2>1, Taken DEF Is
    <2> QED
      BY <1>1, <2>1, <2>2
  <1>4. CASE Register \/ Get \/ Publish \/ ReceiverReleases \/ UNCHANGED vars
    <2>1. UNCHANGED <<plugged, missed, due, queue>>
      BY <1>4 DEF Register, Get, Publish, ReceiverReleases, vars, brickletVars
    <2> QED
      BY <1>1, <2>1
  <1>5. CASE SetThreshold
    <2>1. /\ UNCHANGED <<plugged, due, queue>>
          /\ u \in missed => current[1] = u /\ connected
      BY <1>5 DEF SetThreshold
    <2> QED
      BY <1>5, <2>1, ExpectedKept
  <1>6. CASE Enumerate
    BY <1>6 DEF Enumerate, Expected
  <1>7. ASSUME NEW v \in UIDs, Change(v)
        PROVE  UNCHANGED <<plugged, missed, due, queue>>
    BY <1>7 DEF Change
  <1>8. ASSUME NEW v \in UIDs, NEW kind \in {"available", "disconnected"}, Receive(kind, v)
        PROVE  /\ missed \subseteq missed'
               /\ \/ UNCHANGED queue /\ ~connected
                  \/ \E m \in Messages : queue' = Append(queue, m)
               /\ u = v /\ kind = "available" => Expected(u)'
    <2>1. Message(kind, v, 0) \in Messages /\ Message(kind, v, 0).kind = kind /\ Message(kind, v, 0).uid = v
      BY EnumerationMessage
    <2>2. CASE connected
      <3>1. queue' = Append(queue, Message(kind, v, 0)) /\ UNCHANGED missed
        BY <1>8, <2>2 DEF Receive
      <3>2. CASE u = v /\ kind = "available"
        <4>1. PICK k : k \in 1 .. Len(queue)' /\ queue'[k] = Message(kind, v, 0)
          BY <2>1, <3>1, Put
        <4>2. Is(k, "available", u)'
          BY <2>1, <3>2, <4>1 DEF Is
        <4> QED
          BY <2>1, <3>1, <4>1, <4>2 DEF Expected
      <3> QED
        BY <2>1, <3>1, <3>2
    <2>3. CASE ~connected
      BY <1>8, <2>3 DEF Receive
    <2> QED
      BY <2>2, <2>3
  <1>9. ASSUME NEW v \in UIDs, Plug(v) \/ Unplug(v) \/ Announce(v)
        PROVE  \/ Expected(u)'
               \/ ~Expected(u) /\ u \in plugged /\ u \notin missed
    <2>1. PICK kind \in {"available", "disconnected"} : Receive(kind, v) /\ (kind = "disconnected" <=> Unplug(v))
      BY <1>9 DEF Plug, Unplug, Announce
    <2>2. u \notin missed /\ (u = v /\ kind = "available" => Expected(u)')
      BY <1>8, <2>1
    <2>3. u = v => ~Unplug(v)
      BY DEF Unplug
    <2>4. u # v => u \in plugged /\ (u \in due => u \in due')
      BY <1>9 DEF Plug, Unplug, Announce
    <2>5. UNCHANGED queue \/ \E m \in Messages : queue' = Append(queue, m)
      BY <1>8, <2>1
    <2> QED
      BY <2>1, <2>2, <2>3, <2>4, <2>5, ExpectedKept
  <1>10. ASSUME NEW v \in UIDs, Report(v)
         PROVE  /\ UNCHANGED <<plugged, missed, due>>
                /\ UNCHANGED queue \/ \E m \in Messages : queue' = Append(queue, m)
    <2>1. Message("report", v, value[v]) \in Messages
      BY MessageTypes
    <2> QED
      BY <1>10, <2>1 DEF Report, brickletVars
  <1>11. CASE Lose
    <2>1. Message("lost", Nothing, 0) \in Messages
      BY MessageTypes
    <2> QED
      BY <1>1, <1>11, <2>1 DEF Lose
  <1> QED
    BY <1>1, <1>2, <1>3, <1>4, <1>5, <1>6, <1>7, <1>9, <1>10, <1>11 DEF Next, CallbackThread, Bricklets

(* A bricklet whose announcements are all handled has a sensor.            *)
LEMMA ServedStep ==
    ASSUME TypeOK, Table!DeviceInv, uid = [d \in Devices |-> d[1]], ThreadInv, HandlerInv,
           LossInv, PlugInv, ServedInv, [Next]_vars
    PROVE  ServedInv'
  <1> USE DEF TypeOK
  <1> SUFFICES ASSUME NEW u \in plugged' \ missed', ~Expected(u)'
               PROVE  \E d \in owned' : d[1] = u
    BY DEF ServedInv
  <1>1. CASE AddSensor /\ Head(queue).uid = u
    <2>1. NextDevice(u) \in owned' /\ NextDevice(u)[1] = u
      BY <1>1 DEF AddSensor, Table!Create, NextDevice
    <2> QED
      BY <2>1
  <1>2. CASE u \in missed /\ SetThreshold /\ current[1] = u
    <2>1. current # Nothing /\ UNCHANGED owned
      BY <1>2, AnsweredOnly DEF SetThreshold, ThreadInv
    <2>2. current \in owned
      BY <2>1 DEF ThreadInv, HandlerInv, SettingUp
    <2> QED
      BY <1>2, <2>1, <2>2
  <1>3. CASE ~Expected(u) /\ u \in plugged /\ u \notin missed
    <2>1. PICK d \in owned : d[1] = u
      BY <1>3 DEF ServedInv
    <2>2. CASE d \in owned'
      BY <2>1, <2>2
    <2>3. CASE d \notin owned'
      <3>1. RemoveSensor
        <4>1. AddSensor => owned \subseteq owned'
          BY DEF AddSensor, Table!Create
        <4> QED
          BY <2>3, <4>1, TableEffect
      <3>2. /\ queue # <<>> /\ queue' = Tail(queue) /\ Head(queue).kind = "disconnected"
            /\ ~UNCHANGED tableVars
        BY <2>3, <3>1 DEF RemoveSensor, Pop, tableVars
      <3>3. PICK n : /\ n = FirstSensor(Head(queue).uid) /\ Table!GiveUp(m_sensors[n])
                     /\ m_sensors[n][1] = Head(queue).uid
        BY <3>1, <3>2, FirstSensorFound DEF RemoveSensor
      <3>4. Head(queue).uid = u
        BY <2>1, <2>3, <3>3 DEF Table!GiveUp
      <3>5. 1 \in 1 .. Len(queue) /\ Is(1, "disconnected", u)
        BY <3>2, <3>4, Taken DEF Is
      <3>6. \E k \in 1 + 1 .. Len(queue) : Is(k, "available", u)
        BY <1>3, <3>5 DEF PlugInv
      <3> QED
        BY <1>3, <3>6 DEF Expected
    <2> QED
      BY <2>2, <2>3
  <1> QED
    BY <1>1, <1>2, <1>3, ExpectedStep

(* The last value published has set the threshold.                         *)
LEMMA ArmedStep ==
    ASSUME TypeOK, Table!DeviceInv, uid = [d \in Devices |-> d[1]], ThreadInv, ArmedInv,
           [Next]_vars
    PROVE  ArmedInv'
  <1> USE DEF TypeOK
  <1> SUFFICES ASSUME NEW u \in plugged' \ missed', ~Expected(u)'
               PROVE  \/ At(u, {"register", "get", "update"})'
                      \/ At(u, {"publish"})' /\ threshold'[u] = Around(newValue')
                      \/ /\ ~At(u, {"register", "get", "update", "publish"})'
                         /\ published'[u] # Nothing /\ threshold'[u] = Around(published'[u])
    BY DEF ArmedInv, Around
  <1> DEFINE Setting == At(u, {"register", "get", "update"})
             Set == At(u, {"publish"}) /\ threshold[u] = Around(newValue)
             Done == /\ ~At(u, {"register", "get", "update", "publish"})
                     /\ published[u] # Nothing /\ threshold[u] = Around(published[u])
  <1>u. u \in UIDs
    BY TypeStep
  <1>1. CASE AddSensor /\ Head(queue).uid = u
    <2>1. /\ NextDevice(u) \in Devices /\ NextDevice(u)[1] = u /\ current' = NextDevice(u)
          /\ pc' = "register"
      BY <1>1 DEF AddSensor, NextDevice
    <2>2. current' # Nothing
      BY <2>1, DevicesAssumption
    <2> QED
      BY <2>1, <2>2 DEF At
  <1>2. CASE SetThreshold /\ current[1] = u
    <2>1. current # Nothing /\ pc' = "publish" /\ UNCHANGED <<current, newValue, plugged>>
      BY <1>2 DEF SetThreshold, ThreadInv
    <2>2. connected /\ u \in plugged
      BY <1>2 DEF SetThreshold
    <2>3. threshold'[u] = Around(newValue)
      BY <1>2, <1>u, <2>2 DEF SetThreshold
    <2> QED
      BY <1>2, <2>1, <2>3 DEF At, Around
  <1>3. CASE /\ ~Expected(u) /\ u \in plugged /\ u \notin missed
             /\ ~(AddSensor /\ Head(queue).uid = u) /\ ~(SetThreshold /\ current[1] = u)
    <2>1. Setting \/ Set \/ Done
      BY <1>3 DEF ArmedInv
    <2>2. \A v \in Values : v # Nothing
      BY DevicesAssumption
    <2>3. pc = "idle" => Done
      BY <2>1 DEF ThreadInv, At
    <2>4. CASE AddSensor
      <3>1. /\ current' = NextDevice(Head(queue).uid) /\ UNCHANGED <<threshold, published>>
            /\ NextDevice(Head(queue).uid)[1] # u /\ pc = "idle"
        BY <1>3, <2>4 DEF AddSensor, Pop, brickletVars, NextDevice
      <3> QED
        BY <2>3, <3>1 DEF At, Around
    <2>5. CASE Register \/ Get
      <3>1. /\ UNCHANGED <<current, threshold, published>> /\ pc \in {"register", "get"}
            /\ pc' \in {"get", "update"}
        BY <2>5 DEF Register, Get, brickletVars
      <3> QED
        BY <2>1, <3>1 DEF At, Around
    <2>6. CASE SetThreshold
      <3>1. UNCHANGED <<current, published>> /\ current[1] # u /\ threshold'[u] = threshold[u]
        BY <1>3, <2>6, <1>u DEF SetThreshold
      <3> QED
        BY <2>1, <3>1 DEF At, Around
    <2>7. CASE Publish
      <3>1. /\ current' = Nothing /\ UNCHANGED threshold /\ pc = "publish" /\ current # Nothing
            /\ published' = [published EXCEPT ![current[1]] = newValue]
        BY <2>7 DEF Publish, brickletVars, ThreadInv
      <3>2. CASE current[1] = u
        <4>1. published'[u] = newValue /\ newValue # Nothing
          BY <1>u, <2>2, <3>1, <3>2
        <4>2. threshold[u] = Around(newValue)
          BY <2>1, <3>1, <3>2 DEF At
        <4> QED
          BY <3>1, <4>1, <4>2 DEF At, Around
      <3>3. CASE current[1] # u
        <4>1. published'[u] = published[u] /\ Done
          BY <1>u, <2>1, <3>1, <3>3 DEF At
        <4> QED
          BY <3>1, <4>1 DEF At, Around
      <3> QED
        BY <3>2, <3>3
    <2>8. CASE DispatchReport
      <3>1. pc = "idle" /\ UNCHANGED <<threshold, published>> /\ pc' \in {"idle", "update"}
        BY <2>8 DEF DispatchReport, Pop, brickletVars
      <3>2. CASE Table!Lookup(Head(queue).uid) = Nothing
        <4>1. UNCHANGED <<pc, current>>
          BY <2>8, <3>2 DEF DispatchReport
        <4> QED
          BY <2>3, <3>1, <4>1 DEF At, Around
      <3>3. CASE Table!Lookup(Head(queue).uid) # Nothing
        <4>1. current' # Nothing /\ pc' = "update"
          BY <2>8, <3>3 DEF DispatchReport
        <4> QED
          BY <2>3, <3>1, <4>1 DEF At, Around
      <3> QED
        BY <3>2, <3>3
    <2>9. CASE UNCHANGED <<pc, current, newValue, published>> /\ threshold'[u] = threshold[u]
      BY <2>1, <2>9 DEF At, Around
    <2>10. CASE RemoveSensor \/ Reconnect \/ ReceiverReleases \/ Enumerate \/ Lose \/ UNCHANGED vars
      <3>1. UNCHANGED <<pc, current, newValue, published, threshold>>
        BY <2>10 DEF RemoveSensor, Reconnect, ReceiverReleases, Enumerate, Lose, vars, Pop,
                     brickletVars, loggerVars
      <3> QED
        BY <2>9, <3>1
    <2>11. ASSUME NEW v \in UIDs, Change(v) \/ Plug(v) \/ Unplug(v) \/ Announce(v) \/ Report(v)
           PROVE  UNCHANGED <<pc, current, newValue, published>> /\ threshold'[u] = threshold[u]
      <3>1. UNCHANGED <<pc, current, newValue, published>>
        BY <2>11 DEF Change, Plug, Unplug, Announce, Report, loggerVars
      <3>2. Plug(v) => v # u
        BY <1>3 DEF Plug
      <3>3. threshold'[u] = threshold[u]
        BY <1>u, <2>11, <3>2 DEF Change, Plug, Unplug, Announce, Report, brickletVars
      <3> QED
        BY <3>1, <3>3
    <2> QED
      BY <2>4, <2>5, <2>6, <2>7, <2>8, <2>9, <2>10, <2>11 DEF Next, CallbackThread, Bricklets
  <1> QED
    BY <1>1, <1>2, <1>3, ExpectedStep

-----------------------------------------------------------------------------
LEMMA LoggerInit == Init => LoggerInv /\ T!EntryKept
  <1> SUFFICES ASSUME Init PROVE LoggerInv /\ T!EntryKept
    OBVIOUS
  <1>1. Table!TypeOK /\ Table!DeviceInv
    BY TableInit DEF Init
  <1>2. owned = {} /\ made = {} /\ held = [w \in Workers |-> Nothing]
    BY DEF Init, Table!Init
  <1>3. TypeOK
    <2>1. <<>> \in Seq(Messages) /\ <<>> \in Seq(Devices)
      BY EmptySeq
    <2>2. 0 \in Values /\ Off \in [min : Values, max : Values] /\ 0 \in 0 .. MaxEvents
      BY LoggerAssumption DEF Values, Off
    <2>3. threshold \in [UIDs -> [min : Values, max : Values]]
      BY <2>2 DEF Init
    <2> HIDE DEF Off, Values, Messages, Devices
    <2> QED
      BY <1>1, <2>1, <2>2, <2>3 DEF Init, TypeOK
  <1>4. Len(queue) = 0 /\ Len(m_sensors) = 0 /\ Range(m_sensors) = {}
    <2>1. queue = <<>> /\ m_sensors = <<>>
      BY DEF Init
    <2> QED
      BY <2>1 DEF Range
  <1>5. ThreadInv /\ HandlerInv
    BY <1>2, <1>4 DEF Init, ThreadInv, HandlerInv, SettingUp, Workers
  <1>6. LossInv /\ PlugInv /\ OrderInv /\ OrphanInv
    BY <1>4 DEF Init, LossInv, PlugInv, OrderInv, OrphanInv
  <1>7. ServedInv /\ ArmedInv
    BY DEF Init, ServedInv, ArmedInv, Expected
  <1>8. T!EntryKept
    BY <1>2 DEF T!EntryKept
  <1> QED
    BY <1>1, <1>3, <1>5, <1>6, <1>7, <1>8 DEF Init, LoggerInv

LEMMA LoggerStep == LoggerInv /\ T!EntryKept /\ [Next]_vars => LoggerInv' /\ T!EntryKept'
  <1> SUFFICES ASSUME LoggerInv, T!EntryKept, [Next]_vars PROVE LoggerInv' /\ T!EntryKept'
    OBVIOUS
  <1> USE DEF LoggerInv
  <1>1. UNCHANGED uid /\ Table!DeviceInv' /\ T!EntryKept'
    BY TableKept
  <1>2. TypeOK'
    BY TypeStep
  <1>3. ThreadInv' /\ HandlerInv'
    BY ThreadStep, HandlerStep
  <1>4. LossInv' /\ PlugInv' /\ OrderInv' /\ OrphanInv'
    BY LossStep, PlugStep, OrderStep, OrphanStep
  <1>5. ServedInv' /\ ArmedInv'
    BY ServedStep, ArmedStep
  <1> QED
    BY <1>1, <1>2, <1>3, <1>4, <1>5

(* Every state of the logger satisfies its invariant.                      *)
THEOREM LoggerCorrect == Spec => [](LoggerInv /\ T!EntryKept)
  BY LoggerInit, LoggerStep, PTL DEF Spec

(* The logger uses the device table as the table expects it: it creates no *)
(* device twice, gives up none that is not its own, and releases only what *)
(* a thread has acquired.                                                  *)
THEOREM LoggerImplementsTable == Spec => Table!Spec
  <1>1. Init => Table!Init
    BY DEF Init
  <1>2. LoggerInv /\ [Next]_vars => [Table!Next]_(Table!vars)
    BY TableStep DEF LoggerInv, tableVars, Table!vars
  <1> QED
    BY <1>1, <1>2, LoggerCorrect, PTL DEF Spec, Table!Spec

(* A bricklet whose messages are all handled reports as soon as its value  *)
(* leaves the tolerance around the published one (SensorLogger.cpp,        *)
(* temperatureUpdated), whatever was plugged, enumerated or lost before.   *)
THEOREM ArmedCorrect == Spec => []Armed
  <1>1. LoggerInv => Armed
    <2> SUFFICES ASSUME LoggerInv, NEW u \in plugged \ missed, Handled(u)
                 PROVE  published[u] # Nothing /\ threshold[u] = Around(published[u])
      BY DEF Armed
    <2>1. DOMAIN queue = 1 .. Len(queue)
      BY LenProperties DEF LoggerInv, TypeOK
    <2>2. ~Expected(u)
      BY <2>1 DEF Handled, Expected, Is
    <2>3. current = Nothing \/ current[1] # u
      BY DEF Handled
    <2> QED
      BY <2>2, <2>3 DEF LoggerInv, ArmedInv, At
  <1> QED
    BY <1>1, LoggerCorrect, PTL

(* No callback reaches a sensor that was destroyed (SensorLogger.cpp,      *)
(* enumerationCallback erasing while reports are under way).               *)
THEOREM SensorAliveCorrect == Spec => []SensorAlive
  <1>1. LoggerInv => SensorAlive
    <2> SUFFICES ASSUME LoggerInv, NEW i \in DOMAIN table
                 PROVE  table[i].value \in Range(m_sensors) \cup {current, held[receiver]}
      BY DEF SensorAlive, LoggerInv, HandlerInv
    <2>1. table[i].value \in made \ freed
      BY DEF LoggerInv, Table!DeviceInv, Table!TableInv, Table!NoDangling
    <2>2. \/ table[i].value \in owned
          \/ table[i].value = held[callback] \/ table[i].value = held[receiver]
      BY <2>1, Used DEF LoggerInv, TypeOK
    <2>3. table[i].value \in Devices
      BY <2>1 DEF LoggerInv, TypeOK, Table!TypeOK
    <2>4. held[callback] # Nothing => held[callback] = current
      BY DEF LoggerInv, ThreadInv
    <2>5. table[i].value # Nothing
      BY <2>3, DevicesAssumption
    <2> QED
      BY <2>2, <2>4, <2>5 DEF LoggerInv, ThreadInv
  <1> QED
    BY <1>1, LoggerCorrect, PTL

(* A bricklet that is there is served by a sensor in the list, unless a    *)
(* sensor of it with a second device was destroyed.                        *)
THEOREM TrackedCorrect == Spec => []Tracked
  <1>1. LoggerInv /\ T!EntryKept => Tracked
    <2> SUFFICES ASSUME LoggerInv, T!EntryKept,
                        NEW u \in plugged \ missed, Handled(u), Undisturbed(u)
                 PROVE  Table!Lookup(u) \in Range(m_sensors)
      BY DEF Tracked
    <2> USE SameAssumption, SameTable DEF LoggerInv, TypeOK
    <2>1. DOMAIN queue = 1 .. Len(queue)
      BY LenProperties
    <2>2. ~Expected(u)
      BY <2>1 DEF Handled, Expected, Is
    <2>3. current = Nothing \/ current[1] # u
      BY DEF Handled
    <2>4. PICK d \in owned : d[1] = u
      BY <2>2 DEF ServedInv
    <2>5. d \in made \ freed /\ d \in Devices /\ uid[d] = u
      BY <2>4, UsedAlive DEF Table!TypeOK
    <2>6. \A e \in owned : e[1] = u => e \in Range(m_sensors)
      BY <2>3 DEF ThreadInv, SettingUp
    <2>7. CASE DevicesOf(u) \subseteq owned
      <3>1. \A e \in made : uid[e] = u => e[1] = u /\ e \in owned
        BY <2>7 DEF DevicesOf, Table!TypeOK
      <3>2. \A e \in made : uid[e] = uid[d] => e \notin freed
        BY <2>5, <3>1, UsedAlive
      <3>3. T!HasKey(u)
        BY <2>5, <3>2 DEF T!EntryKept
      <3>4. PICK i \in 1 .. Len(table) : table[i].key = u
        BY <3>3, T!LookupNone
      <3>5. table[i].value = T!Lookup(u) /\ table[i].value \in Devices
        BY <3>4, T!LookupEntry, T!TableType DEF T!DeviceInv
      <3>6. Table!Lookup(u) # Nothing
        BY <3>5, DevicesAssumption
      <3>7. Table!Lookup(u) \in DevicesOf(u)
        BY <3>6, LookedUp DEF DevicesOf
      <3> QED
        BY <2>6, <2>7, <3>7 DEF DevicesOf
    <2>8. CASE DevicesOf(u) \cap twins = {}
      <3>1. d \notin twins
        BY <2>4, <2>5, <2>8 DEF DevicesOf
      <3>2. PICK i \in 1 .. Len(table) : table[i].value = d
        BY <2>5, <3>1 DEF Table!DeviceInv, Table!TableInv
      <3>3. table[i].key = u /\ T!Lookup(table[i].key) = d
        BY <2>5, <3>2, T!LookupEntry DEF T!DeviceInv, Table!DeviceInv, Table!TableInv
      <3> QED
        BY <2>4, <2>6, <3>3
    <2> QED
      BY <2>7, <2>8 DEF Undisturbed
  <1> QED
    BY <1>1, LoggerCorrect, PTL

=============================================================================
