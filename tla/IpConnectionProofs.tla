------------------------- MODULE IpConnectionProofs -------------------------
(***************************************************************************)
(* Theorems about the connection lifecycle, for every number of threads,   *)
(* sockets and contexts and every bound.                                   *)
(***************************************************************************)
EXTENDS IpConnectionProperties, SequenceTheorems, FiniteSetTheorems, TLAPS

(* NULL is neither a caller nor a socket, and no context is a user.         *)
LEMMA NullIsNoCaller == Null \notin Callers /\ Null \notin Sockets /\ Contexts \cap Users = {}
  BY UsersAssumption, BoundsAssumption DEF Null, Contexts, Sockets, Callers

(* Outside of API functions a thread is idle or in its callback loop.       *)
LEMMA BaseType == \A t \in Callers : Base(t) \in {"idle", "callback"}
  BY DEF Base

(* Where an item sends the callback thread.                                 *)
LEMMA AfterPopType ==
    \A c \in Contexts, i \in Items : AfterPop(c, i) \in {"exited", "loop", "lost", "callback"}
  BY DEF AfterPop

(* The items the code queues are items.                                     *)
LEMMA ItemType ==
    /\ \A k \in ItemKinds : Item(k) \in Items
    /\ \A n \in 0 .. MaxSockets : Lost(n) \in Items
  BY BoundsAssumption DEF Item, Lost, Items, ItemKinds

(* What the shared steps do to the types of what they assign.               *)
LEMMA GotoType ==
    ASSUME TypeCall, NEW t \in Callers, NEW w \in CallerStates, Goto(t, w)
    PROVE  pc' \in [Callers -> CallerStates]
  BY DEF TypeCall, Goto

(* A thread that leaves a function keeps pc and op well typed.              *)
LEMMA LeaveType ==
    ASSUME TypeCall, NEW t \in Callers, NEW w \in CallerStates, Leave(t, w)
    PROVE  pc' \in [Callers -> CallerStates] /\ op' \in [Callers -> Ops]
  BY GotoType DEF TypeCall, Leave, Ops

(* Putting an item keeps the queues well typed.                             *)
LEMMA PutType ==
    ASSUME TypeContext, NEW c \in Contexts \cup {Null}, NEW i \in Items, Put(c, i)
    PROVE  queue' \in [Contexts -> Seq(Items)]
  <1>1. CASE c \in Contexts
    <2>1. Append(queue[c], i) \in Seq(Items)
      BY <1>1 DEF TypeContext
    <2> QED
      BY <1>1, <2>1 DEF TypeContext, Put
  <1>2. CASE c \notin Contexts
    BY <1>2 DEF TypeContext, Put
  <1> QED
    BY <1>1, <1>2

(* What a worker finds is a callback context, and what it puts into one     *)
(* keeps the queues well typed.                                             *)
LEMMA FindQueueType ==
    ASSUME TypeOK, NEW w \in Workers, FindQueue(w)
    PROVE  into' \in [Workers -> Contexts \cup {Null}]
  BY DEF TypeOK, TypeWorker, TypeContext, FindQueue

LEMMA PutFoundType ==
    ASSUME TypeOK, NEW w \in Workers, NEW i \in Items, PutFound(w, i)
    PROVE  queue' \in [Contexts -> Seq(Items)] /\ into' \in [Workers -> Contexts \cup {Null}]
  <1>1. into[w] \in Contexts \cup {Null}
    BY DEF TypeOK, TypeWorker
  <1> QED
    BY <1>1, PutType DEF TypeOK, TypeWorker, PutFound

(* The failure path of ipcon_connect_unlocked keeps the types.              *)
LEMMA ConnectFailedType ==
    ASSUME TypeOK, NEW t \in Callers, ConnectFailed(t)
    PROVE  TypeContext' /\ TypeCall' /\ socket_mutex' \in Callers \cup {Null}
  <1>1. CASE op[t] = "reconnect"
    BY <1>1, LeaveType DEF ConnectFailed, TypeOK, TypeCall, TypeContext, TypeNet, context, CallerStates
  <1>2. CASE op[t] # "reconnect"
    <2>1. ExitCallbackThread(t)
      BY <1>2 DEF ConnectFailed
    <2>2. queue' \in [Contexts -> Seq(Items)]
      BY <2>1, PutType, ItemType DEF ExitCallbackThread, TypeOK, TypeContext, ItemKinds
    <2>3. Base(t) \in CallerStates
      BY BaseType DEF CallerStates
    <2>4. CASE callback = t
      BY <2>1, <2>2, <2>3, <2>4, LeaveType
      DEF ExitCallbackThread, TypeOK, TypeCall, TypeContext, TypeNet
    <2>5. CASE callback # t
      <3>1. pc' \in [Callers -> CallerStates]
        BY <2>1, <2>5, GotoType DEF ExitCallbackThread, TypeOK, CallerStates
      <3> QED
        BY <2>1, <2>2, <2>5, <3>1 DEF ExitCallbackThread, TypeOK, TypeCall, TypeContext, TypeNet
    <2> QED
      BY <2>4, <2>5
  <1> QED
    BY <1>1, <1>2

(* Destroying the socket keeps the network state well typed.                *)
LEMMA DestroySocketType ==
    ASSUME TypeNet, DestroySocket, socket_mutex' \in Callers \cup {Null}
    PROVE  TypeNet'
  BY DEF TypeNet, DestroySocket

(* Every variable starts with its type.                                     *)
LEMMA InitType == Init => TypeOK
  <1> SUFFICES ASSUME Init PROVE TypeOK
    OBVIOUS
  <1>0. 0 \in 0 .. MaxSockets /\ 0 \in 0 .. MaxContexts
    BY BoundsAssumption
  <1>1. TypeNet
    BY <1>0 DEF Init, TypeNet
  <1>5. TypeAuto
    BY CallsAssumption DEF Init, TypeAuto
  <1>6. TypeBound
    BY DEF Init, TypeBound
  <1>2. TypeContext
    BY ItemType, BoundsAssumption DEF Init, TypeContext, ItemKinds
  <1>3. TypeCall
    BY DEF Init, TypeCall, CallerStates, Ops
  <1>4. TypeWorker
    BY <1>0 DEF Init, TypeWorker, WorkerStates
  <1> QED
    BY <1>1, <1>2, <1>3, <1>4, <1>5, <1>6 DEF TypeOK

(* Every step keeps the types.                                              *)
LEMMA TypeStep == TypeOK /\ [Next]_vars => TypeOK'
  <1> SUFFICES ASSUME TypeOK, [Next]_vars PROVE TypeOK'
    OBVIOUS
  <1> USE DEF TypeOK, net, auto, context, call, worker, probe, bound, fate
  <1>1. ASSUME NEW t \in Callers, CallerNext(t) PROVE TypeOK'
    <2> Base(t) \in CallerStates
      BY BaseType DEF CallerStates
    <2>1. ASSUME NEW f \in Functions, Call(t, f) PROVE TypeOK'
      <3>1. TypeCall'
        BY <2>1, GotoType DEF Call, CallerStates, TypeCall, Ops
      <3> QED
        BY <2>1, <3>1 DEF Call, MayCall, TypeNet, TypeAuto, TypeContext, TypeWorker, TypeBound
    <2>2. ASSUME NEW b \in BOOLEAN, SetAutoReconnect(t, b) PROVE TypeOK'
      BY <2>2 DEF SetAutoReconnect, MayCall, TypeNet, TypeAuto, TypeContext, TypeCall, TypeWorker, TypeBound
    <2>3. CASE TakeMutex(t)
      <3> USE DEF Enter
      <3>1. CASE ReturnAtOnce(t)
        <4>1. TypeCall'
          BY <3>1, LeaveType DEF ReturnAtOnce, TypeCall
        <4> QED
          BY <3>1, <4>1 DEF ReturnAtOnce, TypeNet, TypeAuto, TypeContext, TypeWorker, TypeBound
      <3>2. CASE BeginConnect(t)
        <4>1. TypeCall'
          BY <3>2, GotoType DEF BeginConnect, TypeCall, CallerStates
        <4> QED
          BY <3>2, <4>1 DEF BeginConnect, TypeNet, TypeAuto, TypeContext, TypeWorker, TypeBound
      <3>3. CASE NotConnected(t)
        <4>1. TypeCall'
          BY <3>3, LeaveType DEF NotConnected, TypeCall
        <4> QED
          BY <3>3, <4>1 DEF NotConnected, TypeNet, TypeAuto, TypeContext, TypeWorker, TypeBound
      <3>4. CASE AbortPending(t)
        <4>1. TypeCall'
          BY <3>4, GotoType DEF AbortPending, TakeContext, TypeCall, TypeContext, CallerStates
        <4> QED
          BY <3>4, <4>1 DEF AbortPending, TakeContext, TypeNet, TypeAuto, TypeContext, TypeWorker, TypeBound
      <3>5. CASE BeginDisconnect(t)
        <4>1. TypeCall'
          BY <3>5, GotoType DEF BeginDisconnect, StopProbe, TypeCall, CallerStates
        <4> QED
          BY <3>5, <4>1 DEF BeginDisconnect, StopProbe, TypeNet, TypeAuto, TypeContext, TypeWorker, TypeBound
      <3>6. CASE SendOk(t)
        <4>1. TypeCall'
          BY <3>6, LeaveType DEF SendOk, TypeCall
        <4> QED
          BY <3>6, <4>1 DEF SendOk, TypeNet, TypeAuto, TypeContext, TypeWorker, TypeBound
      <3>7. CASE SendFails(t)
        <4>1. TypeCall'
          BY <3>7, GotoType DEF SendFails, StopProbe, TypeCall, CallerStates
        <4> QED
          BY <3>7, <4>1 DEF SendFails, StopProbe, TypeNet, TypeAuto, TypeContext, TypeWorker, TypeBound
      <3> QED
        BY <2>3, <3>1, <3>2, <3>3, <3>4, <3>5, <3>6, <3>7 DEF TakeMutex
    <2>4. CASE Advance(t)
      <3>1. CASE CreateContext(t)
        <4>1. TypeCall'
          BY <3>1 DEF CreateContext, TypeCall, CallerStates, Goto, Callers
        <4>2. TypeContext'
          BY <3>1, BoundsAssumption DEF CreateContext, TypeContext, Contexts
        <4> QED
          BY <3>1, <4>1, <4>2 DEF CreateContext, TypeNet, TypeAuto, TypeWorker, TypeBound
      <3>2. CASE CreateContextFails(t)
        <4>1. TypeCall'
          BY <3>2, LeaveType DEF CreateContextFails, TypeCall, CallerStates
        <4> QED
          BY <3>2, <4>1 DEF CreateContextFails, TypeNet, TypeAuto, TypeContext, TypeWorker, TypeBound
      <3>3. CASE ConnectFails(t)
        <4>1. TypeCall'
          BY <3>3, ConnectFailedType DEF ConnectFails
        <4>2. TypeContext'
          BY <3>3, ConnectFailedType DEF ConnectFails
        <4>3. TypeNet'
          BY <3>3, ConnectFailedType DEF ConnectFails, TypeNet
        <4> QED
          BY <3>3, <4>1, <4>2, <4>3 DEF ConnectFails, TypeAuto, TypeWorker, TypeBound
      <3>4. CASE ConnectOk(t)
        <4>1. TypeCall'
          BY <3>4, GotoType DEF ConnectOk, TypeCall, CallerStates
        <4>2. TypeNet'
          BY <3>4, BoundsAssumption DEF ConnectOk, TypeNet, Sockets
        <4>3. TypeWorker'
          BY <3>4 DEF ConnectOk, TypeWorker, WorkerStates
        <4> QED
          BY <3>4, <4>1, <4>2, <4>3 DEF ConnectOk, TypeAuto, TypeContext, TypeBound
      <3>5. CASE ProbeThreadFails(t)
        <4>1. TypeCall'
          BY <3>5, ConnectFailedType DEF ProbeThreadFails
        <4>2. TypeContext'
          BY <3>5, ConnectFailedType DEF ProbeThreadFails
        <4>3. TypeNet'
          BY <3>5, ConnectFailedType, BoundsAssumption DEF ProbeThreadFails, TypeNet, Sockets
        <4>4. TypeBound'
          BY <3>5 DEF ProbeThreadFails, TypeBound
        <4>5. TypeAuto' /\ TypeWorker'
          BY <3>5 DEF ProbeThreadFails, TypeAuto, TypeWorker
        <4> QED
          BY <4>1, <4>2, <4>3, <4>4, <4>5
      <3>6. CASE StartReceiver(t)
        <4>1. TypeCall'
          BY <3>6, GotoType DEF StartReceiver, TypeCall, CallerStates
        <4>2. TypeWorker'
          BY <3>6 DEF StartReceiver, TypeWorker, WorkerStates
        <4> QED
          BY <3>6, <4>1, <4>2 DEF StartReceiver, TypeNet, TypeAuto, TypeContext, TypeBound
      <3>7. CASE ReceiveThreadFails(t)
        <4>1. TypeCall'
          BY <3>7, GotoType DEF ReceiveThreadFails, TypeCall, CallerStates, StopProbe
        <4>2. TypeBound'
          BY <3>7 DEF ReceiveThreadFails, TypeBound
        <4>3. TypeNet' /\ TypeAuto' /\ TypeContext' /\ TypeWorker'
          BY <3>7 DEF ReceiveThreadFails, StopProbe, TypeNet, TypeAuto, TypeContext, TypeWorker
        <4> QED
          BY <4>1, <4>2, <4>3
      <3>8. CASE StoreFlags(t)
        <4>1. TypeCall'
          BY <3>8, GotoType DEF StoreFlags, TypeCall, CallerStates
        <4> QED
          BY <3>8, <4>1 DEF StoreFlags, TypeNet, TypeAuto, TypeContext, TypeWorker, TypeBound
      <3>9. CASE Announce(t)
        <4>1. TypeCall'
          BY <3>9, LeaveType DEF Announce, TypeCall, CallerStates
        <4>2. TypeContext'
          BY <3>9, PutType, ItemType DEF Announce, TypeContext, ItemKinds
        <4> QED
          BY <3>9, <4>1, <4>2 DEF Announce, TypeNet, TypeAuto, TypeWorker, TypeBound
      <3>10. CASE JoinProbe(t)
        <4>1. TypeCall'
          BY <3>10, GotoType DEF JoinProbe, TypeCall, CallerStates
        <4>2. TypeNet' /\ TypeContext'
          BY <3>10 DEF JoinProbe, TypeNet, TypeContext
        <4> QED
          BY <3>10, <4>1, <4>2 DEF JoinProbe, TypeAuto, TypeWorker, TypeBound
      <3>11. CASE JoinReceive(t)
        <4>1. TypeCall'
          BY <3>11, GotoType DEF JoinReceive, TypeCall, CallerStates
        <4> QED
          BY <3>11, <4>1 DEF JoinReceive, TypeNet, TypeAuto, TypeContext, TypeWorker, TypeBound
      <3>12. CASE Close(t)
        <4>1. CASE op[t] \in Disconnects /\ socket_mutex' = Null /\ TakeContext(t)
          <5>1. TypeCall'
            BY <4>1, GotoType DEF TakeContext, TypeCall, TypeContext, CallerStates
          <5> QED
            BY <3>12, <4>1, <5>1, DestroySocketType
            DEF Close, TakeContext, TypeAuto, TypeContext, TypeWorker, TypeBound
        <4>2. CASE op[t] = "send" /\ Put(callback, Lost(0)) /\ socket_mutex' = Null
                   /\ Leave(t, Base(t)) /\ UNCHANGED <<context, target>>
          <5>1. TypeCall'
            BY <4>2, LeaveType DEF TypeCall
          <5>2. TypeContext'
            BY <4>2, PutType, ItemType, BoundsAssumption DEF TypeContext
          <5> QED
            BY <3>12, <4>2, <5>1, <5>2, DestroySocketType DEF Close, TypeAuto, TypeWorker, TypeBound
        <4>3. CASE op[t] = "meta" /\ socket_mutex' = Null
                   /\ Leave(t, Base(t)) /\ UNCHANGED <<context, queue, target>>
          <5>1. TypeCall'
            BY <4>3, LeaveType DEF TypeCall
          <5> QED
            BY <3>12, <4>3, <5>1, DestroySocketType
            DEF Close, TypeAuto, TypeContext, TypeWorker, TypeBound
        <4>4. CASE op[t] \in {"connect", "reconnect"} /\ ConnectFailed(t)
          BY <3>12, <4>4, ConnectFailedType, DestroySocketType DEF Close, TypeAuto, TypeWorker, TypeBound
        <4> QED
          BY <3>12, <4>1, <4>2, <4>3, <4>4 DEF Close
      <3>13. CASE HandOver(t)
        <4>1. TypeCall'
          BY <3>13, GotoType, LeaveType DEF HandOver, TypeCall, CallerStates
        <4>2. TypeContext'
          BY <3>13, ItemType DEF HandOver, TypeContext, TypeCall, ItemKinds
        <4> QED
          BY <3>13, <4>1, <4>2 DEF HandOver, TypeNet, TypeAuto, TypeWorker, TypeBound
      <3>14. CASE JoinCallback(t)
        <4>1. TypeCall'
          BY <3>14, LeaveType DEF JoinCallback, TypeCall
        <4>2. TypeNet'
          BY <3>14, DestroySocketType DEF JoinCallback, TypeNet
        <4> QED
          BY <3>14, <4>1, <4>2 DEF JoinCallback, TypeAuto, TypeContext, TypeWorker, TypeBound
      <3> QED
        BY <2>4, <3>1, <3>2, <3>3, <3>4, <3>5, <3>6, <3>7, <3>8, <3>9, <3>10, <3>11, <3>12, <3>13, <3>14 DEF Advance
    <2> QED
      BY <1>1, <2>1, <2>2, <2>3, <2>4 DEF CallerNext
  <1>2. ASSUME NEW c \in Contexts, TakeMutexInLoop(c) \/ AdvanceLoop(c) PROVE TypeOK'
    <2> c \in Callers /\ Base(c) \in CallerStates
      BY BaseType DEF CallerStates, Callers
    <2>1. CASE Pop(c)
      <3>0. Head(queue[c]) \in Items
        BY <2>1 DEF Pop, TypeContext
      <3>1. TypeCall'
        BY <2>1, <3>0, GotoType, AfterPopType DEF Pop, TypeCall, CallerStates
      <3>2. TypeContext'
        BY <2>1 DEF Pop, TypeContext
      <3> QED
        BY <2>1, <3>1, <3>2 DEF Pop, TypeNet, TypeAuto, TypeWorker, TypeBound
    <2>2. CASE TeardownLost(c)
      <3>1. TypeCall'
        BY <2>2, GotoType DEF TeardownLost, TypeCall, CallerStates, Ops, StopProbe
      <3> QED
        BY <2>2, <3>1 DEF TeardownLost, StopProbe, TypeNet, TypeAuto, TypeContext, TypeWorker, TypeBound
    <2>3. CASE SkipLost(c)
      <3>1. TypeCall'
        BY <2>3, GotoType DEF SkipLost, TypeCall, CallerStates
      <3> QED
        BY <2>3, <3>1 DEF SkipLost, TypeNet, TypeAuto, TypeContext, TypeWorker, TypeBound
    <2>4. CASE CallbackReturns(c)
      <3>1. TypeCall'
        BY <2>4, GotoType DEF CallbackReturns, TypeCall, CallerStates
      <3> QED
        BY <2>4, <3>1 DEF CallbackReturns, TypeNet, TypeAuto, TypeContext, TypeWorker, TypeBound
    <2>5. CASE SetPending(c)
      <3>1. TypeCall'
        BY <2>5, GotoType DEF SetPending, TypeCall, CallerStates
      <3> QED
        BY <2>5, <3>1 DEF SetPending, TypeNet, TypeAuto, TypeContext, TypeWorker, TypeBound
    <2>6. CASE Retry(c)
      <3>1. TypeCall'
        BY <2>6, GotoType DEF Retry, TypeCall, CallerStates, Ops
      <3> QED
        BY <2>6, <3>1 DEF Retry, TypeNet, TypeAuto, TypeContext, TypeWorker, TypeBound
    <2>7. CASE GiveUp(c)
      <3>1. TypeCall'
        BY <2>7, GotoType DEF GiveUp, TypeCall, CallerStates
      <3> QED
        BY <2>7, <3>1 DEF GiveUp, TypeNet, TypeAuto, TypeContext, TypeWorker, TypeBound
    <2> QED
      BY <1>2, <2>1, <2>2, <2>3, <2>4, <2>5, <2>6, <2>7 DEF TakeMutexInLoop, AdvanceLoop
  <1>3. ASSUME NEW s \in Sockets,
               ReceiverStep(s) \/ ReceivePacket(s) \/ ProbeStep(s) \/ LoseConnection(s)
        PROVE  TypeOK'
    <2> <<"receive", s>> \in Workers /\ <<"probe", s>> \in Workers
      BY DEF Workers
    <2>1. CASE ReceiverStart(s)
      <3>1. TypeWorker'
        BY <2>1 DEF ReceiverStart, TypeWorker, WorkerStates, WorkerGoto, TypeNet
      <3> QED
        BY <2>1, <3>1 DEF ReceiverStart, TypeNet, TypeAuto, TypeContext, TypeCall, TypeBound
    <2>2. CASE Receive(s)
      <3>1. TypeWorker'
        BY <2>2 DEF Receive, TypeWorker, WorkerStates, WorkerGoto, TypeNet
      <3> QED
        BY <2>2, <3>1 DEF Receive, TypeNet, TypeAuto, TypeContext, TypeCall, TypeBound
    <2>3. CASE ReceiverStops(s)
      <3>1. TypeWorker'
        BY <2>3 DEF ReceiverStops, TypeWorker, WorkerStates, WorkerGoto
      <3> QED
        BY <2>3, <3>1 DEF ReceiverStops, TypeNet, TypeAuto, TypeContext, TypeCall, TypeBound
    <2>4. CASE ReceiveFails(s)
      <3>1. TypeWorker'
        BY <2>4 DEF ReceiveFails, TypeWorker, WorkerStates, WorkerGoto
      <3> QED
        BY <2>4, <3>1 DEF ReceiveFails, TypeNet, TypeAuto, TypeContext, TypeCall, TypeBound
    <2>5. CASE ReceivePacket(s)
      <3>1. TypeWorker'
        BY <2>5, FindQueueType DEF ReceivePacket, TypeWorker, WorkerStates, WorkerGoto
      <3> QED
        BY <2>5, <3>1 DEF ReceivePacket, TypeNet, TypeAuto, TypeContext, TypeCall, TypeBound
    <2>6. CASE ProbeStops(s)
      <3>1. TypeWorker'
        BY <2>6 DEF ProbeStops, TypeWorker, WorkerStates, WorkerGoto
      <3> QED
        BY <2>6, <3>1 DEF ProbeStops, TypeNet, TypeAuto, TypeContext, TypeCall, TypeBound
    <2>7. CASE ProbeTick(s)
      <3>1. TypeWorker'
        BY <2>7 DEF ProbeTick, TypeWorker, WorkerStates, WorkerGoto
      <3> QED
        BY <2>7, <3>1 DEF ProbeTick, TypeNet, TypeAuto, TypeContext, TypeCall, TypeBound
    <2>8. CASE SendProbe(s)
      <3>1. TypeWorker'
        BY <2>8 DEF SendProbe, TypeWorker, WorkerStates, WorkerGoto
      <3> QED
        BY <2>8, <3>1 DEF SendProbe, TypeNet, TypeAuto, TypeContext, TypeCall, TypeBound
    <2>9. ASSUME NEW w \in Workers, AllowReconnect(w) PROVE TypeOK'
      BY <2>9 DEF AllowReconnect, WorkerGoto, WorkerStates, TypeNet, TypeAuto, TypeContext, TypeCall, TypeWorker, TypeBound
    <2>10. ASSUME NEW w \in Workers, ReportLost(w) PROVE TypeOK'
      <3>1. rid[w[2]] \in 0 .. MaxSockets /\ socket_id \in 0 .. MaxSockets
        BY DEF Workers, TypeWorker, TypeNet
      <3>2. PICK i \in Items : PutFound(w, i)
        BY <2>10, <3>1, ItemType DEF ReportLost
      <3> QED
        BY <2>10, <3>2, PutFoundType
        DEF ReportLost, WorkerGoto, WorkerStates, TypeNet, TypeAuto, TypeContext, TypeCall, TypeWorker, TypeBound
    <2>12. ASSUME NEW w \in Workers, FindReportQueue(w) PROVE TypeOK'
      BY <2>12, FindQueueType
      DEF FindReportQueue, WorkerGoto, WorkerStates, TypeNet, TypeAuto, TypeContext, TypeCall, TypeWorker, TypeBound
    <2>13. CASE QueuePacket(s)
      <3>1. PICK i \in Items : PutFound(<<"receive", s>>, i)
        BY <2>13, ItemType DEF QueuePacket, ItemKinds
      <3> QED
        BY <2>13, <3>1, PutFoundType
        DEF QueuePacket, WorkerGoto, WorkerStates, TypeNet, TypeAuto, TypeContext, TypeCall, TypeWorker, TypeBound
    <2>11. CASE LoseConnection(s)
      BY <2>11 DEF LoseConnection, TypeNet, TypeAuto, TypeContext, TypeCall, TypeWorker, TypeBound
    <2> QED
      BY <1>3, <2>1, <2>2, <2>3, <2>4, <2>5, <2>6, <2>7, <2>8, <2>9, <2>10, <2>11, <2>12, <2>13
      DEF ReceiverStep, ProbeStep, ReportStep
  <1>4. CASE Crash
    BY <1>4 DEF Crash, TypeNet, TypeAuto, TypeContext, TypeCall, TypeWorker, TypeBound
  <1>5. CASE UNCHANGED vars
    BY <1>5 DEF vars, TypeNet, TypeAuto, TypeContext, TypeCall, TypeWorker, TypeBound
  <1> QED
    BY <1>1, <1>2, <1>3, <1>4, <1>5 DEF Next

(* Every variable keeps its type, whatever the interleaving and the bounds. *)
THEOREM TypeCorrect == Spec => []TypeOK
  <1> QED
    BY InitType, TypeStep, PTL DEF Spec

-----------------------------------------------------------------------------
(* Nobody holds the mutex and no probe thread runs initially.               *)
LEMMA ProbeInvInit == Init => ProbeInv
  BY DEF Init, ProbeInv, MutexHeld, Holds, SocketCurrent, SocketWhere, ProbeEnded, OpsWhere,
         ProbeSocketLive, Running, Workers

(* Every step keeps who holds the mutex and what it finds there.            *)
LEMMA ProbeInvStep == TypeOK /\ ProbeInv /\ [Next]_vars => ProbeInv'
  <1> SUFFICES ASSUME TypeOK, ProbeInv, [Next]_vars PROVE ProbeInv'
    OBVIOUS
  <1> USE NullIsNoCaller, BaseType
      DEF ProbeInv, MutexHeld, Holds, SocketCurrent, SocketWhere, ProbeEnded, OpsWhere,
          ProbeSocketLive, Running, Goto, Leave, net, call, worker
  <1> pc \in [Callers -> CallerStates] /\ op \in [Callers -> Ops] /\ wpc \in [Workers -> WorkerStates]
      /\ socket_id \in 0 .. MaxSockets /\ conn \in [Sockets -> {"unused", "open", "shut", "closed"}]
      /\ socket \in Sockets \cup {Null}
    BY DEF TypeOK, TypeCall, TypeWorker, TypeNet
  <1>1. ASSUME NEW t \in Callers, CallerNext(t) PROVE ProbeInv'
    <2>1. ASSUME NEW f \in Functions, Call(t, f) PROVE ProbeInv'
      BY <2>1 DEF Call, MayCall
    <2>2. ASSUME NEW b \in BOOLEAN, SetAutoReconnect(t, b) PROVE ProbeInv'
      BY <2>2 DEF SetAutoReconnect, MayCall
    <2>3. CASE ReturnAtOnce(t)
      BY <2>3 DEF ReturnAtOnce, Enter
    <2>4. CASE BeginConnect(t)
      BY <2>4 DEF BeginConnect, Enter
    <2>5. CASE NotConnected(t)
      BY <2>5 DEF NotConnected, Enter
    <2>6. CASE AbortPending(t)
      BY <2>6 DEF AbortPending, Enter, TakeContext
    <2>7. CASE BeginDisconnect(t)
      BY <2>7 DEF BeginDisconnect, Enter, StopProbe
    <2>8. CASE SendOk(t)
      BY <2>8 DEF SendOk, Enter
    <2>9. CASE SendFails(t)
      <3>1. socket # Null
        BY <2>9 DEF SendFails, TypeOK, TypeNet
      <3> QED
        BY <2>9, <3>1 DEF SendFails, Enter, StopProbe
    <2>10. CASE CreateContext(t)
      BY <2>10 DEF CreateContext
    <2>11. CASE CreateContextFails(t)
      BY <2>11 DEF CreateContextFails
    <2>12. CASE ConnectFails(t)
      BY <2>12 DEF ConnectFails, ConnectFailed, ExitCallbackThread
    <2>13. CASE ConnectOk(t)
      <3>1. socket = Null /\ socket' = socket_id + 1 /\ socket' \in Sockets
        BY <2>13, BoundsAssumption DEF ConnectOk, Sockets
      <3>2. MutexHeld' /\ SocketCurrent' /\ SocketWhere' /\ OpsWhere' /\ ProbeEnded'
        BY <2>13, <3>1 DEF ConnectOk
      <3>3. ASSUME NEW s \in Sockets, Running(<<"probe", s>>)' PROVE s = socket_id + 1
        BY <2>13, <3>1, <3>3 DEF ConnectOk, Workers
      <3>4. ProbeSocketLive'
        BY <2>13, <3>1, <3>3 DEF ConnectOk
      <3> QED
        BY <3>2, <3>4
    <2>14. CASE ProbeThreadFails(t)
      <3>1. socket = Null /\ socket_id + 1 \in Sockets
        BY <2>14, BoundsAssumption DEF ProbeThreadFails, Sockets
      <3>2. \A s \in Sockets : ~Running(<<"probe", s>>) /\ ~Running(<<"probe", s>>)'
        BY <2>14, <3>1 DEF ProbeThreadFails
      <3>3. SocketCurrent' /\ ProbeEnded' /\ ProbeSocketLive'
        BY <2>14, <3>1, <3>2 DEF ProbeThreadFails
      <3>4. CASE op[t] = "reconnect"
        BY <2>14, <3>1, <3>3, <3>4 DEF ProbeThreadFails, ConnectFailed
      <3>5. CASE op[t] # "reconnect" /\ callback = t
        BY <2>14, <3>1, <3>3, <3>5 DEF ProbeThreadFails, ConnectFailed, ExitCallbackThread
      <3>6. CASE op[t] # "reconnect" /\ callback # t
        <4>1. \A u \in Callers \ {t} : ~Holds(u)
          BY <2>14 DEF ProbeThreadFails
        <4>2. pc' = [pc EXCEPT ![t] = "joinCallback"] /\ UNCHANGED <<socket_mutex, op>>
          BY <2>14, <3>6 DEF ProbeThreadFails, ConnectFailed, ExitCallbackThread
        <4>3. pc[t] = "attempt"
          BY <2>14 DEF ProbeThreadFails
        <4>4. MutexHeld' /\ SocketWhere' /\ OpsWhere'
          BY <4>1, <4>2, <4>3
        <4> QED
          BY <3>3, <4>4
      <3> QED
        BY <3>4, <3>5, <3>6
    <2>15. CASE StartReceiver(t)
      BY <2>15 DEF StartReceiver
    <2>16. CASE ReceiveThreadFails(t)
      BY <2>16 DEF ReceiveThreadFails, StopProbe
    <2>17. CASE StoreFlags(t)
      BY <2>17 DEF StoreFlags
    <2>18. CASE Announce(t)
      BY <2>18 DEF Announce
    <2>19. CASE JoinProbe(t)
      BY <2>19 DEF JoinProbe, WorkerEnded
    <2>20. CASE JoinReceive(t)
      BY <2>20 DEF JoinReceive
    <2>21. CASE Close(t)
      BY <2>21 DEF Close, ConnectFailed, ExitCallbackThread, TakeContext, DestroySocket
    <2>22. CASE HandOver(t)
      BY <2>22 DEF HandOver, Disconnects
    <2>23. CASE JoinCallback(t)
      BY <2>23 DEF JoinCallback, DestroySocket
    <2> QED
      BY <1>1, <2>1, <2>2, <2>3, <2>4, <2>5, <2>6, <2>7, <2>8, <2>9, <2>10, <2>11, <2>12, <2>13, <2>14, <2>15, <2>16, <2>17, <2>18, <2>19, <2>20, <2>21, <2>22, <2>23 DEF CallerNext, TakeMutex, Advance
  <1>2. ASSUME NEW c \in Contexts, TakeMutexInLoop(c) \/ AdvanceLoop(c) PROVE ProbeInv'
    <2> c \in Callers
      BY DEF Callers
    <2>1. CASE Pop(c)
      BY <2>1 DEF Pop, AfterPop
    <2>2. CASE TeardownLost(c)
      BY <2>2 DEF TeardownLost, StopProbe, StillCurrent
    <2>3. CASE SkipLost(c)
      BY <2>3 DEF SkipLost
    <2>4. CASE CallbackReturns(c)
      BY <2>4 DEF CallbackReturns
    <2>5. CASE SetPending(c)
      BY <2>5 DEF SetPending
    <2>6. CASE Retry(c)
      BY <2>6 DEF Retry
    <2>7. CASE GiveUp(c)
      BY <2>7 DEF GiveUp
    <2> QED
      BY <1>2, <2>1, <2>2, <2>3, <2>4, <2>5, <2>6, <2>7 DEF TakeMutexInLoop, AdvanceLoop
  <1>3. ASSUME NEW s \in Sockets,
               ReceiverStep(s) \/ ReceivePacket(s) \/ ProbeStep(s) \/ LoseConnection(s)
        PROVE  ProbeInv'
    <2>1. CASE ReceiverStart(s)
      BY <2>1 DEF ReceiverStart, WorkerGoto, Workers
    <2>2. CASE Receive(s)
      BY <2>2 DEF Receive, WorkerGoto, Workers
    <2>3. CASE ReceiverStops(s)
      BY <2>3 DEF ReceiverStops, WorkerGoto, Workers
    <2>4. CASE ReceiveFails(s)
      BY <2>4 DEF ReceiveFails, WorkerGoto, Workers
    <2>5. CASE ReceivePacket(s)
      BY <2>5 DEF ReceivePacket, WorkerGoto, Workers
    <2>6. CASE ProbeStops(s)
      BY <2>6 DEF ProbeStops, WorkerGoto, Workers
    <2>7. CASE ProbeTick(s)
      BY <2>7 DEF ProbeTick, WorkerGoto, Workers
    <2>8. CASE SendProbe(s)
      BY <2>8 DEF SendProbe, WorkerGoto, Workers
    <2>9. ASSUME NEW w \in Workers, AllowReconnect(w) PROVE ProbeInv'
      BY <2>9 DEF AllowReconnect, WorkerGoto
    <2>10. ASSUME NEW w \in Workers, ReportLost(w) PROVE ProbeInv'
      BY <2>10 DEF ReportLost, WorkerGoto
    <2>12. ASSUME NEW w \in Workers, FindReportQueue(w) PROVE ProbeInv'
      BY <2>12 DEF FindReportQueue, WorkerGoto
    <2>13. CASE QueuePacket(s)
      BY <2>13 DEF QueuePacket, WorkerGoto, Workers
    <2>11. CASE LoseConnection(s)
      BY <2>11 DEF LoseConnection
    <2> QED
      BY <1>3, <2>1, <2>2, <2>3, <2>4, <2>5, <2>6, <2>7, <2>8, <2>9, <2>10, <2>11, <2>12, <2>13
      DEF ReceiverStep, ProbeStep, ReportStep, Workers
  <1>4. CASE Crash
    BY <1>4 DEF Crash
  <1>5. CASE UNCHANGED vars
    BY <1>5 DEF vars
  <1> QED
    BY <1>1, <1>2, <1>3, <1>4, <1>5 DEF Next

(* The probe thread of a socket only ever uses that socket, open and not    *)
(* freed, although it takes no mutex.                                       *)
THEOREM ProbeCorrect == Spec => []ProbeSocketLive
  <1>1. TypeOK /\ ProbeInv /\ [Next]_vars => TypeOK' /\ ProbeInv'
    BY TypeStep, ProbeInvStep
  <1>2. ProbeInv => ProbeSocketLive
    BY DEF ProbeInv
  <1> QED
    BY InitType, ProbeInvInit, <1>1, <1>2, PTL DEF Spec

-----------------------------------------------------------------------------
(* What is queued stays reported when the last item of a queue is a report. *)
LEMMA PutReports ==
    ASSUME TypeContext, QueueReports, NEW c \in Contexts \cup {Null}, NEW i \in Items, Put(c, i),
           Reported(i.sid)
    PROVE  \A d \in Contexts : \A n \in 1 .. Len(queue'[d]) : Reported(queue'[d][n].sid)
  <1> SUFFICES ASSUME NEW d \in Contexts, NEW n \in 1 .. Len(queue'[d])
               PROVE  Reported(queue'[d][n].sid)
    OBVIOUS
  <1>1. queue \in [Contexts -> Seq(Items)]
    BY DEF TypeContext
  <1>2. CASE d = c
    <2>1. queue'[d] = Append(queue[d], i)
      BY <1>1, <1>2 DEF Put
    <2> QED
      BY <1>1, <2>1 DEF QueueReports
  <1>3. CASE d # c
    BY <1>1, <1>3 DEF Put, QueueReports
  <1> QED
    BY <1>2, <1>3

(* How the socket changes in one step.                                      *)
SocketChanges ==
    /\ lost \subseteq lost'
    /\ \/ UNCHANGED <<socket, socket_id>>
       \/ UNCHANGED socket_id /\ socket' = Null
       \/ socket = Null /\ socket_id' = socket_id + 1 /\ socket' \in {Null, socket_id'}

(* Every step changes the socket in one of these ways.                      *)
LEMMA SocketStep == TypeOK /\ ProbeInv /\ [Next]_vars => SocketChanges
  <1> SUFFICES ASSUME TypeOK, ProbeInv, [Next]_vars PROVE SocketChanges
    OBVIOUS
  <1> USE DEF SocketChanges, net, DestroySocket
  <1>1. ASSUME NEW t \in Callers, CallerNext(t) PROVE SocketChanges
    <2>1. CASE ConnectOk(t)
      BY <2>1 DEF ConnectOk, ProbeInv, SocketWhere
    <2>2. CASE ProbeThreadFails(t)
      BY <2>2 DEF ProbeThreadFails, ProbeInv, SocketWhere
    <2>3. CASE JoinProbe(t) \/ Close(t) \/ JoinCallback(t)
      BY <2>3 DEF JoinProbe, Close, JoinCallback
    <2>4. CASE TakeMutex(t)
      BY <2>4 DEF TakeMutex, ReturnAtOnce, BeginConnect, NotConnected, AbortPending, BeginDisconnect,
                  SendOk, SendFails
    <2>5. ASSUME NEW f \in Functions, Call(t, f) PROVE SocketChanges
      BY <2>5 DEF Call
    <2>6. ASSUME NEW b \in BOOLEAN, SetAutoReconnect(t, b) PROVE SocketChanges
      BY <2>6 DEF SetAutoReconnect
    <2> QED
      BY <1>1, <2>1, <2>2, <2>3, <2>4, <2>5, <2>6
      DEF CallerNext, Advance, CreateContext, CreateContextFails, ConnectFails, StartReceiver,
          ReceiveThreadFails, StoreFlags, Announce, JoinReceive, HandOver
  <1>2. ASSUME NEW c \in Contexts, TakeMutexInLoop(c) \/ AdvanceLoop(c) PROVE SocketChanges
    BY <1>2 DEF TakeMutexInLoop, AdvanceLoop, TeardownLost, SkipLost, Retry, GiveUp, Pop,
                CallbackReturns, SetPending
  <1>3. ASSUME NEW s \in Sockets, ReceiverStep(s) \/ ReceivePacket(s) PROVE SocketChanges
    BY <1>3 DEF ReceiverStep, ReceivePacket, ReceiverStart, Receive, ReceiverStops, ReceiveFails,
                QueuePacket, ReportStep, AllowReconnect, FindReportQueue, ReportLost
  <1>4. ASSUME NEW s \in Sockets, ProbeStep(s) \/ LoseConnection(s) PROVE SocketChanges
    BY <1>4 DEF ProbeStep, LoseConnection, ProbeStops, ProbeTick, SendProbe, ReportStep,
                AllowReconnect, FindReportQueue, ReportLost
  <1>5. CASE Crash \/ UNCHANGED vars
    BY <1>5 DEF Crash, vars
  <1> QED
    BY <1>1, <1>2, <1>3, <1>4, <1>5 DEF Next

(* A report stays one: sockets that are lost or former remain so.           *)
LEMMA StillReported ==
    ASSUME TypeOK, SocketCurrent, SocketChanges
    PROVE  \A id \in 0 .. MaxSockets : Reported(id) => Reported(id)'
  BY DEF TypeOK, TypeNet, Reported, SocketCurrent, Null, Sockets, SocketChanges

(* What is in a queue after two more items were put into it.                *)
LEMMA TwoMore ==
    ASSUME NEW q \in Seq(Items), NEW i \in Items, NEW j \in Items,
           NEW n \in 1 .. Len(q \o <<i, j>>)
    PROVE  \/ n \in 1 .. Len(q) /\ (q \o <<i, j>>)[n] = q[n]
           \/ (q \o <<i, j>>)[n] \in {i, j}
  <1>1. <<i, j>> \in Seq(Items) /\ Len(<<i, j>>) = 2
    OBVIOUS
  <1>2. Len(q \o <<i, j>>) = Len(q) + 2
    BY <1>1, ConcatProperties
  <1>3. (q \o <<i, j>>)[n] = IF n <= Len(q) THEN q[n] ELSE <<i, j>>[n - Len(q)]
    BY <1>1, <1>2, ConcatProperties
  <1>4. CASE n <= Len(q)
    BY <1>2, <1>3, <1>4
  <1>5. CASE n > Len(q)
    <2>1. n - Len(q) \in {1, 2}
      BY <1>2, <1>5
    <2> QED
      BY <1>3, <1>5, <2>1
  <1> QED
    BY <1>4, <1>5

(* A failed ipcon_connect_unlocked queues nothing but an exit item and      *)
(* leaves the socket to its caller.                                         *)
LEMMA ConnectFailedEffect ==
    ASSUME TypeOK, NEW t \in Callers, ConnectFailed(t)
    PROVE  /\ UNCHANGED item
           /\ UNCHANGED queue \/ \E k \in ItemKinds : Put(callback, Item(k))
           /\ pc'[t] \in {"retry", "idle", "callback", "joinCallback"}
           /\ \A u \in Callers \ {t} : pc'[u] = pc[u] /\ op'[u] = op[u]
  BY BaseType DEF TypeOK, TypeCall, ConnectFailed, ExitCallbackThread, context, Goto, Leave, ItemKinds

(* Nothing is reported or closed initially.                                 *)
LEMMA LossInvInit == Init => LossInv
  <1> SUFFICES ASSUME Init PROVE LossInv
    OBVIOUS
  <1>1. Reported(0)
    BY BoundsAssumption DEF Init, Reported
  <1>2. QueueReports /\ ItemReports
    BY <1>1 DEF Init, QueueReports, ItemReports, Item
  <1>3. ReceiverReports /\ ProbeReports
    BY DEF Init, ReceiverReports, ProbeReports, Workers
  <1>4. SocketOpen /\ ClosesOnlyLost
    BY DEF Init, SocketOpen, ClosesOnlyLost
  <1> QED
    BY <1>2, <1>3, <1>4 DEF LossInv

(* Every step keeps that reports name lost or former sockets only.          *)
LEMMA LossInvStep == TypeOK /\ ProbeInv /\ LossInv /\ [Next]_vars => LossInv'
  <1> SUFFICES ASSUME TypeOK, ProbeInv, LossInv, [Next]_vars PROVE LossInv'
    OBVIOUS
  <1>1. \A id \in 0 .. MaxSockets : Reported(id) => Reported(id)'
    BY SocketStep, StillReported DEF ProbeInv
  <1>2. TypeOK'
    BY TypeStep
  (* What a step that leaves the queues, the items or the workers alone keeps. *)
  <1>3. ASSUME \A c \in Contexts : \A n \in 1 .. Len(queue'[c]) : Reported(queue'[c][n].sid)
        PROVE  QueueReports'
    <2>1. ASSUME NEW c \in Contexts, NEW n \in 1 .. Len(queue'[c])
          PROVE  queue'[c][n].sid \in 0 .. MaxSockets
      <3>1. queue'[c] \in Seq(Items)
        BY <1>2 DEF TypeOK, TypeContext
      <3>2. queue'[c][n] \in Items
        BY <3>1
      <3> QED
        BY <3>2 DEF Items
    <2> QED
      BY <1>1, <1>3, <2>1 DEF QueueReports
  <1>4. UNCHANGED queue => QueueReports'
    BY <1>3 DEF LossInv, QueueReports
  <1>5. UNCHANGED item => ItemReports'
    BY <1>1, <1>2 DEF LossInv, ItemReports, TypeOK, TypeContext, Items
  <1>6. ASSUME UNCHANGED <<rid, rsock>>,
               \A r \in Sockets :
                   /\ wpc'[<<"receive", r>>] = "receiving" => wpc[<<"receive", r>>] = "receiving"
                   /\ wpc'[<<"receive", r>>] \in {"gone", "report", "put"}
                          => wpc[<<"receive", r>>] \in {"gone", "report", "put"}
                   /\ wpc'[<<"probe", r>>] \in {"gone", "report", "put"}
                          => wpc[<<"probe", r>>] \in {"gone", "report", "put"}
        PROVE  ReceiverReports' /\ ProbeReports'
    <2>1. socket_id \in Nat /\ socket_id' \in Nat /\ socket_id <= socket_id' /\ lost \subseteq lost'
      BY <1>2, SocketStep, BoundsAssumption DEF SocketChanges, TypeOK, TypeNet
    <2>2. \A r \in Sockets : rid[r] \in 0 .. MaxSockets /\ rsock[r] \in Nat
      BY DEF TypeOK, TypeWorker, Sockets, Null
    <2> SUFFICES ASSUME NEW r \in Sockets
                 PROVE  /\ rid'[r] <= socket_id'
                        /\ wpc'[<<"receive", r>>] = "receiving" => rsock'[r] \in rid'[r] .. socket_id'
                        /\ wpc'[<<"receive", r>>] \in {"gone", "report", "put"} => Reported(rid[r])'
                        /\ wpc'[<<"probe", r>>] \in {"gone", "report", "put"} => r \in lost'
      BY DEF ReceiverReports, ProbeReports
    <2>3. rid' = rid /\ rsock' = rsock
      BY <1>6
    <2>8. rid[r] \in Nat /\ rsock[r] \in Nat
      BY <2>2, BoundsAssumption
    <2>9. rid[r] <= socket_id
      BY DEF LossInv, ReceiverReports
    <2>4. rid'[r] <= socket_id'
      BY <2>1, <2>3, <2>8, <2>9
    <2>5. wpc'[<<"receive", r>>] = "receiving" => rsock'[r] \in rid'[r] .. socket_id'
      <3>1. wpc'[<<"receive", r>>] = "receiving" => rsock[r] \in rid[r] .. socket_id
        BY <1>6 DEF LossInv, ReceiverReports
      <3> QED
        BY <2>1, <2>3, <2>8, <3>1
    <2>6. wpc'[<<"receive", r>>] \in {"gone", "report", "put"} => Reported(rid[r])'
      <3>1. Reported(rid[r]) => Reported(rid[r])'
        BY <1>1, <1>6, <2>2 DEF Reported
      <3> QED
        BY <1>6, <3>1 DEF LossInv, ReceiverReports
    <2>7. wpc'[<<"probe", r>>] \in {"gone", "report", "put"} => r \in lost'
      BY <1>6, <2>1 DEF LossInv, ProbeReports
    <2> QED
      BY <2>4, <2>5, <2>6, <2>7
  <1>7. \A t, u \in Callers : Holds(t) /\ Holds(u) => t = u /\ socket_mutex = t
    BY DEF ProbeInv, MutexHeld
  <1>8. \A t \in Callers : Holds(t) => socket_mutex # Null
    BY NullIsNoCaller DEF ProbeInv, MutexHeld
  <1>9. pc \in [Callers -> CallerStates] /\ op \in [Callers -> Ops] /\ socket_mutex \in Callers \cup {Null}
        /\ conn \in [Sockets -> {"unused", "open", "shut", "closed"}] /\ socket \in Sockets \cup {Null}
    BY DEF TypeOK, TypeCall, TypeNet
  <1>15. UNCHANGED worker => ReceiverReports' /\ ProbeReports'
    BY <1>6 DEF worker
  <1>0. Reported(0) /\ \A k \in ItemKinds : Item(k).sid = 0
    BY BoundsAssumption DEF Reported, Item, TypeOK, TypeNet
  <1>16. ASSUME NEW d \in Contexts \cup {Null}, NEW k \in ItemKinds, Put(d, Item(k)) PROVE QueueReports'
    BY <1>0, <1>3, <1>16, PutReports, ItemType DEF LossInv, TypeOK
  <1> USE <1>4, <1>5, <1>15, <1>9, BaseType, NullIsNoCaller
      DEF LossInv, SocketOpen, ClosesOnlyLost, Goto, Leave, net, call, worker, context
  <1>10. ASSUME NEW t \in Callers, CallerNext(t) PROVE LossInv'
    <2> USE <1>7, <1>8 DEF Holds
    <2>1. ASSUME NEW f \in Functions, Call(t, f) PROVE LossInv'
      BY <2>1 DEF Call, MayCall
    <2>2. ASSUME NEW b \in BOOLEAN, SetAutoReconnect(t, b) PROVE LossInv'
      BY <2>2 DEF SetAutoReconnect, MayCall
    <2>3. CASE ReturnAtOnce(t)
      BY <2>3 DEF ReturnAtOnce, Enter
    <2>4. CASE BeginConnect(t)
      BY <2>4 DEF BeginConnect, Enter
    <2>5. CASE NotConnected(t)
      BY <2>5 DEF NotConnected, Enter
    <2>6. CASE AbortPending(t)
      BY <2>6 DEF AbortPending, Enter, TakeContext
    <2>7. CASE BeginDisconnect(t)
      BY <2>7 DEF BeginDisconnect, Enter, StopProbe, Disconnects
    <2>8. CASE SendOk(t)
      BY <2>8 DEF SendOk, Enter
    <2>9. CASE SendFails(t)
      BY <2>9 DEF SendFails, Enter, StopProbe
    <2>10. CASE CreateContext(t)
      BY <2>10 DEF CreateContext
    <2>11. CASE CreateContextFails(t)
      BY <2>11 DEF CreateContextFails
    <2>12. CASE ConnectFails(t)
      <3>1. socket = Null
        BY <2>12 DEF ConnectFails, ProbeInv, SocketWhere
      <3>2. QueueReports' /\ UNCHANGED item
        BY <1>16, <2>12, ConnectFailedEffect DEF ConnectFails, TypeOK, TypeContext
      <3> QED
        BY <2>12, <3>1, <3>2, ConnectFailedEffect DEF ConnectFails
    <2>13. CASE ConnectOk(t)
      <3>1. socket = Null /\ UNCHANGED <<queue, item, rid, rsock>>
        BY <2>13 DEF ConnectOk, ProbeInv, SocketWhere
      <3>2. ReceiverReports' /\ ProbeReports'
        BY <1>6, <2>13 DEF ConnectOk, TypeOK, TypeWorker, Workers
      <3>3. SocketOpen'
        <4>1. socket_id + 1 \in Sockets
          BY <2>13, BoundsAssumption DEF ConnectOk, TypeOK, TypeNet, Sockets
        <4> QED
          BY <2>13, <4>1 DEF ConnectOk
      <3>4. ClosesOnlyLost'
        BY <2>13 DEF ConnectOk
      <3> QED
        BY <3>1, <3>2, <3>3, <3>4
    <2>14. CASE ProbeThreadFails(t)
      <3>1. socket = Null /\ UNCHANGED worker
        BY <2>14 DEF ProbeThreadFails, ProbeInv, SocketWhere
      <3>2. QueueReports' /\ UNCHANGED item
        BY <1>16, <2>14, ConnectFailedEffect DEF ProbeThreadFails, TypeOK, TypeContext
      <3>3. SocketOpen'
        <4>1. socket_id + 1 \in Sockets
          BY <2>14, BoundsAssumption DEF ProbeThreadFails, TypeOK, TypeNet, Sockets
        <4> QED
          BY <2>14, <4>1 DEF ProbeThreadFails
      <3>4. ClosesOnlyLost'
        BY <2>14, ConnectFailedEffect DEF ProbeThreadFails
      <3> QED
        BY <3>1, <3>2, <3>3, <3>4
    <2>15. CASE StartReceiver(t)
      <3>1. socket # Null /\ UNCHANGED <<queue, item, rid, rsock>>
        BY <2>15 DEF StartReceiver, ProbeInv, SocketWhere
      <3>2. ReceiverReports' /\ ProbeReports'
        BY <1>6, <2>15 DEF StartReceiver, TypeOK, TypeWorker, Workers
      <3> QED
        BY <2>15, <3>1, <3>2 DEF StartReceiver
    <2>16. CASE ReceiveThreadFails(t)
      <3>1. op[t] \in {"connect", "reconnect"}
        BY <2>16 DEF ReceiveThreadFails, ProbeInv, OpsWhere
      <3>2. ReceiverReports' /\ ProbeReports'
        BY <1>6, <2>16 DEF ReceiveThreadFails
      <3> QED
        BY <2>16, <3>1, <3>2 DEF ReceiveThreadFails, StopProbe
    <2>17. CASE StoreFlags(t)
      BY <2>17 DEF StoreFlags
    <2>18. CASE Announce(t)
      <3>1. QueueReports'
        BY <1>16, <2>18 DEF Announce, TypeOK, TypeContext, ItemKinds
      <3> QED
        BY <2>18, <3>1 DEF Announce
    <2>19. CASE JoinProbe(t)
      <3>1. ReceiverReports' /\ ProbeReports'
        BY <1>6, <2>19 DEF JoinProbe
      <3>2. SocketOpen'
        BY <2>19 DEF JoinProbe
      <3>3. ClosesOnlyLost'
        BY <2>19 DEF JoinProbe
      <3> QED
        BY <2>19, <3>1, <3>2, <3>3 DEF JoinProbe
    <2>20. CASE JoinReceive(t)
      BY <2>20 DEF JoinReceive
    <2>21. CASE Close(t)
      <3>1. socket' = Null
        BY <2>21 DEF Close, DestroySocket
      <3>2. CASE ConnectFailed(t)
        <4>1. QueueReports' /\ UNCHANGED item
          BY <1>16, <3>2, ConnectFailedEffect DEF TypeOK, TypeContext
        <4>2. ReceiverReports' /\ ProbeReports'
          BY <2>21 DEF Close
        <4>3. ClosesOnlyLost'
          BY <2>21, <3>2, ConnectFailedEffect DEF Close
        <4> QED
          BY <3>1, <4>1, <4>2, <4>3
      <3>3. CASE UNCHANGED queue /\ ~ConnectFailed(t)
        BY <2>21, <3>1, <3>3 DEF Close, TakeContext
      <3>4. CASE Put(callback, Lost(0)) /\ ~ConnectFailed(t)
        <4>1. QueueReports'
          BY <1>0, <1>3, <3>4, PutReports, ItemType DEF Lost, TypeOK, TypeContext, Items
        <4> QED
          BY <2>21, <3>1, <3>4, <4>1 DEF Close, TakeContext
      <3> QED
        BY <2>21, <3>2, <3>3, <3>4 DEF Close, TakeContext
    <2>22. CASE HandOver(t)
      <3>1. QueueReports'
        <4> DEFINE last == Item(IF target[t] = t THEN "destroyAndExit" ELSE "exit")
        <4>1. target[t] \in Contexts /\ queue \in [Contexts -> Seq(Items)]
          BY <2>22 DEF HandOver, TypeOK, TypeCall, TypeContext
        <4>2. /\ Item("request") \in Items /\ last \in Items
              /\ Reported(Item("request").sid) /\ Reported(last.sid)
          BY <1>0, ItemType DEF ItemKinds
        <4> SUFFICES ASSUME NEW c \in Contexts, NEW n \in 1 .. Len(queue'[c])
                     PROVE  Reported(queue'[c][n].sid)
          BY <1>3
        <4>3. CASE c # target[t]
          BY <2>22, <4>1, <4>3 DEF HandOver, QueueReports
        <4>4. CASE c = target[t]
          <5>1. queue'[c] = queue[c] \o <<Item("request"), last>>
            BY <2>22, <4>1, <4>4 DEF HandOver
          <5> HIDE DEF last
          <5>2. \/ n \in 1 .. Len(queue[c]) /\ queue'[c][n] = queue[c][n]
                \/ queue'[c][n] \in {Item("request"), last}
            BY <4>1, <4>2, <5>1, TwoMore
          <5> QED
            BY <4>2, <5>2 DEF QueueReports
        <4> QED
          BY <4>3, <4>4
      <3> QED
        BY <2>22, <3>1 DEF HandOver
    <2>23. CASE JoinCallback(t)
      BY <2>23 DEF JoinCallback, DestroySocket
    <2> QED
      BY <1>10, <2>1, <2>2, <2>3, <2>4, <2>5, <2>6, <2>7, <2>8, <2>9, <2>10, <2>11, <2>12, <2>13, <2>14, <2>15, <2>16, <2>17, <2>18, <2>19, <2>20, <2>21, <2>22, <2>23 DEF CallerNext, TakeMutex, Advance
  <1>11. ASSUME NEW c \in Contexts, TakeMutexInLoop(c) \/ AdvanceLoop(c) PROVE LossInv'
    <2> c \in Callers
      BY DEF Callers
    <2>1. CASE Pop(c)
      <3>1. queue[c] \in Seq(Items) /\ queue[c] # <<>> /\ item \in [Contexts -> Items]
        BY <2>1 DEF Pop, TypeOK, TypeContext
      <3>2. QueueReports'
        <4> SUFFICES ASSUME NEW d \in Contexts, NEW n \in 1 .. Len(queue'[d])
                     PROVE  Reported(queue'[d][n].sid)
          BY <1>3
        <4>1. CASE d = c
          <5>1. queue'[c] = Tail(queue[c])
            BY <2>1 DEF Pop, TypeOK, TypeContext
          <5>2. n + 1 \in 1 .. Len(queue[c]) /\ queue'[c][n] = queue[c][n + 1]
            BY <3>1, <4>1, <5>1
          <5> QED
            BY <4>1, <5>2 DEF QueueReports
        <4>2. CASE d # c
          BY <2>1, <4>2 DEF Pop, QueueReports
        <4> QED
          BY <4>1, <4>2
      <3>3. ItemReports'
        <4>1. Head(queue[c]) = queue[c][1] /\ 1 \in 1 .. Len(queue[c]) /\ queue[c][1] \in Items
          BY <3>1
        <4>2. Reported(Head(queue[c]).sid) /\ Head(queue[c]).sid \in 0 .. MaxSockets
          BY <4>1 DEF QueueReports, Items
        <4>3. \A d \in Contexts : Reported(item'[d].sid) /\ item'[d].sid \in 0 .. MaxSockets
          BY <2>1, <3>1, <4>2 DEF Pop, ItemReports, Items
        <4> QED
          BY <1>1, <4>3 DEF ItemReports
      <3>4. pc'[c] \notin {"joinProbe", "joinReceive", "close"} /\ UNCHANGED <<op, net, worker, socket_mutex>>
        BY <2>1 DEF Pop, AfterPop
      <3>5. pc[c] \notin {"joinProbe", "joinReceive", "close"} /\ \A u \in Callers \ {c} : pc'[u] = pc[u]
        BY <2>1 DEF Pop
      <3> QED
        BY <3>2, <3>3, <3>4, <3>5
    <2>2. CASE TeardownLost(c)
      <3>1. socket \in lost
        BY <2>2 DEF TeardownLost, StillCurrent, ItemReports, Reported, ProbeInv, SocketCurrent, Null
      <3> QED
        BY <2>2, <3>1 DEF TeardownLost, StopProbe
    <2>3. CASE SkipLost(c)
      BY <2>3 DEF SkipLost
    <2>4. CASE CallbackReturns(c)
      BY <2>4 DEF CallbackReturns
    <2>5. CASE SetPending(c)
      BY <2>5 DEF SetPending
    <2>6. CASE Retry(c)
      BY <2>6 DEF Retry
    <2>7. CASE GiveUp(c)
      BY <2>7 DEF GiveUp
    <2> QED
      BY <1>11, <2>1, <2>2, <2>3, <2>4, <2>5, <2>6, <2>7 DEF TakeMutexInLoop, AdvanceLoop
  <1>12. ASSUME NEW s \in Sockets,
                ReceiverStep(s) \/ ReceivePacket(s) \/ ProbeStep(s) \/ LoseConnection(s)
         PROVE  LossInv'
    <2>0. wpc \in [Workers -> WorkerStates] /\ rid \in [Sockets -> 0 .. MaxSockets]
          /\ rsock \in [Sockets -> Sockets \cup {Null}] /\ socket_id \in 0 .. MaxSockets
      BY DEF TypeOK, TypeWorker, TypeNet
    (* Steps that change no more of the workers than where worker w is.     *)
    <2>30. ASSUME NEW w \in Workers, NEW where, WorkerGoto(w, where), UNCHANGED <<rid, rsock>>,
                  \/ where \notin {"receiving", "gone", "report", "put"}
                  \/ where \in {"report", "put"} /\ wpc[w] \in {"gone", "report"}
           PROVE  ReceiverReports' /\ ProbeReports'
      BY <1>6, <2>0, <2>30 DEF WorkerGoto, Workers
    <2>31. <<"receive", s>> \in Workers /\ <<"probe", s>> \in Workers
      BY DEF Workers
    <2>32. socket_id \in Nat /\ rid[s] \in Nat
      BY <2>0, BoundsAssumption
    <2>1. CASE ReceiverStart(s)
      <3>1. \A r \in Sockets \ {s} : rid'[r] = rid[r] /\ rid[r] \in 0 .. MaxSockets
        BY <2>0, <2>1 DEF ReceiverStart
      <3>2. rid'[s] = socket_id /\ UNCHANGED <<rsock, net>>
        BY <2>0, <2>1 DEF ReceiverStart
      <3>3. \A r \in Sockets : <<"receive", r>> \in Workers /\ <<"probe", r>> \in Workers
        BY DEF Workers
      <3>4. ReceiverReports'
        <4> SUFFICES ASSUME NEW r \in Sockets
                     PROVE  /\ rid'[r] <= socket_id'
                            /\ wpc'[<<"receive", r>>] = "receiving" => rsock'[r] \in rid'[r] .. socket_id'
                            /\ wpc'[<<"receive", r>>] \in {"gone", "report", "put"} => Reported(rid[r])'
          BY DEF ReceiverReports
        <4>1. CASE r = s
          BY <2>0, <2>1, <2>32, <3>2, <3>3, <4>1 DEF ReceiverStart, WorkerGoto
        <4>2. CASE r # s
          <5>1. wpc'[<<"receive", r>>] = wpc[<<"receive", r>>] /\ rid'[r] = rid[r]
            BY <2>0, <2>1, <3>1, <3>3, <4>2 DEF ReceiverStart, WorkerGoto
          <5>2. Reported(rid[r]) => Reported(rid[r])'
            BY <1>1, <3>1, <4>2, <5>1 DEF Reported
          <5> QED
            BY <3>2, <5>1, <5>2 DEF ReceiverReports
        <4> QED
          BY <4>1, <4>2
      <3>5. ProbeReports'
        BY <2>0, <2>1, <3>3 DEF ReceiverStart, WorkerGoto, ProbeReports
      <3> QED
        BY <2>1, <3>4, <3>5 DEF ReceiverStart
    <2>2. CASE Receive(s)
      <3>1. \A r \in Sockets : rsock'[r] = IF r = s THEN socket ELSE rsock[r]
        BY <2>0, <2>2 DEF Receive
      <3>2. socket = socket_id /\ rid[s] <= socket_id /\ UNCHANGED <<rid, net>>
        BY <2>2 DEF Receive, ProbeInv, SocketCurrent, ReceiverReports
      <3>3. \A r \in Sockets : <<"receive", r>> \in Workers /\ <<"probe", r>> \in Workers
        BY DEF Workers
      <3>4. ReceiverReports'
        <4> SUFFICES ASSUME NEW r \in Sockets
                     PROVE  /\ rid'[r] <= socket_id'
                            /\ wpc'[<<"receive", r>>] = "receiving" => rsock'[r] \in rid'[r] .. socket_id'
                            /\ wpc'[<<"receive", r>>] \in {"gone", "report", "put"} => Reported(rid[r])'
          BY DEF ReceiverReports
        <4>1. CASE r = s
          BY <2>0, <2>2, <2>32, <3>1, <3>2, <3>3, <4>1 DEF Receive, WorkerGoto
        <4>2. CASE r # s
          <5>1. wpc'[<<"receive", r>>] = wpc[<<"receive", r>>] /\ rsock'[r] = rsock[r]
            BY <2>0, <2>2, <3>1, <3>3, <4>2 DEF Receive, WorkerGoto
          <5>2. Reported(rid[r]) => Reported(rid[r])'
            BY <3>2 DEF Reported
          <5> QED
            BY <3>2, <5>1, <5>2 DEF ReceiverReports
        <4> QED
          BY <4>1, <4>2
      <3>5. ProbeReports'
        BY <2>0, <2>2, <3>3 DEF Receive, WorkerGoto, ProbeReports
      <3> QED
        BY <2>2, <3>4, <3>5 DEF Receive
    <2>3. CASE ReceiverStops(s)
      BY <2>3, <2>30, <2>31 DEF ReceiverStops
    <2>4. CASE ReceiveFails(s)
      <3>1. rsock[s] \in rid[s] .. socket_id /\ rid[s] <= socket_id
        BY <2>4 DEF ReceiveFails, ReceiverReports
      <3>2. rid[s] = socket /\ rid[s] # 0 => rsock[s] = socket
        BY <2>32, <3>1 DEF ProbeInv, SocketCurrent, Null
      <3>3. rid[s] = socket /\ rid[s] # 0 => socket \in lost
        BY <2>4, <3>2 DEF ReceiveFails, Receivable, Null
      <3>4. Reported(rid[s])
        BY <2>32, <3>1, <3>3 DEF Reported
      <3>5. \A r \in Sockets : <<"receive", r>> \in Workers /\ <<"probe", r>> \in Workers
        BY DEF Workers
      <3>6. UNCHANGED <<rid, rsock, net>>
        BY <2>4 DEF ReceiveFails
      <3>7. ReceiverReports'
        <4>1. wpc' = [wpc EXCEPT ![<<"receive", s>>] = "gone"]
          BY <2>4 DEF ReceiveFails, WorkerGoto
        <4>2. Reported(rid[s])'
          BY <1>1, <2>0, <3>1, <3>4, <3>6
        <4> QED
          BY <1>1, <2>0, <3>4, <3>5, <3>6, <4>1, <4>2 DEF ReceiverReports
      <3>8. ProbeReports'
        BY <2>0, <2>4, <3>5 DEF ReceiveFails, WorkerGoto, ProbeReports
      <3> QED
        BY <2>4, <3>7, <3>8 DEF ReceiveFails
    <2>5. CASE ReceivePacket(s)
      <3>1. ReceiverReports' /\ ProbeReports'
        BY <2>5, <2>30, <2>31 DEF ReceivePacket
      <3> QED
        BY <2>5, <3>1 DEF ReceivePacket, FindQueue
    <2>12. ASSUME NEW w \in Workers, FindReportQueue(w) PROVE LossInv'
      BY <2>12, <2>30 DEF FindReportQueue, FindQueue
    <2>13. CASE QueuePacket(s)
      <3>1. into[<<"receive", s>>] \in Contexts \cup {Null}
        BY <2>31 DEF TypeOK, TypeWorker
      <3>2. QueueReports'
        BY <1>16, <2>13, <3>1 DEF QueuePacket, PutFound, ItemKinds
      <3>3. ReceiverReports' /\ ProbeReports'
        BY <2>13, <2>30, <2>31 DEF QueuePacket
      <3> QED
        BY <2>13, <3>2, <3>3 DEF QueuePacket
    <2>6. CASE ProbeStops(s)
      BY <2>6, <2>30, <2>31 DEF ProbeStops
    <2>7. CASE ProbeTick(s)
      BY <2>7, <2>30, <2>31 DEF ProbeTick
    <2>8. CASE SendProbe(s)
      <3>1. CASE WorkerGoto(<<"probe", s>>, "wait")
        BY <2>8, <2>30, <2>31, <3>1 DEF SendProbe
      <3>2. CASE socket \in lost /\ WorkerGoto(<<"probe", s>>, "gone")
        <4>1. socket = s
          BY <2>8 DEF SendProbe, ProbeInv, ProbeSocketLive, Running
        <4>2. \A r \in Sockets : <<"receive", r>> \in Workers /\ <<"probe", r>> \in Workers
          BY DEF Workers
        <4>3. UNCHANGED <<rid, rsock, net>>
          BY <2>8 DEF SendProbe
        <4>4. ReceiverReports'
          BY <1>1, <2>0, <3>2, <4>2, <4>3 DEF WorkerGoto, ReceiverReports
        <4>5. ProbeReports'
          BY <2>0, <3>2, <4>1, <4>2, <4>3 DEF WorkerGoto, ProbeReports
        <4> QED
          BY <2>8, <4>4, <4>5 DEF SendProbe
      <3> QED
        BY <2>8, <3>1, <3>2 DEF SendProbe
    <2>9. ASSUME NEW w \in Workers, AllowReconnect(w) PROVE LossInv'
      BY <2>9, <2>30 DEF AllowReconnect
    <2>10. ASSUME NEW w \in Workers, ReportLost(w) PROVE LossInv'
      <3> DEFINE id == IF w[1] = "receive" THEN rid[w[2]] ELSE socket_id
      <3>1. PICK r \in Sockets : w = <<"receive", r>> \/ w = <<"probe", r>>
        BY DEF Workers
      <3>2. id \in 0 .. MaxSockets /\ Reported(id)
        <4>1. CASE w = <<"receive", r>>
          BY <2>0, <2>10, <4>1 DEF ReportLost, ReceiverReports
        <4>2. CASE w = <<"probe", r>>
          <5>1. r \in lost /\ socket = r /\ id = socket_id
            BY <2>10, <4>2 DEF ReportLost, ProbeReports, ProbeInv, ProbeSocketLive, Running
          <5>2. socket_id \in lost
            BY <5>1 DEF ProbeInv, SocketCurrent, Sockets, Null
          <5> QED
            BY <2>0, <2>32, <5>1, <5>2 DEF Reported
        <4> QED
          BY <3>1, <4>1, <4>2
      <3>3. Lost(id) \in Items /\ Lost(id).sid = id
        BY <3>2 DEF Lost, Items, ItemKinds
      <3>4. QueueReports'
        <4>1. into[w] \in Contexts \cup {Null}
          BY DEF TypeOK, TypeWorker
        <4> QED
          BY <1>3, <2>10, <3>2, <3>3, <4>1, PutReports DEF ReportLost, PutFound, TypeOK, TypeContext
      <3>5. ReceiverReports' /\ ProbeReports'
        BY <2>10, <2>30 DEF ReportLost
      <3> QED
        BY <2>10, <3>4, <3>5 DEF ReportLost
    <2>11. CASE LoseConnection(s)
      BY <2>11 DEF LoseConnection
    <2> QED
      BY <1>12, <2>1, <2>2, <2>3, <2>4, <2>5, <2>6, <2>7, <2>8, <2>9, <2>10, <2>11, <2>12, <2>13
      DEF ReceiverStep, ProbeStep, ReportStep, Workers
  <1>13. CASE Crash
    BY <1>13 DEF Crash
  <1>14. CASE UNCHANGED vars
    BY <1>14 DEF vars
  <1> QED
    BY <1>10, <1>11, <1>12, <1>13, <1>14 DEF Next

(* A disconnect nobody requested closes lost connections only, however late *)
(* the report of the loss is dispatched.                                    *)
THEOREM ClosesOnlyLostCorrect == Spec => []ClosesOnlyLost
  <1>1. TypeOK /\ ProbeInv /\ LossInv /\ [Next]_vars => TypeOK' /\ ProbeInv' /\ LossInv'
    BY TypeStep, ProbeInvStep, LossInvStep
  <1>2. LossInv => ClosesOnlyLost
    BY DEF LossInv
  <1> QED
    BY InitType, ProbeInvInit, LossInvInit, <1>1, <1>2, PTL DEF Spec

-----------------------------------------------------------------------------
(* What a queue holds after an item was put into it.                        *)
LEMMA PutQueued ==
    ASSUME TypeContext, NEW d \in Contexts \cup {Null}, NEW i \in Items, Put(d, i)
    PROVE  \A c \in Contexts : Queued(c)' \subseteq Queued(c) \cup (IF c = d THEN {i} ELSE {})
  <1> SUFFICES ASSUME NEW c \in Contexts, NEW n \in 1 .. Len(queue'[c])
               PROVE  queue'[c][n] \in Queued(c) \cup (IF c = d THEN {i} ELSE {})
    BY DEF Queued
  <1>1. queue \in [Contexts -> Seq(Items)]
    BY DEF TypeContext
  <1>2. CASE c = d
    <2>1. queue'[c] = Append(queue[c], i) /\ queue[c] \in Seq(Items)
      BY <1>1, <1>2 DEF Put
    <2>2. CASE n <= Len(queue[c])
      BY <2>1, <2>2 DEF Queued
    <2>3. CASE n > Len(queue[c])
      BY <1>2, <2>1, <2>3
    <2> QED
      BY <2>1, <2>2, <2>3
  <1>3. CASE c # d
    BY <1>1, <1>3 DEF Put, Queued
  <1> QED
    BY <1>2, <1>3

(* The items of a queue are items; the first one is taken out of it.        *)
LEMMA PopQueued ==
    ASSUME TypeContext, NEW c \in Contexts, queue[c] # <<>>
    PROVE  /\ Head(queue[c]) \in Queued(c) /\ Queued(c) \subseteq Items
           /\ queue' = [queue EXCEPT ![c] = Tail(@)] =>
                 \A d \in Contexts : Queued(d)' \subseteq Queued(d)
  <1>1. queue[c] \in Seq(Items) /\ Len(queue[c]) > 0 /\ queue \in [Contexts -> Seq(Items)]
    BY EmptySeq DEF TypeContext
  <1>2. Head(queue[c]) \in Queued(c) /\ Queued(c) \subseteq Items
    BY <1>1 DEF Queued
  <1>3. ASSUME queue' = [queue EXCEPT ![c] = Tail(@)], NEW d \in Contexts, NEW n \in 1 .. Len(queue'[d])
        PROVE  queue'[d][n] \in Queued(d)
    <2>1. CASE d = c
      <3>1. Len(Tail(queue[c])) = Len(queue[c]) - 1 /\ queue'[d] = Tail(queue[c])
        BY <1>1, <1>3, <2>1
      <3>2. n + 1 \in 1 .. Len(queue[c]) /\ Tail(queue[c])[n] = queue[c][n + 1]
        BY <1>1, <1>3, <3>1
      <3> QED
        BY <2>1, <3>1, <3>2 DEF Queued
    <2>2. CASE d # c
      BY <1>1, <1>3, <2>2 DEF Queued
    <2> QED
      BY <2>1, <2>2
  <1> QED
    BY <1>2, <1>3 DEF Queued

(* The two items a disconnect leaves behind only enter its own context.     *)
LEMMA HandOverQueued ==
    ASSUME TypeOK, NEW t \in Callers, HandOver(t)
    PROVE  \A c \in Contexts : Queued(c)' \subseteq
               Queued(c) \cup (IF c = target[t] THEN {Item(k) : k \in ItemKinds} ELSE {})
  <1> SUFFICES ASSUME NEW c \in Contexts, NEW n \in 1 .. Len(queue'[c])
               PROVE  queue'[c][n] \in
                          Queued(c) \cup (IF c = target[t] THEN {Item(k) : k \in ItemKinds} ELSE {})
    BY DEF Queued
  <1>1. queue \in [Contexts -> Seq(Items)]
    BY DEF TypeOK, TypeContext
  <1>2. CASE c = target[t]
    <2>1. PICK k \in ItemKinds : queue'[c] = queue[c] \o <<Item("request"), Item(k)>>
      BY <1>1, <1>2 DEF HandOver, ItemKinds
    <2>2. Item("request") \in Items /\ Item(k) \in Items /\ "request" \in ItemKinds
      BY ItemType DEF ItemKinds
    <2>3. \/ n \in 1 .. Len(queue[c]) /\ queue'[c][n] = queue[c][n]
          \/ queue'[c][n] \in {Item("request"), Item(k)}
      BY <1>1, <2>1, <2>2, TwoMore
    <2> QED
      BY <1>2, <2>2, <2>3 DEF Queued
  <1>3. CASE c # target[t]
    BY <1>1, <1>3 DEF HandOver, Queued
  <1> QED
    BY <1>2, <1>3

-----------------------------------------------------------------------------
(* No context ends a connect while another caller holds the socket_mutex.   *)
LEMMA OneEndsItsOwn ==
    ASSUME ProbeInv
    PROVE  /\ socket_mutex = Null => \A u \in Callers : ~EndsItsOwn(u)
           /\ \A t \in Callers : Holds(t) => \A u \in Callers \ {t} : ~EndsItsOwn(u)
  BY NullIsNoCaller DEF ProbeInv, MutexHeld, Holds, EndsItsOwn

(* What keeps contexts apart and alive: callers S move on inside of what    *)
(* they do, without taking a context and without queueing an exit item.     *)
LEMMA ContextFrame ==
    ASSUME TypeOK, ContextInv, NEW S \in SUBSET Callers, UNCHANGED <<callback, contexts, target>>,
           \A t \in S : pc[t] # "none" /\ ~EndsItsOwn(t) /\ pc'[t] \notin {"handOver", "exited"},
           \A t \in Callers \ S : pc'[t] = pc[t] /\ op'[t] = op[t],
           \A c \in Contexts : c > contexts => queue'[c] = queue[c],
           \A c \in Contexts : \A i \in Queued(c)' :
               i \in Queued(c) \/ i.kind \notin {"exit", "destroyAndExit"}
    PROVE  ContextInv'
  <1>0. /\ Contexts \subseteq Callers /\ callback \in Contexts \cup {Null}
        /\ target \in [Callers -> Contexts \cup {Null}]
    BY DEF Callers, TypeOK, TypeContext, TypeCall
  <1>1. \A c \in Contexts : Ending(c)' => Ending(c)
    BY <1>0 DEF Ending
  <1>2. \A t \in Callers : EndsItsOwn(t) => EndsItsOwn(t)'
    BY DEF EndsItsOwn
  <1>3. \A t \in Callers : pc'[t] = "handOver" => pc[t] = "handOver"
    OBVIOUS
  <1>4. ContextsKnown'
    BY <1>0 DEF ContextInv, ContextsKnown
  <1>5. CallbackAlive'
    <2> SUFFICES ASSUME callback' # Null, \A t \in Callers : ~EndsItsOwn(t)'
                 PROVE  ~Ending(callback)'
      BY DEF CallbackAlive
    <2>1. callback \in Contexts /\ ~Ending(callback)
      BY <1>0, <1>2 DEF ContextInv, CallbackAlive
    <2> QED
      BY <1>1, <2>1 DEF Ending, Queued
  <1>6. TargetAlive'
    <2> SUFFICES ASSUME NEW t \in Callers, Taken(t)'
                 PROVE  target'[t] # callback' /\ ~Ending(target[t])'
      BY DEF TargetAlive
    <2>1. Taken(t) /\ target[t] \in Contexts
      BY <1>0, <1>3 DEF Taken
    <2>2. target[t] # callback /\ ~Ending(target[t])
      BY <2>1 DEF ContextInv, TargetAlive
    <2> QED
      BY <1>1, <2>1, <2>2 DEF Ending, Queued
  <1>7. OneTaker'
    BY <1>3 DEF ContextInv, OneTaker, Taken
  <1> QED
    BY <1>4, <1>5, <1>6, <1>7 DEF ContextInv

(* ipcon_disconnect and ipcon_destroy take the context nobody else has.     *)
LEMMA ContextTake ==
    ASSUME TypeOK, ContextInv, NEW t \in Callers, pc[t] # "none", TakeContext(t),
           \A u \in Callers : ~EndsItsOwn(u)
    PROVE  ContextInv'
  <1>0. Contexts \subseteq Callers /\ pc \in [Callers -> CallerStates]
        /\ target \in [Callers -> Contexts \cup {Null}] /\ callback \in Contexts \cup {Null}
    BY DEF TypeOK, TypeCall, TypeContext, Callers
  <1>1. /\ target' = [target EXCEPT ![t] = callback] /\ callback' = Null
        /\ pc' = [pc EXCEPT ![t] = "handOver"] /\ contexts' = contexts /\ queue' = queue
    BY DEF TakeContext, Goto
  <1>2. \A c \in Contexts : Ending(c)' => Ending(c)
    BY <1>0, <1>1 DEF Ending, Queued
  <1>3. ContextsKnown'
    BY <1>0, <1>1, BoundsAssumption DEF ContextInv, ContextsKnown, Null, TypeOK, TypeContext
  <1>4. CallbackAlive'
    BY <1>1 DEF CallbackAlive
  <1>5. callback # Null => ~Ending(callback)
    BY DEF ContextInv, CallbackAlive
  <1>6. \A u \in Callers \ {t} : Taken(u)' <=> Taken(u)
    BY <1>0, <1>1 DEF Taken
  <1>7. Taken(t)' => target'[t] = callback /\ callback # Null
    BY <1>0, <1>1 DEF Taken
  <1>8. \A u \in Callers \ {t} : target'[u] = target[u] /\ (Taken(u) => target[u] # callback /\ target[u] \in Contexts)
    BY <1>0, <1>1 DEF ContextInv, TargetAlive, Taken
  <1>9. TargetAlive'
    <2> SUFFICES ASSUME NEW u \in Callers, Taken(u)'
                 PROVE  target'[u] # callback' /\ ~Ending(target[u])'
      BY DEF TargetAlive
    <2>1. CASE u = t
      <3>1. PICK c \in Contexts : c = callback
        BY <1>0, <1>7, <2>1
      <3>2. ~Ending(c)'
        BY <1>2, <1>5, <1>7, <2>1, <3>1
      <3> QED
        BY <1>1, <1>7, <2>1, <3>1, <3>2 DEF Ending, Queued, Null
    <2>2. CASE u # t
      <3>1. Ending(target[u])' => Ending(target[u])
        BY <1>0, <1>1, <1>8, <2>2, <1>6 DEF Ending, Queued
      <3> QED
        BY <1>1, <1>6, <1>8, <2>2, <3>1, NullIsNoCaller DEF ContextInv, TargetAlive, Taken
    <2> QED
      BY <2>1, <2>2
  <1>10. OneTaker'
    <2> SUFFICES ASSUME NEW v \in Callers, Taken(v)', NEW u \in Callers \ {v}, pc'[u] = "handOver"
                 PROVE  target'[u] # target'[v]
      BY DEF OneTaker
    <2>1. CASE v = t
      <3>1. target'[u] = target[u] /\ pc[u] = "handOver" /\ callback # Null /\ target'[v] = callback
        BY <1>0, <1>1, <1>7, <2>1
      <3> QED
        BY <1>8, <2>1, <3>1 DEF Taken
    <2>2. CASE u = t
      <3>1. Taken(v) /\ target'[v] = target[v] /\ target'[u] = callback
        BY <1>0, <1>1, <1>6, <2>2
      <3> QED
        BY <1>8, <2>2, <3>1
    <2>3. CASE u # t /\ v # t
      BY <1>0, <1>1, <1>6, <2>3 DEF ContextInv, OneTaker
    <2> QED
      BY <2>1, <2>2, <2>3
  <1> QED
    BY <1>3, <1>4, <1>9, <1>10 DEF ContextInv

(* A failed ipcon_connect ends its own context: while it joins the callback *)
(* thread it holds the socket_mutex.                                        *)
LEMMA ContextConnectFailed ==
    ASSUME TypeOK, ContextInv, NEW t \in Callers, pc[t] \in {"attempt", "close"},
           op[t] \in {"connect", "reconnect"}, ConnectFailed(t)
    PROVE  ContextInv'
  <1>0. /\ Contexts \subseteq Callers /\ pc \in [Callers -> CallerStates] /\ op \in [Callers -> Ops]
        /\ target \in [Callers -> Contexts \cup {Null}] /\ callback \in Contexts \cup {Null}
        /\ contexts \in Nat /\ queue \in [Contexts -> Seq(Items)]
    BY BoundsAssumption DEF TypeOK, TypeCall, TypeContext, Callers
  <1>1. CASE op[t] = "reconnect"
    <2>1. /\ pc' = [pc EXCEPT ![t] = "retry"] /\ op' = [op EXCEPT ![t] = "none"]
          /\ UNCHANGED <<callback, contexts, target, queue>>
      BY <1>1 DEF ConnectFailed, Leave, Goto, context
    <2>2. pc[t] # "none" /\ ~EndsItsOwn(t) /\ pc'[t] = "retry"
      BY <1>0, <2>1 DEF EndsItsOwn
    <2>3. \A u \in Callers \ {t} : pc'[u] = pc[u] /\ op'[u] = op[u]
      BY <1>0, <2>1
    <2>4. \A c \in Contexts : Queued(c)' = Queued(c) /\ queue'[c] = queue[c]
      BY <2>1 DEF Queued
    <2> QED
      BY <2>1, <2>2, <2>3, <2>4, ContextFrame, {t} \in SUBSET Callers
  <1>2. CASE op[t] # "reconnect"
    <2>0. ExitCallbackThread(t) /\ op[t] = "connect"
      BY <1>2 DEF ConnectFailed
    <2>1. PICK k \in {"exit", "destroyAndExit"} : Put(callback, Item(k))
      BY <2>0 DEF ExitCallbackThread
    <2>2. Item(k) \in Items
      BY ItemType DEF ItemKinds
    <2>3. \A c \in Contexts : c # callback => Queued(c)' \subseteq Queued(c) /\ queue'[c] = queue[c]
      BY <1>0, <2>1, <2>2, PutQueued DEF Put, TypeOK
    <2>4. contexts' = contexts /\ callback' \in {callback, Null}
      BY <2>0 DEF ExitCallbackThread
    <2>5. pc'[t] \in {"idle", "callback", "joinCallback"} /\ \A u \in Callers \ {t} : pc'[u] = pc[u] /\ target'[u] = target[u] /\ op'[u] = op[u]
      BY <1>0, <2>0, BaseType DEF ExitCallbackThread, Goto, Leave
    <2>6. target'[t] \in {target[t], callback} /\ target' \in [Callers -> Contexts \cup {Null}]
      BY <1>0, <2>0 DEF ExitCallbackThread
    <2>7. \A c \in Contexts : c # callback => (Ending(c)' => Ending(c))
      BY <1>0, <2>3, <2>5 DEF Ending
    <2>8. \A u \in Callers : Taken(u)' => u # t /\ Taken(u)
      BY <2>5 DEF Taken
    <2>9. ContextsKnown'
      <3>1. callback' <= contexts /\ callback <= contexts
        BY <1>0, <2>4 DEF ContextInv, ContextsKnown, Null
      <3>2. \A u \in Callers : target'[u] <= contexts
        BY <2>5, <2>6, <3>1 DEF ContextInv, ContextsKnown
      <3>3. ASSUME NEW c \in Contexts, c > contexts PROVE pc'[c] = "none" /\ queue'[c] = <<>>
        <4>1. c # callback /\ c # t
          BY <1>0, <3>1, <3>3 DEF ContextInv, ContextsKnown, Contexts, Null
        <4> QED
          BY <1>0, <2>3, <2>5, <3>3, <4>1 DEF ContextInv, ContextsKnown
      <3> QED
        BY <2>4, <3>1, <3>2, <3>3 DEF ContextsKnown
    <2>10. CallbackAlive'
      <3>1. CASE callback = t
        BY <2>0, <3>1 DEF ExitCallbackThread, CallbackAlive
      <3>2. CASE callback # t
        <4>1. EndsItsOwn(t)'
          BY <1>0, <2>0, <3>2 DEF ExitCallbackThread, EndsItsOwn, Goto
        <4> QED
          BY <4>1 DEF CallbackAlive, EndsItsOwn
      <3> QED
        BY <3>1, <3>2
    <2>11. TargetAlive'
      BY <1>0, <2>4, <2>5, <2>7, <2>8, NullIsNoCaller DEF ContextInv, TargetAlive, Taken
    <2>12. OneTaker'
      BY <2>5, <2>8 DEF ContextInv, OneTaker, Taken
    <2> QED
      BY <2>9, <2>10, <2>11, <2>12 DEF ContextInv
  <1> QED
    BY <1>1, <1>2

(* A context just created is nobody's yet and ends nothing.                 *)
LEMMA ContextCreate ==
    ASSUME TypeOK, ContextInv, NEW t \in Callers, CreateContext(t)
    PROVE  ContextInv'
  <1>0. /\ Contexts \subseteq Callers /\ pc \in [Callers -> CallerStates]
        /\ target \in [Callers -> Contexts \cup {Null}] /\ callback \in Contexts \cup {Null}
        /\ contexts \in Nat /\ queue \in [Contexts -> Seq(Items)] /\ pc[t] = "context"
        /\ UNCHANGED <<op, target, queue>>
    BY BoundsAssumption DEF TypeOK, TypeCall, TypeContext, Callers, CreateContext
  <1>1. CASE callback # Null
    <2>1. pc' = [pc EXCEPT ![t] = "attempt"] /\ UNCHANGED <<callback, contexts>>
      BY <1>1 DEF CreateContext, Goto
    <2>2. pc[t] # "none" /\ ~EndsItsOwn(t) /\ pc'[t] = "attempt"
      BY <1>0, <2>1 DEF EndsItsOwn
    <2>3. \A u \in Callers \ {t} : pc'[u] = pc[u] /\ op'[u] = op[u]
      BY <1>0, <2>1
    <2>4. \A c \in Contexts : Queued(c)' = Queued(c)
      BY <1>0 DEF Queued
    <2> QED
      BY <1>0, <2>1, <2>2, <2>3, <2>4, ContextFrame, {t} \in SUBSET Callers
  <1>2. CASE callback = Null
    <2>0. PICK n \in Contexts : n = contexts + 1
      BY <1>0, <1>2, BoundsAssumption DEF CreateContext, Contexts
    <2>1. contexts' = n /\ callback' = n /\ pc' = [pc EXCEPT ![t] = "attempt", ![n] = "loop"]
      BY <1>2, <2>0 DEF CreateContext
    <2>2. pc[n] = "none" /\ queue[n] = <<>> /\ n # t
      BY <1>0, <2>0 DEF ContextInv, ContextsKnown
    <2>3. \A u \in Callers : target[u] # n
      BY <1>0, <2>0 DEF ContextInv, ContextsKnown
    <2>4. \A c \in Contexts : Ending(c)' => Ending(c)
      BY <1>0, <2>1 DEF Ending, Queued
    <2>5. ~Ending(n)
      BY <2>2 DEF Ending, Queued
    <2>6. \A u \in Callers : Taken(u)' => Taken(u) /\ u # t /\ u # n
      BY <1>0, <2>0, <2>1 DEF Taken
    <2>7. ContextsKnown'
      <3>1. \A u \in Callers : target[u] <= n
        BY <1>0, <2>0 DEF ContextInv, ContextsKnown, Contexts, Null
      <3>2. ASSUME NEW c \in Contexts, c > n PROVE pc'[c] = "none" /\ queue[c] = <<>>
        <4>1. c > contexts /\ c # t /\ c # n
          BY <1>0, <2>0, <3>2 DEF ContextInv, ContextsKnown, Contexts
        <4> QED
          BY <1>0, <2>1, <4>1 DEF ContextInv, ContextsKnown
      <3> QED
        BY <1>0, <2>0, <2>1, <3>1, <3>2 DEF ContextsKnown
    <2>8. CallbackAlive'
      <3>1. ~Ending(n)'
        BY <2>0, <2>4, <2>5
      <3> QED
        BY <2>0, <2>1, <3>1 DEF CallbackAlive, Ending, Queued
    <2>9. TargetAlive'
      <3> SUFFICES ASSUME NEW u \in Callers, Taken(u)'
                   PROVE  target'[u] # callback' /\ ~Ending(target[u])'
        BY DEF TargetAlive
      <3>1. target[u] \in Contexts /\ ~Ending(target[u])
        BY <1>0, <2>6 DEF ContextInv, TargetAlive, Taken
      <3> QED
        BY <1>0, <2>1, <2>3, <2>4, <3>1 DEF Ending, Queued
    <2>10. OneTaker'
      BY <1>0, <2>0, <2>1, <2>6 DEF ContextInv, OneTaker, Taken
    <2> QED
      BY <2>7, <2>8, <2>9, <2>10 DEF ContextInv
  <1> QED
    BY <1>1, <1>2

(* Whoever hands its context over has ended that one only.                  *)
LEMMA ContextHandOver ==
    ASSUME TypeOK, ContextInv, NEW t \in Callers, op[t] # "connect", HandOver(t)
    PROVE  ContextInv'
  <1>0. /\ Contexts \subseteq Callers /\ pc \in [Callers -> CallerStates] /\ op \in [Callers -> Ops]
        /\ target \in [Callers -> Contexts \cup {Null}] /\ callback \in Contexts \cup {Null}
        /\ queue \in [Contexts -> Seq(Items)]
        /\ UNCHANGED <<callback, contexts, target>> /\ Taken(t) /\ target[t] \in Contexts
        /\ contexts \in Nat
    BY BoundsAssumption DEF TypeOK, TypeCall, TypeContext, Callers, HandOver, context, Taken
  <1>1. /\ pc'[t] \in {"idle", "callback", "joinCallback"}
        /\ \A u \in Callers \ {t} : pc'[u] = pc[u] /\ op'[u] = op[u]
    BY <1>0, BaseType DEF HandOver, Leave, Goto
  <1>2. \A c \in Contexts : c # target[t] => Queued(c)' \subseteq Queued(c) /\ queue'[c] = queue[c]
    BY <1>0, HandOverQueued DEF HandOver
  <1>3. \A c \in Contexts : c # target[t] => (Ending(c)' => Ending(c))
    BY <1>0, <1>1, <1>2 DEF Ending
  <1>4. \A u \in Callers : Taken(u)' => u # t /\ Taken(u)
    BY <1>0, <1>1 DEF Taken
  <1>5. \A u \in Callers : EndsItsOwn(u) => EndsItsOwn(u)'
    BY <1>1 DEF EndsItsOwn
  <1>6. target[t] # callback /\ \A u \in Callers \ {t} : Taken(u) => target[u] # target[t]
    BY <1>0 DEF ContextInv, TargetAlive, OneTaker, Taken
  <1>7. ContextsKnown'
    <2>1. ASSUME NEW c \in Contexts, c > contexts PROVE pc'[c] = "none" /\ queue'[c] = <<>>
      <3>1. pc[c] = "none" /\ c # t /\ c # target[t]
        BY <1>0, <2>1 DEF ContextInv, ContextsKnown, Taken, Contexts
      <3> QED
        BY <1>0, <1>1, <1>2, <2>1, <3>1 DEF ContextInv, ContextsKnown
    <2> QED
      BY <1>0, <2>1 DEF ContextInv, ContextsKnown
  <1>8. CallbackAlive'
    <2> SUFFICES ASSUME callback' # Null, \A u \in Callers : ~EndsItsOwn(u)'
                 PROVE  ~Ending(callback)'
      BY DEF CallbackAlive
    <2>1. callback \in Contexts /\ ~Ending(callback)
      BY <1>0, <1>5 DEF ContextInv, CallbackAlive
    <2> QED
      BY <1>0, <1>3, <1>6, <2>1 DEF Ending, Queued
  <1>9. TargetAlive'
    <2> SUFFICES ASSUME NEW u \in Callers, Taken(u)'
                 PROVE  target'[u] # callback' /\ ~Ending(target[u])'
      BY DEF TargetAlive
    <2>1. u # t /\ target[u] \in Contexts /\ target[u] # callback /\ ~Ending(target[u]) /\ target[u] # target[t]
      BY <1>0, <1>4, <1>6 DEF ContextInv, TargetAlive, Taken
    <2> QED
      BY <1>0, <1>3, <2>1 DEF Ending, Queued
  <1>10. OneTaker'
    BY <1>0, <1>1, <1>4 DEF ContextInv, OneTaker, Taken
  <1> QED
    BY <1>7, <1>8, <1>9, <1>10 DEF ContextInv

-----------------------------------------------------------------------------
(* There is no context initially.                                           *)
LEMMA ContextInit == Init => ContextInv
  <1> SUFFICES ASSUME Init PROVE ContextInv
    OBVIOUS
  <1>1. ContextsKnown
    BY NullIsNoCaller DEF Init, ContextsKnown, Null, Callers, Contexts
  <1>2. CallbackAlive /\ TargetAlive /\ OneTaker
    BY DEF Init, CallbackAlive, TargetAlive, OneTaker, Taken
  <1> QED
    BY <1>1, <1>2 DEF ContextInv

(* What a step does to what the workers have found: one of them reads       *)
(* ipcon_p->callback or puts, or ipcon_p->callback changes beside them,     *)
(* from NULL only while there is no socket.                                 *)
FindsOrPuts(w) ==
    /\ UNCHANGED <<socket, callback>> /\ \A v \in Workers \ {w} : Puts(v)' => Puts(v)
    /\ FindQueue(w) \/ (into' = [into EXCEPT ![w] = Null] /\ ~Puts(w)')
FoundChanges ==
    /\ contexts' \in {contexts, contexts + 1}
    /\ \/ \E w \in Workers : FindsOrPuts(w)
       \/ /\ UNCHANGED into /\ \A w \in Workers : Puts(w)' => Puts(w)
          /\ callback' \in {callback, Null} \/ socket' = Null

(* Every step is one of these.                                              *)
LEMMA FoundStep == TypeOK /\ ProbeInv /\ [Next]_vars => FoundChanges
  <1> SUFFICES ASSUME TypeOK, ProbeInv, [Next]_vars PROVE FoundChanges
    OBVIOUS
  <1>0. wpc \in [Workers -> WorkerStates] /\ \A s \in Sockets : <<"receive", s>> \in Workers
    BY DEF TypeOK, TypeWorker, Workers
  <1> USE <1>0 DEF FoundChanges, Puts, worker, context
  <1>1. ASSUME NEW t \in Callers, CallerNext(t) PROVE FoundChanges
    <2>1. CASE TakeMutex(t) \/ \E f \in Functions : Call(t, f)
      BY <2>1 DEF TakeMutex, Call, ReturnAtOnce, BeginConnect, NotConnected, AbortPending, TakeContext,
                  BeginDisconnect, SendOk, SendFails
    <2>2. CASE \E b \in BOOLEAN : SetAutoReconnect(t, b)
      BY <2>2 DEF SetAutoReconnect
    <2>3. CASE CreateContext(t)
      <3>1. socket = Null
        BY <2>3 DEF CreateContext, ProbeInv, SocketWhere
      <3> QED
        BY <2>3, <3>1 DEF CreateContext, net
    <2>4. CASE CreateContextFails(t) \/ ConnectFails(t) \/ ProbeThreadFails(t) \/ Close(t) \/ JoinCallback(t)
      BY <2>4 DEF CreateContextFails, ConnectFails, ProbeThreadFails, Close, JoinCallback, ConnectFailed,
                  ExitCallbackThread, TakeContext
    <2>5. CASE ConnectOk(t)
      BY <2>5 DEF ConnectOk
    <2>6. CASE StartReceiver(t)
      BY <2>6 DEF StartReceiver
    <2>7. CASE ReceiveThreadFails(t) \/ StoreFlags(t) \/ Announce(t) \/ JoinProbe(t) \/ JoinReceive(t) \/ HandOver(t)
      BY <2>7 DEF ReceiveThreadFails, StoreFlags, Announce, JoinProbe, JoinReceive, HandOver
    <2> QED
      BY <1>1, <2>1, <2>2, <2>3, <2>4, <2>5, <2>6, <2>7 DEF CallerNext, Advance
  <1>2. ASSUME NEW c \in Contexts, TakeMutexInLoop(c) \/ AdvanceLoop(c) PROVE FoundChanges
    BY <1>2 DEF TakeMutexInLoop, AdvanceLoop, TeardownLost, SkipLost, Retry, GiveUp, Pop,
                CallbackReturns, SetPending
  <1>3. ASSUME NEW s \in Sockets, ReceivePacket(s) PROVE FoundChanges
    <2>1. FindsOrPuts(<<"receive", s>>)
      BY <1>3 DEF ReceivePacket, FindsOrPuts, WorkerGoto, net
    <2> QED
      BY <1>3, <2>1 DEF ReceivePacket
  <1>4. ASSUME NEW s \in Sockets, QueuePacket(s) PROVE FoundChanges
    <2>1. FindsOrPuts(<<"receive", s>>)
      BY <1>4 DEF QueuePacket, PutFound, FindsOrPuts, WorkerGoto, net
    <2> QED
      BY <1>4, <2>1 DEF QueuePacket
  <1>5. ASSUME NEW w \in Workers, FindReportQueue(w) PROVE FoundChanges
    <2>1. FindsOrPuts(w)
      BY <1>5 DEF FindReportQueue, FindsOrPuts, WorkerGoto, net
    <2> QED
      BY <1>5, <2>1 DEF FindReportQueue
  <1>6. ASSUME NEW w \in Workers, ReportLost(w) PROVE FoundChanges
    <2>1. FindsOrPuts(w)
      BY <1>6 DEF ReportLost, PutFound, FindsOrPuts, WorkerGoto, net
    <2> QED
      BY <1>6, <2>1 DEF ReportLost
  <1>7. ASSUME NEW w \in Workers, AllowReconnect(w) PROVE FoundChanges
    BY <1>7 DEF AllowReconnect, WorkerGoto
  <1>8. ASSUME NEW s \in Sockets,
               ReceiverStart(s) \/ Receive(s) \/ ReceiverStops(s) \/ ReceiveFails(s)
                   \/ ProbeStops(s) \/ ProbeTick(s) \/ SendProbe(s) \/ LoseConnection(s)
        PROVE  FoundChanges
    BY <1>8 DEF ReceiverStart, Receive, ReceiverStops, ReceiveFails, ProbeStops, ProbeTick, SendProbe,
                LoseConnection, WorkerGoto, Workers
  <1>9. CASE Crash \/ UNCHANGED vars
    BY <1>9 DEF Crash, vars, net
  <1>10. ASSUME NEW s \in Sockets, ReceiverStep(s) \/ ReceivePacket(s) \/ ProbeStep(s) \/ LoseConnection(s)
         PROVE  FoundChanges
    BY <1>3, <1>4, <1>5, <1>6, <1>7, <1>8, <1>10 DEF ReceiverStep, ProbeStep, ReportStep, Workers
  <1> QED
    BY <1>1, <1>2, <1>9, <1>10 DEF Next

(* What a worker has found is a context that was created.                   *)
LEMMA FoundKnownStep == TypeOK /\ ProbeInv /\ ContextInv /\ FoundKnown /\ [Next]_vars => FoundKnown'
  <1> SUFFICES ASSUME TypeOK, ProbeInv, ContextInv, FoundKnown, [Next]_vars, NEW w \in Workers
               PROVE  into'[w] <= contexts'
    BY DEF FoundKnown
  <1>1. contexts \in Nat /\ contexts' \in {contexts, contexts + 1}
    BY FoundStep, BoundsAssumption DEF FoundChanges, TypeOK, TypeContext
  <1>2. into \in [Workers -> Contexts \cup {Null}] /\ callback \in Contexts \cup {Null}
    BY DEF TypeOK, TypeWorker, TypeContext
  <1>3. into[w] <= contexts /\ callback <= contexts
    BY DEF FoundKnown, ContextInv, ContextsKnown
  <1>4. into'[w] \in {into[w], callback, Null}
    BY <1>2, FoundStep DEF FoundChanges, FindsOrPuts, FindQueue
  <1> QED
    BY <1>1, <1>2, <1>3, <1>4 DEF Contexts, Null

(* Every step keeps that a context is ended by the one who took it.         *)
LEMMA ContextStep == TypeOK /\ ProbeInv /\ ContextInv /\ FoundKnown /\ [Next]_vars => ContextInv'
  <1> SUFFICES ASSUME TypeOK, ProbeInv, ContextInv, FoundKnown, [Next]_vars PROVE ContextInv'
    OBVIOUS
  <1>0. /\ Contexts \subseteq Callers /\ pc \in [Callers -> CallerStates] /\ op \in [Callers -> Ops]
        /\ callback \in Contexts \cup {Null} /\ contexts \in Nat /\ TypeContext
    BY BoundsAssumption DEF TypeOK, TypeCall, TypeContext, Callers
  <1> USE <1>0
  (* A caller that moves on and touches neither contexts nor queues.        *)
  <1>1. ASSUME NEW t \in Callers, pc[t] # "none", ~EndsItsOwn(t),
               UNCHANGED <<callback, contexts, target, queue>>,
               NEW w \in CallerStates \ {"handOver", "exited"}, Goto(t, w),
               op' = op \/ \E o \in Ops : op' = [op EXCEPT ![t] = o]
        PROVE  ContextInv'
    <2>1. pc'[t] = w /\ \A u \in Callers \ {t} : pc'[u] = pc[u] /\ op'[u] = op[u]
      BY <1>1 DEF Goto
    <2>2. \A c \in Contexts : Queued(c)' = Queued(c)
      BY <1>1 DEF Queued
    <2> QED
      BY <1>1, <2>1, <2>2, ContextFrame, {t} \in SUBSET Callers
  (* A caller that queues an item which ends no context.                    *)
  <1>2. ASSUME NEW t \in Callers, pc[t] # "none", ~EndsItsOwn(t),
               UNCHANGED <<callback, contexts, target>>,
               NEW w \in CallerStates \ {"handOver", "exited"}, Leave(t, w),
               NEW i \in Items, i.kind \notin {"exit", "destroyAndExit"}, Put(callback, i)
        PROVE  ContextInv'
    <2>1. pc'[t] = w /\ \A u \in Callers \ {t} : pc'[u] = pc[u] /\ op'[u] = op[u]
      BY <1>2 DEF Leave, Goto
    <2>2. \A c \in Contexts : \A j \in Queued(c)' : j \in Queued(c) \/ j = i
      BY <1>2, PutQueued
    <2>3. \A c \in Contexts : c > contexts => queue'[c] = queue[c]
      BY <1>2 DEF Put, ContextInv, ContextsKnown, TypeContext, Contexts, Null
    <2> QED
      BY <1>2, <2>1, <2>2, <2>3, ContextFrame, {t} \in SUBSET Callers
  (* A worker, which changes no caller.                                     *)
  <1>3. ASSUME UNCHANGED <<callback, contexts, target, pc, op>>,
               \/ UNCHANGED queue
               \/ \E v \in Workers, i \in Items : i.kind \in {"packet", "lost"} /\ Put(into[v], i)
        PROVE  ContextInv'
    <2>1. CASE UNCHANGED queue
      <3>1. \A c \in Contexts : Queued(c)' = Queued(c)
        BY <2>1 DEF Queued
      <3> QED
        BY <1>3, <2>1, <3>1, ContextFrame, {} \in SUBSET Callers
    <2>2. ASSUME NEW v \in Workers, NEW i \in Items, i.kind \in {"packet", "lost"}, Put(into[v], i)
          PROVE  ContextInv'
      <3>0. into[v] \in Contexts \cup {Null} /\ into[v] <= contexts
        BY DEF FoundKnown, TypeOK, TypeWorker
      <3>1. \A c \in Contexts : \A j \in Queued(c)' : j \in Queued(c) \/ j = i
        BY <2>2, <3>0, PutQueued
      <3>2. \A c \in Contexts : c > contexts => queue'[c] = queue[c]
        BY <2>2, <3>0 DEF Put, TypeContext, Contexts, Null
      <3> QED
        BY <1>3, <2>2, <3>1, <3>2, ContextFrame, {} \in SUBSET Callers
    <2> QED
      BY <1>3, <2>1, <2>2
  <1>4. \A t \in Callers : Base(t) \in CallerStates \ {"handOver", "exited"} /\ Base(t) # "none"
    BY BaseType DEF CallerStates
  <1>10. ASSUME NEW t \in Callers, CallerNext(t) PROVE ContextInv'
    <2>1. ASSUME NEW f \in Functions, Call(t, f) PROVE ContextInv'
      BY <1>1, <1>4, <2>1, BaseType DEF Call, MayCall, EndsItsOwn, context, CallerStates, Ops
    <2>2. ASSUME NEW b \in BOOLEAN, SetAutoReconnect(t, b) PROVE ContextInv'
      BY <1>3, <2>2 DEF SetAutoReconnect, context, call
    <2>3. CASE ReturnAtOnce(t) \/ NotConnected(t) \/ SendOk(t)
      BY <1>1, <1>4, <2>3 DEF ReturnAtOnce, NotConnected, SendOk, Enter, Leave, EndsItsOwn, context, Ops
    <2>4. CASE BeginConnect(t) \/ BeginDisconnect(t) \/ SendFails(t)
      BY <1>1, <2>4 DEF BeginConnect, BeginDisconnect, SendFails, StopProbe, Enter, EndsItsOwn, context, CallerStates
    <2>6. CASE AbortPending(t)
      BY <2>6, ContextTake, OneEndsItsOwn DEF AbortPending, Enter
    <2>10. CASE CreateContext(t)
      BY <2>10, ContextCreate
    <2>11. CASE CreateContextFails(t)
      BY <1>1, <1>4, <2>11 DEF CreateContextFails, Leave, EndsItsOwn, context, CallerStates, Ops
    <2>12. CASE ConnectFails(t) \/ ProbeThreadFails(t)
      BY <2>12, ContextConnectFailed DEF ConnectFails, ProbeThreadFails, ProbeInv, OpsWhere
    <2>13. CASE ConnectOk(t) \/ StartReceiver(t)
      BY <1>1, <2>13 DEF ConnectOk, StartReceiver, EndsItsOwn, context, CallerStates
    <2>14. CASE ReceiveThreadFails(t) \/ StoreFlags(t)
      BY <1>1, <2>14 DEF ReceiveThreadFails, StopProbe, StoreFlags, EndsItsOwn, context, CallerStates
    <2>18. CASE Announce(t)
      <3>1. Item("connected") \in Items /\ Item("connected").kind = "connected"
        BY ItemType DEF ItemKinds, Item
      <3>2. (IF op[t] = "reconnect" THEN "loop" ELSE Base(t)) \in CallerStates \ {"handOver", "exited"}
        BY <1>4 DEF CallerStates
      <3> QED
        BY <1>2, <2>18, <3>1, <3>2 DEF Announce, EndsItsOwn, context
    <2>19. CASE JoinProbe(t) \/ JoinReceive(t)
      BY <1>1, <2>19 DEF JoinProbe, JoinReceive, EndsItsOwn, context, CallerStates
    <2>21. CASE Close(t)
      <3>1. CASE op[t] \in Disconnects /\ TakeContext(t)
        BY <2>21, <3>1, ContextTake, OneEndsItsOwn DEF Close, Holds, EndsItsOwn
      <3>2. CASE op[t] = "send" /\ Put(callback, Lost(0)) /\ Leave(t, Base(t)) /\ UNCHANGED <<context, target>>
        <4>1. Lost(0) \in Items /\ Lost(0).kind = "lost"
          BY ItemType, BoundsAssumption DEF Lost
        <4> QED
          BY <1>2, <1>4, <2>21, <3>2, <4>1 DEF Close, EndsItsOwn, context
      <3>3. CASE op[t] = "meta" /\ Leave(t, Base(t)) /\ UNCHANGED <<context, queue, target>>
        BY <1>1, <1>4, <2>21, <3>3 DEF Close, Leave, EndsItsOwn, context, Ops
      <3>4. CASE op[t] \in {"connect", "reconnect"} /\ ConnectFailed(t)
        BY <2>21, <3>4, ContextConnectFailed DEF Close
      <3> QED
        BY <2>21, <3>1, <3>2, <3>3, <3>4 DEF Close
    <2>22. CASE HandOver(t)
      BY <2>22, ContextHandOver DEF HandOver, ProbeInv, OpsWhere, Disconnects
    <2>23. CASE JoinCallback(t)
      <3>1. CASE op[t] = "connect"
        <4>1. /\ callback' = Null /\ pc' = [pc EXCEPT ![t] = Base(t)] /\ pc[t] = "joinCallback"
              /\ UNCHANGED <<contexts, target, queue>>
          BY <2>23, <3>1 DEF JoinCallback, Leave, Goto
        <4>2. \A c \in Contexts : Ending(c)' => Ending(c)
          BY <1>4, <4>1 DEF Ending, Queued
        <4>3. \A u \in Callers : Taken(u)' => Taken(u) /\ u # t /\ target[u] \in Contexts
          BY <1>4, <4>1 DEF Taken, TypeOK, TypeCall
        <4>4. ContextsKnown' /\ CallbackAlive'
          BY <4>1 DEF ContextInv, ContextsKnown, CallbackAlive, Null
        <4>5. TargetAlive'
          <5> SUFFICES ASSUME NEW u \in Callers, Taken(u)'
                       PROVE  target'[u] # callback' /\ ~Ending(target[u])'
            BY DEF TargetAlive
          <5>1. target[u] \in Contexts /\ ~Ending(target[u])
            BY <4>3 DEF ContextInv, TargetAlive
          <5> QED
            BY <4>1, <4>2, <5>1, NullIsNoCaller DEF Ending, Queued, Callers
        <4>6. OneTaker'
          BY <1>4, <4>1, <4>3 DEF ContextInv, OneTaker, Taken
        <4> QED
          BY <4>4, <4>5, <4>6 DEF ContextInv
      <3>2. CASE op[t] # "connect"
        BY <1>1, <1>4, <2>23, <3>2 DEF JoinCallback, Leave, EndsItsOwn, Ops
      <3> QED
        BY <3>1, <3>2
    <2> QED
      BY <1>10, <2>1, <2>2, <2>3, <2>4, <2>6, <2>10, <2>11, <2>12, <2>13, <2>14, <2>18, <2>19, <2>21, <2>22, <2>23
      DEF CallerNext, TakeMutex, Advance
  <1>11. ASSUME NEW c \in Contexts, TakeMutexInLoop(c) \/ AdvanceLoop(c) PROVE ContextInv'
    <2>1. CASE Pop(c)
      <3>1. /\ pc[c] = "loop" /\ queue[c] # <<>> /\ queue' = [queue EXCEPT ![c] = Tail(@)]
            /\ UNCHANGED <<callback, contexts, target, op>>
            /\ pc' = [pc EXCEPT ![c] = AfterPop(c, Head(queue[c]))]
        BY <2>1 DEF Pop, Goto
      <3>2. Head(queue[c]) \in Queued(c) /\ Head(queue[c]) \in Items
        BY <3>1, PopQueued
      <3>3. \A d \in Contexts : Queued(d)' \subseteq Queued(d)
        BY <3>1, PopQueued
      <3>4. \A d \in Contexts : d > contexts => queue'[d] = queue[d]
        BY <3>1 DEF ContextInv, ContextsKnown
      <3>5. CASE pc'[c] # "exited"
        <4>1. pc'[c] \notin {"handOver", "exited"} /\ ~EndsItsOwn(c)
          BY <3>1, <3>2, <3>5, AfterPopType DEF EndsItsOwn
        <4>2. \A u \in Callers \ {c} : pc'[u] = pc[u] /\ op'[u] = op[u]
          BY <3>1
        <4> QED
          BY <3>1, <3>3, <3>4, <4>1, <4>2, ContextFrame, {c} \in SUBSET Callers
      <3>6. CASE pc'[c] = "exited"
        <4>1. Head(queue[c]).kind \in {"exit", "destroyAndExit"}
          BY <3>1, <3>6 DEF AfterPop
        <4>2. Ending(c)
          BY <3>2, <4>1 DEF Ending
        <4>3. \A d \in Contexts : Ending(d)' => Ending(d)
          BY <3>1, <3>3, <4>2 DEF Ending
        <4>4. \A u \in Callers : (Taken(u)' <=> Taken(u)) /\ (EndsItsOwn(u)' <=> EndsItsOwn(u))
          BY <3>1, <3>6 DEF Taken, EndsItsOwn
        <4>5. ContextsKnown'
          BY <3>1, <3>4 DEF ContextInv, ContextsKnown
        <4>6. CallbackAlive'
          <5> SUFFICES ASSUME callback' # Null, \A u \in Callers : ~EndsItsOwn(u)'
                       PROVE  ~Ending(callback)'
            BY DEF CallbackAlive
          <5>1. callback \in Contexts /\ ~Ending(callback)
            BY <3>1, <4>4 DEF ContextInv, CallbackAlive
          <5> QED
            BY <3>1, <4>3, <5>1 DEF Ending, Queued
        <4>7. TargetAlive'
          <5> SUFFICES ASSUME NEW u \in Callers, Taken(u)'
                       PROVE  target'[u] # callback' /\ ~Ending(target[u])'
            BY DEF TargetAlive
          <5>1. target[u] \in Contexts /\ ~Ending(target[u]) /\ target[u] # callback
            BY <4>4 DEF ContextInv, TargetAlive, Taken, TypeOK, TypeCall
          <5> QED
            BY <3>1, <4>3, <5>1 DEF Ending, Queued
        <4>8. OneTaker'
          BY <3>1, <3>6, <4>4 DEF ContextInv, OneTaker
        <4> QED
          BY <4>5, <4>6, <4>7, <4>8 DEF ContextInv
      <3> QED
        BY <3>5, <3>6
    <2>2. CASE TeardownLost(c) \/ SkipLost(c)
      BY <1>1, <2>2 DEF TeardownLost, StopProbe, SkipLost, EndsItsOwn, context, CallerStates, Ops
    <2>3. CASE CallbackReturns(c) \/ SetPending(c)
      BY <1>1, <2>3 DEF CallbackReturns, SetPending, EndsItsOwn, context, CallerStates
    <2>4. CASE Retry(c) \/ GiveUp(c)
      BY <1>1, <2>4 DEF Retry, GiveUp, EndsItsOwn, context, CallerStates, Ops
    <2> QED
      BY <1>11, <2>1, <2>2, <2>3, <2>4 DEF TakeMutexInLoop, AdvanceLoop
  <1>12. ASSUME NEW s \in Sockets,
                ReceiverStep(s) \/ ReceivePacket(s) \/ ProbeStep(s) \/ LoseConnection(s)
         PROVE  ContextInv'
    <2>1. CASE QueuePacket(s)
      <3>1. Item("packet") \in Items /\ Item("packet").kind = "packet"
        BY ItemType DEF ItemKinds, Item
      <3> QED
        BY <1>3, <2>1, <3>1 DEF QueuePacket, PutFound, context, call, Workers
    <2>2. ASSUME NEW w \in Workers, ReportLost(w) PROVE ContextInv'
      <3> DEFINE id == IF w[1] = "receive" THEN rid[w[2]] ELSE socket_id
      <3>1. id \in 0 .. MaxSockets
        BY DEF Workers, TypeOK, TypeWorker, TypeNet
      <3>2. Lost(id) \in Items /\ Lost(id).kind = "lost"
        BY <3>1, ItemType DEF Lost
      <3> QED
        BY <1>3, <2>2, <3>2 DEF ReportLost, PutFound, context, call
    <2>3. ASSUME NEW w \in Workers, AllowReconnect(w) \/ FindReportQueue(w) PROVE ContextInv'
      BY <1>3, <2>3 DEF AllowReconnect, FindReportQueue, context, call
    <2>4. CASE ReceiverStart(s) \/ Receive(s) \/ ReceiverStops(s) \/ ReceiveFails(s) \/ ReceivePacket(s)
      BY <1>3, <2>4 DEF ReceiverStart, Receive, ReceiverStops, ReceiveFails, ReceivePacket, context, call
    <2>5. CASE ProbeStops(s) \/ ProbeTick(s) \/ SendProbe(s) \/ LoseConnection(s)
      BY <1>3, <2>5 DEF ProbeStops, ProbeTick, SendProbe, LoseConnection, context, call
    <2> QED
      BY <1>12, <2>1, <2>2, <2>3, <2>4, <2>5 DEF ReceiverStep, ProbeStep, ReportStep, Workers
  <1>13. CASE Crash
    BY <1>3, <1>13 DEF Crash, context, call
  <1>14. CASE UNCHANGED vars
    BY <1>3, <1>14 DEF vars, context, call
  <1> QED
    BY <1>10, <1>11, <1>12, <1>13, <1>14 DEF Next

-----------------------------------------------------------------------------
(* A worker that takes a step has been running, and no worker comes back.   *)
WorkerMoves(w) ==
    /\ Running(w)
    /\ \E k \in WorkerStates \ {"none", "start"} :
          wpc' = [wpc EXCEPT ![w] = k] /\ (k = "reported" => wpc[w] = "put")
    /\ UNCHANGED <<pc, op, socket, socket_id, receive_flag, item>>

LEMMA WorkersMove ==
    ASSUME NEW s \in Sockets, ReceiverStep(s) \/ ReceivePacket(s) \/ ProbeStep(s)
    PROVE  WorkerMoves(<<"receive", s>>) \/ WorkerMoves(<<"probe", s>>)
  <1> USE DEF WorkerMoves, WorkerGoto, Running, WorkerStates, call, net, context
  <1>1. ASSUME NEW k \in {"receive", "probe"}, ReportStep(<<k, s>>) PROVE WorkerMoves(<<k, s>>)
    BY <1>1 DEF ReportStep, AllowReconnect, FindReportQueue, ReportLost
  <1>2. CASE ReceiverStart(s) \/ Receive(s) \/ ReceiverStops(s) \/ ReceiveFails(s)
    BY <1>2 DEF ReceiverStart, Receive, ReceiverStops, ReceiveFails
  <1>3. CASE ReceivePacket(s) \/ QueuePacket(s)
    BY <1>3 DEF ReceivePacket, QueuePacket
  <1>4. CASE ProbeStops(s) \/ ProbeTick(s) \/ SendProbe(s)
    BY <1>4 DEF ProbeStops, ProbeTick, SendProbe
  <1> QED
    BY <1>1, <1>2, <1>3, <1>4 DEF ReceiverStep, ProbeStep

(* Only a connect creates workers, and only for its new socket.             *)
LEMMA WorkersStep ==
    ASSUME TypeOK, [Next]_vars
    PROVE  \/ UNCHANGED wpc
           \/ \E t \in Callers : ConnectOk(t) \/ StartReceiver(t)
           \/ \E w \in Workers : WorkerMoves(w)
  <1> DEFINE Goal == \/ UNCHANGED wpc
                     \/ \E t \in Callers : ConnectOk(t) \/ StartReceiver(t)
                     \/ \E w \in Workers : WorkerMoves(w)
  <1> USE DEF worker
  <1>1. ASSUME NEW t \in Callers, CallerNext(t) PROVE Goal
    <2>1. CASE TakeMutex(t) \/ \E f \in Functions : Call(t, f)
      BY <2>1 DEF TakeMutex, Call, ReturnAtOnce, BeginConnect, NotConnected, AbortPending, BeginDisconnect,
                  SendOk, SendFails
    <2>2. CASE \E b \in BOOLEAN : SetAutoReconnect(t, b)
      BY <2>2 DEF SetAutoReconnect
    <2>3. CASE Advance(t)
      BY <2>3 DEF Advance, CreateContext, CreateContextFails, ConnectFails, ProbeThreadFails, ReceiveThreadFails,
                  StoreFlags, Announce, JoinProbe, JoinReceive, Close, HandOver, JoinCallback
    <2> QED
      BY <1>1, <2>1, <2>2, <2>3 DEF CallerNext
  <1>2. ASSUME NEW c \in Contexts, TakeMutexInLoop(c) \/ AdvanceLoop(c) PROVE Goal
    BY <1>2 DEF TakeMutexInLoop, AdvanceLoop, TeardownLost, SkipLost, Retry, GiveUp, Pop,
                CallbackReturns, SetPending
  <1>3. ASSUME NEW s \in Sockets, ReceiverStep(s) \/ ReceivePacket(s) \/ ProbeStep(s) PROVE Goal
    <2>1. <<"receive", s>> \in Workers /\ <<"probe", s>> \in Workers
      BY DEF Workers
    <2> QED
      BY <1>3, <2>1, WorkersMove
  <1>4. ASSUME NEW s \in Sockets, LoseConnection(s) PROVE Goal
    BY <1>4 DEF LoseConnection
  <1>5. CASE Crash \/ UNCHANGED vars
    BY <1>5 DEF Crash, vars
  <1> QED
    BY <1>1, <1>2, <1>3, <1>4, <1>5 DEF Next

(* A probe thread that has reported a loss remains one that has.            *)
LEMMA StaysReported ==
    ASSUME TypeOK, WorkersCreated, ProbeReported, [Next]_vars
    PROVE  ProbeReported'
  <1>0. wpc \in [Workers -> WorkerStates] /\ socket_id \in Int
    BY DEF TypeOK, TypeWorker, TypeNet
  <1>1. PICK s \in Sockets : wpc[<<"probe", s>>] = "reported" /\ <<"probe", s>> \in Workers
    BY DEF ProbeReported, Workers
  <1>2. ~(s > socket_id)
    BY <1>1 DEF WorkersCreated
  <1>3. wpc'[<<"probe", s>>] = "reported"
    <2>1. ASSUME NEW t \in Callers, ConnectOk(t) PROVE wpc'[<<"probe", s>>] = wpc[<<"probe", s>>]
      <3>1. socket_id + 1 # s
        BY <1>0, <1>2 DEF Sockets
      <3> QED
        BY <1>0, <1>1, <2>1, <3>1 DEF ConnectOk
    <2>2. ASSUME NEW t \in Callers, StartReceiver(t) PROVE wpc'[<<"probe", s>>] = wpc[<<"probe", s>>]
      BY <1>0, <1>1, <2>2 DEF StartReceiver
    <2>3. ASSUME NEW w \in Workers, WorkerMoves(w) PROVE wpc'[<<"probe", s>>] = wpc[<<"probe", s>>]
      BY <1>0, <1>1, <2>3 DEF WorkerMoves, Running
    <2> QED
      BY <1>1, <2>1, <2>2, <2>3, WorkersStep
  <1> QED
    BY <1>3 DEF ProbeReported

(* No socket has a receive thread initially.                                *)
LEMMA JoinedInit == Init => JoinedInv
  <1> SUFFICES ASSUME Init PROVE JoinedInv
    OBVIOUS
  <1>1. \A s \in Sockets : <<"receive", s>> \in Workers
    BY DEF Workers
  <1>2. JoinsFirst /\ ReceiverIds /\ TeardownSpent /\ SocketReceived
    BY <1>1 DEF Init, JoinsFirst, WorkersCreated, FlagSet, CloserJoined, ReceiverIds, TeardownSpent,
                SocketReceived, Receives, Running, EndsItsOwn
  <1>3. OnlyReceiversReport
    BY BoundsAssumption DEF Init, OnlyReceiversReport, Queued, Spent, Item
  <1> QED
    BY <1>2, <1>3 DEF JoinedInv, ReceiversAlone

(* Every step keeps that who closes a socket, and is not the callback       *)
(* thread with a lost connection, joins its receive thread first.           *)
LEMMA JoinsFirstStep == TypeOK /\ ProbeInv /\ JoinsFirst /\ [Next]_vars => JoinsFirst'
  <1> SUFFICES ASSUME TypeOK, ProbeInv, JoinsFirst, [Next]_vars PROVE JoinsFirst'
    OBVIOUS
  <1>0. /\ pc \in [Callers -> CallerStates] /\ op \in [Callers -> Ops] /\ wpc \in [Workers -> WorkerStates]
        /\ socket \in Sockets \cup {Null} /\ socket_id \in 0 .. MaxSockets /\ Contexts \subseteq Callers
        /\ TypeContext /\ \A s \in Sockets : <<"receive", s>> \in Workers
    BY DEF TypeOK, TypeCall, TypeWorker, TypeNet, Workers, Callers
  <1> USE <1>0, BaseType DEF JoinsFirst
  (* Callers S move on where no receive thread is at stake.                 *)
  <1>1. ASSUME UNCHANGED <<socket, socket_id, receive_flag>>,
               \A w \in Workers : wpc[w] = "none" => wpc'[w] = "none",
               \A s \in Sockets : Receives(s)' => Receives(s),
               NEW S \in SUBSET Callers,
               \A t \in S : /\ pc[t] # "joinReceive" /\ pc'[t] \notin {"receiver", "close"}
                            /\ EndsItsOwn(t)' => socket = Null,
               \A t \in Callers \ S : pc'[t] = pc[t] /\ op'[t] = op[t]
        PROVE  JoinsFirst'
    <2>1. WorkersCreated'
      <3>1. \A t \in Callers : pc'[t] = "receiver" => pc[t] = "receiver" /\ socket # Null
        BY <1>1 DEF ProbeInv, SocketWhere
      <3> QED
        BY <1>1, <3>1 DEF WorkersCreated
    <2>2. FlagSet'
      BY <1>1 DEF FlagSet
    <2>3. CloserJoined'
      BY <1>1 DEF CloserJoined, EndsItsOwn
    <2> QED
      BY <2>1, <2>2, <2>3
  <1>2. ASSUME wpc' = wpc
        PROVE  /\ \A w \in Workers : wpc[w] = "none" => wpc'[w] = "none"
               /\ \A s \in Sockets : Receives(s)' = Receives(s)
    BY <1>2 DEF Receives, Running
  (* The callers that hold the socket_mutex.                                *)
  <1>3. ASSUME NEW t \in Callers, Holds(t) PROVE \A u \in Callers \ {t} : ~Holds(u)
    BY <1>3 DEF ProbeInv, MutexHeld
  <1>4. ASSUME NEW t \in Callers, CallerNext(t) PROVE JoinsFirst'
    <2> {t} \in SUBSET Callers
      OBVIOUS
    <2>1. ASSUME NEW f \in Functions, Call(t, f) PROVE JoinsFirst'
      BY <1>1, <1>2, <2>1 DEF Call, MayCall, Goto, EndsItsOwn, net, worker
    <2>2. ASSUME NEW b \in BOOLEAN, SetAutoReconnect(t, b) PROVE JoinsFirst'
      BY <1>1, <1>2, <2>2, {} \in SUBSET Callers DEF SetAutoReconnect, call, net, worker
    <2>3. CASE ReturnAtOnce(t) \/ NotConnected(t) \/ SendOk(t)
      BY <1>1, <1>2, <2>3 DEF ReturnAtOnce, NotConnected, SendOk, Enter, Leave, Goto, EndsItsOwn, net, worker
    <2>4. CASE BeginConnect(t) \/ BeginDisconnect(t) \/ SendFails(t)
      BY <1>1, <1>2, <2>4 DEF BeginConnect, BeginDisconnect, SendFails, StopProbe, Enter, Goto, EndsItsOwn,
                              net, worker
    <2>5. CASE AbortPending(t)
      BY <1>1, <1>2, <2>5 DEF AbortPending, TakeContext, Enter, Goto, EndsItsOwn, net, worker
    <2>6. CASE CreateContext(t)
      <3>1. PICK S \in SUBSET Callers :
                /\ \A u \in S : pc[u] # "joinReceive" /\ pc'[u] \in {"attempt", "loop"}
                /\ \A u \in Callers \ S : pc'[u] = pc[u]
        <4>1. CASE callback # Null
          <5>1. pc[t] = "context" /\ pc' = [pc EXCEPT ![t] = "attempt"]
            BY <2>6, <4>1 DEF CreateContext, Goto
          <5> QED
            BY <5>1
        <4>2. CASE callback = Null
          <5>1. contexts + 1 \in Callers
            BY <2>6, <4>2, BoundsAssumption DEF CreateContext, Contexts, TypeContext
          <5>2. pc[contexts + 1] # "joinReceive" /\ pc[t] # "joinReceive"
            BY <1>3, <2>6, <5>1 DEF CreateContext, Holds
          <5>3. pc' = [pc EXCEPT ![t] = "attempt", ![contexts + 1] = "loop"]
            BY <2>6, <4>2 DEF CreateContext
          <5> QED
            BY <5>1, <5>2, <5>3, {t, contexts + 1} \in SUBSET Callers
        <4> QED
          BY <4>1, <4>2
      <3> QED
        BY <1>1, <1>2, <2>6, <3>1 DEF CreateContext, EndsItsOwn, net, worker
    <2>7. CASE CreateContextFails(t)
      BY <1>1, <1>2, <2>7 DEF CreateContextFails, Leave, Goto, EndsItsOwn, net, worker
    <2>8. CASE ConnectFails(t)
      <3>1. socket = Null /\ pc[t] = "attempt"
        BY <2>8 DEF ConnectFails, ProbeInv, SocketWhere
      <3>2. /\ pc'[t] \in {"retry", "idle", "callback", "joinCallback"}
            /\ \A u \in Callers \ {t} : pc'[u] = pc[u] /\ op'[u] = op[u]
        BY <2>8, ConnectFailedEffect DEF ConnectFails
      <3> QED
        BY <1>1, <1>2, <2>8, <3>1, <3>2 DEF ConnectFails, net, worker
    <2>9. CASE ConnectOk(t)
      <3>1. PICK n \in Sockets : n = socket_id + 1
        BY <2>9, BoundsAssumption DEF ConnectOk, Sockets
      <3>2. /\ socket = Null /\ socket' = n /\ socket_id' = n
            /\ wpc' = [wpc EXCEPT ![<<"probe", n>>] = "wait"]
        BY <2>9, <3>1 DEF ConnectOk, Goto, ProbeInv, SocketWhere
      <3>3. \A w \in Workers : w[2] > n => wpc'[w] = "none"
        BY <3>1, <3>2 DEF WorkersCreated, Workers, Sockets
      <3>4. wpc'[<<"receive", n>>] = "none"
        BY <3>1, <3>2 DEF WorkersCreated, Workers
      <3> QED
        BY <3>2, <3>3, <3>4 DEF WorkersCreated, FlagSet, CloserJoined, Receives, Running
    <2>10. CASE ProbeThreadFails(t)
      <3>1. PICK n \in Sockets : n = socket_id + 1
        BY <2>10, BoundsAssumption DEF ProbeThreadFails, Sockets
      <3>2. /\ socket' \in {n, Null} /\ socket_id' = n /\ wpc' = wpc /\ pc[t] = "attempt"
        BY <2>10, <3>1 DEF ProbeThreadFails, worker
      <3>3. \A u \in Callers : pc'[u] # "receiver"
        BY <1>3, <2>10, ConnectFailedEffect DEF ProbeThreadFails, Holds
      <3>4. \A w \in Workers : w[2] > n => wpc'[w] = "none"
        BY <3>1, <3>2 DEF WorkersCreated, Workers, Sockets
      <3>5. wpc'[<<"receive", n>>] = "none"
        BY <3>1, <3>2 DEF WorkersCreated, Workers
      <3> QED
        BY <3>2, <3>3, <3>4, <3>5 DEF WorkersCreated, FlagSet, CloserJoined, Receives, Running
    <2>11. CASE StartReceiver(t)
      <3>1. /\ pc[t] = "receiver" /\ pc' = [pc EXCEPT ![t] = "flags"] /\ receive_flag' = TRUE
            /\ wpc' = [wpc EXCEPT ![<<"receive", socket>>] = "start"] /\ UNCHANGED <<socket, socket_id, op>>
        BY <2>11 DEF StartReceiver, Goto, net
      <3>2. socket \in Sockets /\ socket = socket_id
        BY <3>1 DEF ProbeInv, SocketWhere, SocketCurrent
      <3>3. \A u \in Callers : ~(pc'[u] \in {"receiver", "close"} \/ EndsItsOwn(u)')
        BY <1>3, <3>1 DEF Holds, EndsItsOwn
      <3>4. WorkersCreated'
        BY <3>1, <3>2, <3>3 DEF WorkersCreated, Sockets
      <3> QED
        BY <3>1, <3>3, <3>4 DEF FlagSet, CloserJoined
    <2>12. CASE ReceiveThreadFails(t)
      <3>1. /\ pc[t] = "receiver" /\ pc' = [pc EXCEPT ![t] = "joinProbe"]
            /\ UNCHANGED <<socket, socket_id, op, wpc>>
        BY <2>12 DEF ReceiveThreadFails, StopProbe, Goto, net
      <3>2. socket \in Sockets /\ wpc[<<"receive", socket>>] = "none"
        BY <3>1 DEF ProbeInv, SocketWhere, WorkersCreated
      <3>3. ~Receives(socket)' /\ \A u \in Callers : pc'[u] # "receiver"
        BY <1>3, <3>1, <3>2 DEF Receives, Running, Holds
      <3> QED
        BY <3>1, <3>3 DEF WorkersCreated, FlagSet, CloserJoined
    <2>13. CASE StoreFlags(t) \/ Announce(t)
      BY <1>1, <1>2, <2>13 DEF StoreFlags, Announce, Leave, Goto, EndsItsOwn, net, worker
    <2>14. CASE JoinProbe(t)
      <3>1. /\ pc[t] = "joinProbe" /\ socket \in Sockets /\ UNCHANGED <<socket, socket_id, op, wpc>>
        BY <2>14 DEF JoinProbe
      <3>2. \A u \in Callers \ {t} : ~Holds(u) /\ pc'[u] = pc[u]
        BY <1>3, <2>14 DEF JoinProbe, Goto, Holds
      <3>3. pc'[t] \in {"joinReceive", "close"}
        BY <2>14 DEF JoinProbe, Goto
      <3>4. WorkersCreated'
        BY <3>1, <3>2, <3>3 DEF WorkersCreated, Holds
      <3>5. ~Receives(socket)' \/ receive_flag
        <4>1. \A u \in Callers : pc[u] # "joinReceive"
          BY <3>1, <3>2 DEF Holds
        <4>2. Receives(socket) => receive_flag
          BY <3>1, <4>1, NullIsNoCaller DEF FlagSet
        <4> QED
          BY <3>1, <4>2 DEF Receives, Running
      <3>6. FlagSet'
        <4>1. pc'[t] = "joinReceive" \/ UNCHANGED receive_flag
          BY <2>14 DEF JoinProbe, Goto
        <4> QED
          BY <3>1, <3>5, <4>1 DEF FlagSet
      <3>7. CloserJoined'
        <4>1. pc'[t] = "close" /\ op'[t] # "meta" => ~receive_flag
          BY <2>14 DEF JoinProbe, Goto
        <4>2. \A u \in Callers \ {t} : pc'[u] # "close" /\ ~EndsItsOwn(u)'
          BY <3>1, <3>2 DEF Holds, EndsItsOwn
        <4> QED
          BY <3>1, <3>3, <3>5, <4>1, <4>2 DEF CloserJoined, EndsItsOwn
      <3> QED
        BY <3>4, <3>6, <3>7
    <2>15. CASE JoinReceive(t)
      <3>1. /\ pc[t] = "joinReceive" /\ WorkerEnded(<<"receive", socket>>)
            /\ pc' = [pc EXCEPT ![t] = "close"]
            /\ UNCHANGED <<socket, socket_id, op, wpc>>
        BY <2>15 DEF JoinReceive, Goto, net, worker
      <3>2. ~Receives(socket)'
        BY <3>1 DEF WorkerEnded, Receives, Running
      <3>3. \A u \in Callers : pc'[u] # "receiver"
        BY <1>3, <3>1 DEF Holds
      <3> QED
        BY <3>1, <3>2, <3>3 DEF WorkersCreated, FlagSet, CloserJoined
    <2>16. CASE Close(t)
      <3>1. /\ pc[t] = "close" /\ socket' = Null /\ UNCHANGED <<socket_id, wpc>>
        BY <2>16 DEF Close, DestroySocket, worker
      <3>2. \A u \in Callers : pc'[u] # "receiver"
        <4>1. \A u \in Callers \ {t} : pc[u] # "receiver"
          BY <1>3, <3>1 DEF Holds
        <4> QED
          BY <2>16, <4>1, ConnectFailedEffect DEF Close, TakeContext, Leave, Goto
      <3> QED
        BY <3>1, <3>2 DEF WorkersCreated, FlagSet, CloserJoined
    <2>17. CASE HandOver(t)
      BY <1>1, <1>2, <2>17 DEF HandOver, Leave, Goto, EndsItsOwn, net, worker, ProbeInv, OpsWhere, Disconnects
    <2>18. CASE JoinCallback(t)
      <3>1. /\ pc[t] = "joinCallback" /\ pc' = [pc EXCEPT ![t] = Base(t)]
            /\ UNCHANGED <<socket_id, wpc, receive_flag>> /\ \A u \in Callers \ {t} : op'[u] = op[u]
        BY <2>18 DEF JoinCallback, Leave, Goto, worker, DestroySocket, net
      <3>2. CASE UNCHANGED socket
        BY <1>1, <1>2, <3>1, <3>2 DEF EndsItsOwn
      <3>3. CASE socket' = Null /\ op[t] = "connect"
        <4>1. \A u \in Callers : pc'[u] # "receiver"
          BY <1>3, <3>1, <3>3 DEF Holds
        <4> QED
          BY <3>1, <3>3, <4>1 DEF WorkersCreated, FlagSet, CloserJoined
      <3> QED
        BY <2>18, <3>2, <3>3 DEF JoinCallback, DestroySocket, net
    <2> QED
      BY <1>4, <2>1, <2>2, <2>3, <2>4, <2>5, <2>6, <2>7, <2>8, <2>9, <2>10, <2>11, <2>12, <2>13, <2>14,
         <2>15, <2>16, <2>17, <2>18 DEF CallerNext, TakeMutex, Advance
  <1>5. ASSUME NEW c \in Contexts, TakeMutexInLoop(c) \/ AdvanceLoop(c) PROVE JoinsFirst'
    <2> {c} \in SUBSET Callers
      OBVIOUS
    <2>1. CASE Pop(c)
      <3>1. AfterPop(c, Head(queue[c])) \in {"exited", "loop", "lost", "callback"}
        BY <2>1, PopQueued, AfterPopType DEF Pop
      <3> QED
        BY <1>1, <1>2, <2>1, <3>1 DEF Pop, Goto, EndsItsOwn, net, worker
    <2>2. CASE TeardownLost(c) \/ SkipLost(c) \/ Retry(c) \/ GiveUp(c)
      BY <1>1, <1>2, <2>2 DEF TeardownLost, StopProbe, SkipLost, Retry, GiveUp, Goto, EndsItsOwn, net, worker
    <2>3. CASE CallbackReturns(c) \/ SetPending(c)
      BY <1>1, <1>2, <2>3 DEF CallbackReturns, SetPending, Goto, EndsItsOwn, net, worker
    <2> QED
      BY <1>5, <2>1, <2>2, <2>3 DEF TakeMutexInLoop, AdvanceLoop
  <1>6. ASSUME NEW w \in Workers, WorkerMoves(w) PROVE JoinsFirst'
    <2>1. \A v \in Workers : wpc[v] = "none" => wpc'[v] = "none"
      BY <1>6 DEF WorkerMoves, Running
    <2>2. \A s \in Sockets : Receives(s)' => Receives(s)
      BY <1>6 DEF WorkerMoves, Receives, Running
    <2> QED
      BY <1>1, <1>6, <2>1, <2>2, {} \in SUBSET Callers DEF WorkerMoves
  <1>7. ASSUME NEW s \in Sockets, ReceiverStep(s) \/ ReceivePacket(s) \/ ProbeStep(s) PROVE JoinsFirst'
    BY <1>6, <1>7, WorkersMove DEF Workers
  <1>8. ASSUME NEW s \in Sockets, LoseConnection(s) PROVE JoinsFirst'
    BY <1>1, <1>2, <1>8, {} \in SUBSET Callers DEF LoseConnection, call, worker
  <1>9. CASE Crash \/ UNCHANGED vars
    BY <1>1, <1>2, <1>9, {} \in SUBSET Callers DEF Crash, vars, call, net, worker
  <1> QED
    BY <1>4, <1>5, <1>7, <1>8, <1>9 DEF Next

(* A report that names an ended receive thread still does when no receive   *)
(* thread restarts, and so do the items that were queued or taken meanwhile.*)
LEMMA ReportsSpent ==
    ASSUME TypeOK, OnlyReceiversReport,
           \A s \in Sockets : WorkerEnded(<<"receive", s>>) => WorkerEnded(<<"receive", s>>)',
           \A c \in Contexts : item'[c] = item[c] \/ item'[c] \in Queued(c),
           \A c \in Contexts : \A i \in Queued(c)' : i \in Queued(c) \/ Spent(i.sid)'
    PROVE  OnlyReceiversReport'
  <1>1. \A id : Spent(id) => Spent(id)'
    BY DEF Spent, Sockets
  <1> QED
    BY <1>1 DEF OnlyReceiversReport

(* Every step keeps the bond of a receive thread to its socket, while no    *)
(* probe thread has reported a loss.                                        *)
LEMMA ReceiversAloneStep ==
    TypeOK /\ ProbeInv /\ JoinsFirst /\ ReceiversAlone /\ [Next]_vars /\ ~ProbeReported' => ReceiversAlone'
  <1> SUFFICES ASSUME TypeOK, ProbeInv, JoinsFirst, ReceiversAlone, [Next]_vars, ~ProbeReported'
               PROVE  ReceiversAlone'
    OBVIOUS
  <1> DEFINE Bonded == ReceiverIds /\ TeardownSpent /\ SocketReceived
  <1>0. /\ pc \in [Callers -> CallerStates] /\ op \in [Callers -> Ops] /\ wpc \in [Workers -> WorkerStates]
        /\ socket \in Sockets \cup {Null} /\ socket_id \in 0 .. MaxSockets
        /\ rid \in [Sockets -> 0 .. MaxSockets] /\ TypeContext /\ Contexts \subseteq Callers
        /\ \A s \in Sockets : <<"receive", s>> \in Workers /\ <<"probe", s>> \in Workers
    BY DEF TypeOK, TypeCall, TypeWorker, TypeNet, Workers, Callers
  <1> USE <1>0, BaseType DEF ReceiversAlone
  (* Callers S move on, but not to close a lost connection.                 *)
  <1>1. ASSUME UNCHANGED <<socket, wpc, rid>>, NEW S \in SUBSET Callers,
               \A t \in S : pc'[t] \in {"joinProbe", "close"} => op'[t] # "meta",
               \A t \in Callers \ S : pc'[t] = pc[t] /\ op'[t] = op[t]
        PROVE  Bonded'
    BY <1>1 DEF ReceiverIds, TeardownSpent, SocketReceived, Receives, Running
  (* No receive thread runs.                                                *)
  <1>2. ASSUME \A s \in Sockets : ~Receives(s), UNCHANGED wpc PROVE Bonded'
    <2>1. \A s \in Sockets : ~Receives(s)'
      BY <1>2 DEF Receives, Running
    <2>2. TypeOK'
      BY TypeStep
    <2> QED
      BY <2>1, <2>2 DEF ReceiverIds, TeardownSpent, SocketReceived, Receives, Running, TypeOK, TypeNet
  <1>3. socket = Null \/ ~Receives(socket) => \A s \in Sockets : ~Receives(s)
    BY NullIsNoCaller DEF SocketReceived
  (* What is queued, when no worker moves.                                  *)
  <1>4. \A k \in ItemKinds : Item(k) \in Items /\ Spent(Item(k).sid)'
    <2> SUFFICES ASSUME NEW k \in ItemKinds PROVE Item(k) \in Items /\ Spent(Item(k).sid)'
      OBVIOUS
    <2>1. Item(k).sid = 0 /\ Item(k) \in Items
      BY ItemType DEF Item
    <2> QED
      BY <2>1, BoundsAssumption DEF Spent
  <1>5. Lost(0) \in Items /\ Spent(Lost(0).sid)'
    BY ItemType, BoundsAssumption DEF Lost, Spent
  <1>6. ASSUME UNCHANGED <<wpc, item>>,
               UNCHANGED queue \/ \E i \in Items : Spent(i.sid)' /\ Put(callback, i)
        PROVE  OnlyReceiversReport'
    <2>1. \A c \in Contexts : \A i \in Queued(c)' : i \in Queued(c) \/ Spent(i.sid)'
      <3>1. CASE UNCHANGED queue
        BY <3>1 DEF Queued
      <3>2. ASSUME NEW i \in Items, Spent(i.sid)', Put(callback, i)
            PROVE  \A c \in Contexts : \A j \in Queued(c)' : j \in Queued(c) \/ Spent(j.sid)'
        <4>1. \A c \in Contexts : \A j \in Queued(c)' : j \in Queued(c) \/ j = i
          BY <3>2, PutQueued DEF TypeContext
        <4> QED
          BY <3>2, <4>1
      <3> QED
        BY <1>6, <3>1, <3>2
    <2> QED
      BY <1>6, <2>1, ReportsSpent DEF WorkerEnded
  <1>7. ASSUME NEW t \in Callers, ConnectFailed(t), UNCHANGED wpc PROVE OnlyReceiversReport'
    <2>1. UNCHANGED item /\ (UNCHANGED queue \/ \E k \in ItemKinds : Put(callback, Item(k)))
      BY <1>7, ConnectFailedEffect
    <2> QED
      BY <1>4, <1>6, <1>7, <2>1
  <1>8. ASSUME NEW t \in Callers, CallerNext(t) PROVE ReceiversAlone'
    <2> {t} \in SUBSET Callers
      OBVIOUS
    <2>1. ASSUME NEW f \in Functions, Call(t, f) PROVE ReceiversAlone'
      <3>1. Bonded'
        BY <1>1, <2>1 DEF Call, Goto, net, worker
      <3> QED
        BY <1>6, <2>1, <3>1 DEF Call, context, worker
    <2>2. ASSUME NEW b \in BOOLEAN, SetAutoReconnect(t, b) PROVE ReceiversAlone'
      <3>1. Bonded'
        BY <1>1, <2>2, {} \in SUBSET Callers DEF SetAutoReconnect, call, net, worker
      <3> QED
        BY <1>6, <2>2, <3>1 DEF SetAutoReconnect, context, worker
    <2>3. CASE ReturnAtOnce(t) \/ NotConnected(t) \/ SendOk(t)
      <3>1. Bonded'
        BY <1>1, <2>3 DEF ReturnAtOnce, NotConnected, SendOk, Leave, Goto, net, worker
      <3> QED
        BY <1>6, <2>3, <3>1 DEF ReturnAtOnce, NotConnected, SendOk, context, worker
    <2>4. CASE BeginConnect(t) \/ BeginDisconnect(t) \/ SendFails(t)
      <3>1. Bonded'
        BY <1>1, <2>4 DEF BeginConnect, BeginDisconnect, SendFails, StopProbe, Enter, Goto, Disconnects, net, worker
      <3> QED
        BY <1>6, <2>4, <3>1 DEF BeginConnect, BeginDisconnect, SendFails, context, worker
    <2>5. CASE AbortPending(t)
      <3>1. Bonded'
        BY <1>1, <2>5 DEF AbortPending, TakeContext, Goto, net, worker
      <3> QED
        BY <1>6, <2>5, <3>1 DEF AbortPending, TakeContext, worker
    <2>6. CASE CreateContext(t)
      <3>1. socket = Null
        BY <2>6 DEF CreateContext, ProbeInv, SocketWhere
      <3>2. Bonded'
        BY <1>2, <1>3, <2>6, <3>1 DEF CreateContext, worker
      <3> QED
        BY <1>6, <2>6, <3>2 DEF CreateContext, worker
    <2>7. CASE CreateContextFails(t)
      <3>1. Bonded'
        BY <1>1, <2>7 DEF CreateContextFails, Leave, Goto, net, worker
      <3> QED
        BY <1>6, <2>7, <3>1 DEF CreateContextFails, context, worker
    <2>8. CASE ConnectFails(t) \/ ProbeThreadFails(t)
      <3>1. socket = Null
        BY <2>8 DEF ConnectFails, ProbeThreadFails, ProbeInv, SocketWhere
      <3>2. Bonded'
        BY <1>2, <1>3, <2>8, <3>1 DEF ConnectFails, ProbeThreadFails, worker
      <3> QED
        BY <1>7, <2>8, <3>2 DEF ConnectFails, ProbeThreadFails, worker
    <2>9. CASE ConnectOk(t)
      <3>1. PICK n \in Sockets : n = socket_id + 1
        BY <2>9, BoundsAssumption DEF ConnectOk, Sockets
      <3>2. socket = Null /\ socket' = n /\ wpc' = [wpc EXCEPT ![<<"probe", n>>] = "wait"]
        BY <2>9, <3>1 DEF ConnectOk, ProbeInv, SocketWhere
      <3>3. \A s \in Sockets : wpc'[<<"receive", s>>] = wpc[<<"receive", s>>] /\ ~Receives(s)
        BY <1>3, <3>2
      <3>4. Bonded'
        BY <3>2, <3>3 DEF ReceiverIds, TeardownSpent, SocketReceived, Receives, Running
      <3>5. OnlyReceiversReport'
        BY <2>9, <3>3, ReportsSpent DEF ConnectOk, context, Queued, WorkerEnded
      <3> QED
        BY <3>4, <3>5
    <2>10. CASE StartReceiver(t)
      <3>1. /\ pc[t] = "receiver" /\ pc' = [pc EXCEPT ![t] = "flags"]
            /\ wpc' = [wpc EXCEPT ![<<"receive", socket>>] = "start"]
            /\ UNCHANGED <<socket, rid, op, item, queue>>
        BY <2>10 DEF StartReceiver, Goto, net
      <3>2. socket \in Sockets /\ wpc[<<"receive", socket>>] = "none"
        BY <3>1 DEF ProbeInv, SocketWhere, JoinsFirst, WorkersCreated
      <3>3. \A u \in Callers : pc'[u] \notin {"joinProbe", "close"}
        BY <3>1 DEF ProbeInv, MutexHeld, Holds
      <3>4. Bonded'
        BY <3>1, <3>2, <3>3 DEF ReceiverIds, TeardownSpent, SocketReceived, Receives, Running
      <3>5. OnlyReceiversReport'
        BY <3>1, <3>2, ReportsSpent DEF Queued, WorkerEnded
      <3> QED
        BY <3>4, <3>5
    <2>11. CASE ReceiveThreadFails(t)
      <3>1. pc[t] = "receiver" /\ UNCHANGED <<wpc, item, queue>>
        BY <2>11 DEF ReceiveThreadFails
      <3>2. ~Receives(socket)
        BY <3>1 DEF JoinsFirst, WorkersCreated, Receives, Running
      <3>3. Bonded'
        BY <1>2, <1>3, <3>1, <3>2
      <3> QED
        BY <1>6, <3>1, <3>3
    <2>12. CASE StoreFlags(t) \/ Announce(t)
      <3>1. Bonded'
        BY <1>1, <2>12 DEF StoreFlags, Announce, Leave, Goto, net, worker
      <3>2. OnlyReceiversReport'
        BY <1>4, <1>6, <2>12 DEF StoreFlags, Announce, context, worker, ItemKinds
      <3> QED
        BY <3>1, <3>2
    <2>13. CASE JoinProbe(t)
      <3>1. /\ pc[t] = "joinProbe" /\ socket # Null /\ UNCHANGED <<socket, rid, op, wpc, item, queue>>
            /\ \A u \in Callers \ {t} : pc'[u] = pc[u]
        BY <2>13 DEF JoinProbe, Goto
      <3>2. Bonded'
        <4>1. CASE op[t] = "meta"
          <5>1. ~Receives(socket)
            BY <3>1, <4>1 DEF TeardownSpent
          <5> QED
            BY <1>2, <1>3, <3>1, <5>1
        <4>2. CASE op[t] # "meta"
          BY <1>1, <3>1, <4>2
        <4> QED
          BY <4>1, <4>2
      <3> QED
        BY <1>6, <3>1, <3>2
    <2>14. CASE JoinReceive(t)
      <3>1. WorkerEnded(<<"receive", socket>>) /\ UNCHANGED <<wpc, item, queue>>
        BY <2>14 DEF JoinReceive, net, worker, context
      <3>2. ~Receives(socket)
        BY <3>1 DEF WorkerEnded, Receives, Running
      <3>3. Bonded'
        BY <1>2, <1>3, <3>1, <3>2
      <3> QED
        BY <1>6, <3>1, <3>3
    <2>15. CASE Close(t)
      <3>1. pc[t] = "close" /\ socket # Null /\ UNCHANGED wpc
        BY <2>15 DEF Close, worker, ProbeInv, SocketWhere
      <3>2. ~Receives(socket)
        BY <3>1 DEF JoinsFirst, CloserJoined, TeardownSpent
      <3>3. Bonded'
        BY <1>2, <1>3, <3>1, <3>2
      <3>4. OnlyReceiversReport'
        BY <1>5, <1>6, <1>7, <2>15, <3>1 DEF Close, TakeContext, context
      <3> QED
        BY <3>3, <3>4
    <2>16. CASE HandOver(t)
      <3>1. Bonded'
        BY <1>1, <2>16 DEF HandOver, Leave, Goto, net, worker
      <3>2. \A c \in Contexts : \A i \in Queued(c)' : i \in Queued(c) \/ \E k \in ItemKinds : i = Item(k)
        BY <2>16, HandOverQueued
      <3>3. OnlyReceiversReport'
        BY <1>4, <2>16, <3>2, ReportsSpent DEF HandOver, worker, context, WorkerEnded
      <3> QED
        BY <3>1, <3>3
    <2>17. CASE JoinCallback(t)
      <3>1. /\ pc[t] = "joinCallback" /\ pc' = [pc EXCEPT ![t] = Base(t)]
            /\ UNCHANGED <<rid, wpc, item, queue>> /\ \A u \in Callers \ {t} : op'[u] = op[u]
        BY <2>17 DEF JoinCallback, Leave, Goto, worker, DestroySocket, net
      <3>2. CASE UNCHANGED socket
        <4>1. Bonded'
          BY <1>1, <3>1, <3>2
        <4> QED
          BY <1>6, <3>1, <4>1
      <3>3. CASE op[t] = "connect"
        <4>1. socket = Null \/ ~Receives(socket)
          BY <3>1, <3>3 DEF JoinsFirst, CloserJoined, EndsItsOwn
        <4>2. Bonded'
          BY <1>2, <1>3, <3>1, <4>1
        <4> QED
          BY <1>6, <3>1, <4>2
      <3> QED
        BY <2>17, <3>2, <3>3 DEF JoinCallback, net
    <2> QED
      BY <1>8, <2>1, <2>2, <2>3, <2>4, <2>5, <2>6, <2>7, <2>8, <2>9, <2>10, <2>11, <2>12, <2>13, <2>14,
         <2>15, <2>16, <2>17 DEF CallerNext, TakeMutex, Advance
  <1>9. ASSUME NEW c \in Contexts, TakeMutexInLoop(c) \/ AdvanceLoop(c) PROVE ReceiversAlone'
    <2> {c} \in SUBSET Callers
      OBVIOUS
    <2>1. CASE Pop(c)
      <3>1. /\ queue[c] # <<>> /\ queue' = [queue EXCEPT ![c] = Tail(@)]
            /\ pc' = [pc EXCEPT ![c] = AfterPop(c, Head(queue[c]))]
            /\ item' = [item EXCEPT ![c] = Head(queue[c])]
            /\ UNCHANGED <<socket, op, wpc, rid>>
        BY <2>1 DEF Pop, Goto, net, worker
      <3>2. Head(queue[c]) \in Queued(c) /\ Head(queue[c]) \in Items /\ \A d \in Contexts : Queued(d)' \subseteq Queued(d)
        BY <3>1, PopQueued
      <3>3. AfterPop(c, Head(queue[c])) \in {"exited", "loop", "lost", "callback"}
        BY <3>2, AfterPopType
      <3>4. Bonded'
        BY <1>1, <3>1, <3>3
      <3>5. \A d \in Contexts : item'[d] = item[d] \/ item'[d] \in Queued(d)
        BY <3>1, <3>2 DEF TypeContext
      <3>6. OnlyReceiversReport'
        BY <3>1, <3>2, <3>5, ReportsSpent DEF WorkerEnded
      <3> QED
        BY <3>4, <3>6
    <2>2. CASE TeardownLost(c)
      <3>1. socket # Null /\ socket_id = item[c].sid /\ UNCHANGED <<wpc, item, queue>>
        BY <2>2 DEF TeardownLost, StillCurrent, worker, context
      <3>2. ~Receives(socket)
        BY <3>1, NullIsNoCaller DEF OnlyReceiversReport, Spent, ProbeInv, SocketCurrent, Null, WorkerEnded,
                                    Receives, Running
      <3>3. Bonded'
        BY <1>2, <1>3, <3>1, <3>2
      <3> QED
        BY <1>6, <3>1, <3>3
    <2>3. CASE SkipLost(c) \/ Retry(c) \/ GiveUp(c)
      <3>1. Bonded'
        BY <1>1, <2>3 DEF SkipLost, Retry, GiveUp, Goto, net, worker
      <3> QED
        BY <1>6, <2>3, <3>1 DEF SkipLost, Retry, GiveUp, context, worker
    <2>4. CASE CallbackReturns(c) \/ SetPending(c)
      <3>1. Bonded'
        BY <1>1, <2>4 DEF CallbackReturns, SetPending, Goto, net, worker
      <3> QED
        BY <1>6, <2>4, <3>1 DEF CallbackReturns, SetPending, context, worker
    <2> QED
      BY <1>9, <2>1, <2>2, <2>3, <2>4 DEF TakeMutexInLoop, AdvanceLoop
  (* A worker takes a step; what it has queued names no running receiver.   *)
  <1>10. ASSUME NEW w \in Workers, WorkerMoves(w), ReceiverIds',
                \A c \in Contexts : \A i \in Queued(c)' : i \in Queued(c) \/ Spent(i.sid)'
         PROVE  ReceiversAlone'
    <2>1. \A s \in Sockets : Receives(s)' => Receives(s)
      BY <1>10 DEF WorkerMoves, Receives, Running
    <2>2. TeardownSpent' /\ SocketReceived'
      BY <1>10, <2>1, NullIsNoCaller DEF WorkerMoves, TeardownSpent, SocketReceived, Receives, Running
    <2>3. \A s \in Sockets : WorkerEnded(<<"receive", s>>) => WorkerEnded(<<"receive", s>>)'
      BY <1>10 DEF WorkerMoves, WorkerEnded, Running
    <2>4. OnlyReceiversReport'
      BY <1>10, <2>3, ReportsSpent DEF WorkerMoves
    <2> QED
      BY <1>10, <2>2, <2>4
  <1>11. ASSUME NEW s \in Sockets, ReceiverStep(s) \/ ReceivePacket(s) \/ ProbeStep(s) PROVE ReceiversAlone'
    <2>1. PICK w \in Workers : WorkerMoves(w)
      BY <1>11, WorkersMove
    <2>2. ReceiverIds'
      <3>1. CASE ReceiverStart(s)
        <4>1. /\ wpc[<<"receive", s>>] = "start" /\ wpc' = [wpc EXCEPT ![<<"receive", s>>] = "loop"]
              /\ rid' = [rid EXCEPT ![s] = socket_id]
          BY <3>1 DEF ReceiverStart, WorkerGoto
        <4>2. socket_id = s
          BY <4>1, NullIsNoCaller DEF SocketReceived, Receives, Running, ProbeInv, SocketCurrent
        <4> QED
          BY <4>1, <4>2 DEF ReceiverIds
      <3>2. CASE Receive(s) \/ ReceiverStops(s) \/ ReceiveFails(s)
        BY <3>2 DEF Receive, ReceiverStops, ReceiveFails, WorkerGoto, ReceiverIds
      <3>3. CASE ReceivePacket(s) \/ QueuePacket(s)
        BY <3>3 DEF ReceivePacket, QueuePacket, WorkerGoto, ReceiverIds
      <3>4. CASE ProbeStops(s) \/ ProbeTick(s) \/ SendProbe(s)
        BY <3>4 DEF ProbeStops, ProbeTick, SendProbe, WorkerGoto, ReceiverIds
      <3>5. ASSUME NEW k \in {"receive", "probe"}, ReportStep(<<k, s>>) PROVE ReceiverIds'
        BY <3>5 DEF ReportStep, AllowReconnect, FindReportQueue, ReportLost, WorkerGoto, ReceiverIds
      <3> QED
        BY <1>11, <3>1, <3>2, <3>3, <3>4, <3>5 DEF ReceiverStep, ProbeStep
    <2>3. \A c \in Contexts : \A i \in Queued(c)' : i \in Queued(c) \/ Spent(i.sid)'
      <3>1. CASE UNCHANGED queue
        BY <3>1 DEF Queued
      <3>2. ASSUME NEW i \in Items, Spent(i.sid)', NEW v \in Workers, PutFound(v, i)
            PROVE  \A c \in Contexts : \A j \in Queued(c)' : j \in Queued(c) \/ Spent(j.sid)'
        <4>1. into[v] \in Contexts \cup {Null} /\ Put(into[v], i)
          BY <3>2 DEF PutFound, TypeOK, TypeWorker
        <4>2. \A c \in Contexts : \A j \in Queued(c)' : j \in Queued(c) \/ j = i
          BY <4>1, PutQueued
        <4> QED
          BY <3>2, <4>2
      <3>3. CASE QueuePacket(s)
        BY <1>4, <3>2, <3>3 DEF QueuePacket, ItemKinds
      <3>4. CASE ReportLost(<<"receive", s>>)
        <4>1. /\ wpc[<<"receive", s>>] = "put" /\ wpc' = [wpc EXCEPT ![<<"receive", s>>] = "reported"]
              /\ PutFound(<<"receive", s>>, Lost(rid[s]))
          BY <3>4 DEF ReportLost, WorkerGoto
        <4>2. rid[s] = s
          BY <4>1 DEF ReceiverIds
        <4>3. Lost(s) \in Items /\ Lost(s).sid = s /\ s \in 0 .. MaxSockets
          BY ItemType DEF Sockets, Lost
        <4>4. Spent(s)'
          BY <4>1, <4>3 DEF Spent, WorkerEnded
        <4> QED
          BY <3>2, <4>1, <4>2, <4>3, <4>4
      <3>5. ~ReportLost(<<"probe", s>>)
        BY DEF ReportLost, WorkerGoto, ProbeReported
      <3>6. CASE ReceiverStart(s) \/ Receive(s) \/ ReceiverStops(s) \/ ReceiveFails(s) \/ ReceivePacket(s)
        BY <3>1, <3>6 DEF ReceiverStart, Receive, ReceiverStops, ReceiveFails, ReceivePacket
      <3>7. CASE ProbeStops(s) \/ ProbeTick(s) \/ SendProbe(s)
        BY <3>1, <3>7 DEF ProbeStops, ProbeTick, SendProbe
      <3>8. ASSUME NEW k \in {"receive", "probe"}, AllowReconnect(<<k, s>>) \/ FindReportQueue(<<k, s>>)
            PROVE  \A c \in Contexts : \A i \in Queued(c)' : i \in Queued(c) \/ Spent(i.sid)'
        BY <3>1, <3>8 DEF AllowReconnect, FindReportQueue
      <3> QED
        BY <1>11, <3>3, <3>4, <3>5, <3>6, <3>7, <3>8 DEF ReceiverStep, ProbeStep, ReportStep
    <2> QED
      BY <1>10, <2>1, <2>2, <2>3
  <1>12. ASSUME NEW s \in Sockets, LoseConnection(s) PROVE ReceiversAlone'
    <2>1. Bonded'
      BY <1>1, <1>12, {} \in SUBSET Callers DEF LoseConnection, call, worker
    <2> QED
      BY <1>6, <1>12, <2>1 DEF LoseConnection, context, worker
  <1>13. CASE Crash \/ UNCHANGED vars
    <2>1. Bonded'
      BY <1>1, <1>13, {} \in SUBSET Callers DEF Crash, vars, call, net, worker
    <2> QED
      BY <1>6, <1>13, <2>1 DEF Crash, vars, context, worker
  <1> QED
    BY <1>8, <1>9, <1>11, <1>12, <1>13 DEF Next

(* Together: the bond holds until a probe thread has reported a loss.       *)
LEMMA JoinedStep == TypeOK /\ ProbeInv /\ JoinedInv /\ [Next]_vars => JoinedInv'
  <1> SUFFICES ASSUME TypeOK, ProbeInv, JoinsFirst, ProbeReported \/ ReceiversAlone, [Next]_vars
               PROVE  JoinsFirst' /\ (ProbeReported' \/ ReceiversAlone')
    BY DEF JoinedInv
  <1>1. ProbeReported => ProbeReported'
    BY StaysReported DEF JoinsFirst
  <1> QED
    BY <1>1, JoinsFirstStep, ReceiversAloneStep

(* A socket is never destroyed by ipcon_disconnect, a failed send or a      *)
(* failed connect while its receive thread runs, and by nobody until a      *)
(* probe thread has reported a loss, which is torn down without a join.     *)
THEOREM ReceiverJoinedCorrect == Spec => []ReceiverJoined
  <1>1. TypeOK /\ ProbeInv /\ JoinedInv /\ [Next]_vars => TypeOK' /\ ProbeInv' /\ JoinedInv'
    BY TypeStep, ProbeInvStep, JoinedStep
  <1>2. ProbeInv /\ JoinedInv => ReceiverJoined
    BY DEF ProbeInv, SocketWhere, JoinedInv, JoinsFirst, CloserJoined, ReceiversAlone, SocketReceived, Receives,
           ReceiverJoined
  <1> QED
    BY InitType, ProbeInvInit, JoinedInit, <1>1, <1>2, PTL DEF Spec

(* Every step keeps that what a worker has found in ipcon_p->callback is    *)
(* still there, as long as its socket is.                                   *)
LEMMA FoundCurrentStep ==
    TypeOK /\ ProbeInv /\ JoinsFirst /\ FoundCurrent /\ [Next]_vars => FoundCurrent'
  <1> SUFFICES ASSUME TypeOK, ProbeInv, JoinsFirst, FoundCurrent, [Next]_vars,
                      NEW w \in Workers, Puts(w)', socket' = w[2], callback' # Null
               PROVE  into'[w] = callback'
    BY DEF FoundCurrent, Puts
  <1>0. /\ into \in [Workers -> Contexts \cup {Null}] /\ wpc \in [Workers -> WorkerStates]
        /\ socket_id \in Int /\ w[2] \in Sockets
    BY DEF TypeOK, TypeWorker, TypeNet, Workers
  <1>1. ASSUME NEW v \in Workers, FindsOrPuts(v) PROVE into'[w] = callback'
    BY <1>0, <1>1 DEF FindsOrPuts, FindQueue, FoundCurrent
  <1>2. CASE UNCHANGED into /\ (Puts(w)' => Puts(w)) /\ callback' \in {callback, Null}
    <2>1. CASE socket = w[2]
      BY <1>2, <2>1 DEF FoundCurrent
    <2>2. CASE socket # w[2]
      <3>1. w[2] = socket_id + 1
        BY <1>0, <2>2, SocketStep, NullIsNoCaller DEF SocketChanges
      <3>2. wpc[w] = "none"
        BY <1>0, <3>1 DEF JoinsFirst, WorkersCreated
      <3> QED
        BY <1>2, <3>2 DEF Puts
    <2> QED
      BY <2>1, <2>2
  <1> QED
    BY <1>0, <1>1, <1>2, FoundStep, NullIsNoCaller DEF FoundChanges

(* Whatever the threads do: ipcon_p->callback and the context a disconnect  *)
(* has taken are not gone, and neither is the one a worker is about to put  *)
(* into, but for the two cases of Abandoned.                                *)
ContextReached == TypeOK /\ ProbeInv /\ ContextInv /\ FoundKnown /\ JoinedInv /\ FoundCurrent

THEOREM ContextAliveCorrect == Spec => []ContextAlive
  <1>1. Init => ContextReached
    <2>1. Init => FoundKnown /\ FoundCurrent
      BY DEF Init, FoundKnown, FoundCurrent, Null
    <2> QED
      BY <2>1, InitType, ProbeInvInit, ContextInit, JoinedInit DEF ContextReached
  <1>2. ContextReached /\ [Next]_vars => ContextReached'
    BY TypeStep, ProbeInvStep, ContextStep, FoundKnownStep, JoinedStep, FoundCurrentStep
    DEF ContextReached, JoinedInv
  <1>3. ContextReached => ContextAlive
    <2> SUFFICES ASSUME ContextReached PROVE ContextAlive
      OBVIOUS
    <2>1. callback # Null /\ (\A t \in Callers : ~EndsItsOwn(t)) => pc[callback] # "exited"
      BY DEF ContextReached, ContextInv, CallbackAlive, Ending
    <2>2. \A t \in Callers : pc[t] = "handOver" /\ target[t] # Null => pc[target[t]] # "exited"
      BY DEF ContextReached, ContextInv, TargetAlive, Taken, Ending
    <2>3. ASSUME NEW w \in Workers, Puts(w), ~Abandoned(w) PROVE pc[into[w]] # "exited"
      <3>1. PICK s \in Sockets : w = <<"receive", s>> \/ w = <<"probe", s>>
        BY DEF Workers
      <3>2. Running(w) /\ w[2] = s
        BY <2>3, <3>1 DEF Puts, Running
      <3>3. socket = s
        <4>1. CASE w = <<"probe", s>>
          BY <3>2, <4>1 DEF ContextReached, ProbeInv, ProbeSocketLive
        <4>2. CASE w = <<"receive", s>> /\ ~ProbeReported
          BY <3>2, <4>2 DEF ContextReached, JoinedInv, ReceiversAlone, SocketReceived, Receives
        <4>3. CASE w = <<"receive", s>> /\ ProbeReported
          BY <2>3, <4>3 DEF Abandoned
        <4> QED
          BY <3>1, <4>1, <4>2, <4>3
      <3>4. callback # Null
        BY <2>3, <3>3, NullIsNoCaller DEF Abandoned
      <3>5. \A t \in Callers : ~EndsItsOwn(t)
        <4> SUFFICES ASSUME NEW t \in Callers, EndsItsOwn(t) PROVE FALSE
          OBVIOUS
        <4>1. ~Running(<<"probe", socket>>)
          BY <3>3, NullIsNoCaller DEF ContextReached, ProbeInv, ProbeEnded, EndsItsOwn, Holds
        <4>2. ~Receives(socket)
          BY <3>3, NullIsNoCaller DEF ContextReached, JoinedInv, JoinsFirst, CloserJoined
        <4> QED
          BY <3>1, <3>2, <3>3, <4>1, <4>2 DEF Receives
      <3>6. into[w] = callback
        BY <2>3, <3>2, <3>3, <3>4 DEF ContextReached, FoundCurrent
      <3> QED
        BY <2>1, <3>4, <3>5, <3>6
    <2> QED
      BY <2>1, <2>2, <2>3 DEF ContextAlive, EndsItsOwn
  <1> QED
    BY <1>1, <1>2, <1>3, PTL DEF Spec

-----------------------------------------------------------------------------
(* The types a proof about callers and their contexts needs.                *)
LEMMA CallTypes ==
    ASSUME TypeOK
    PROVE  /\ pc \in [Callers -> CallerStates] /\ op \in [Callers -> Ops] /\ wpc \in [Workers -> WorkerStates]
           /\ socket \in Sockets \cup {Null} /\ socket_id \in 0 .. MaxSockets
           /\ callback \in Contexts \cup {Null} /\ contexts \in Nat /\ target \in [Callers -> Contexts \cup {Null}]
           /\ queue \in [Contexts -> Seq(Items)] /\ item \in [Contexts -> Items]
           /\ Contexts \subseteq Callers /\ Users \subseteq Callers /\ Callers = Users \cup Contexts
           /\ auto_reconnect_pending \in BOOLEAN
  BY BoundsAssumption DEF TypeOK, TypeNet, TypeCall, TypeWorker, TypeContext, TypeAuto, Callers

(* A caller moves alone, except that a connect may create a callback thread,*)
(* and only a connect attempt changes the socket_id.                        *)
LEMMA MovesAlone ==
    ASSUME TypeOK, ContextInv, ProbeInv, NEW t \in Callers,
           CallerNext(t) \/ (t \in Contexts /\ (TakeMutexInLoop(t) \/ AdvanceLoop(t)))
    PROVE  /\ \A u \in Callers \ {t} :
                 /\ op'[u] = op[u]
                 /\ pc'[u] = pc[u] \/ (u \in Contexts /\ pc[u] = "none" /\ pc'[u] = "loop")
           /\ socket_id' = socket_id \/ pc[t] = "attempt"
  <1> DEFINE Alone == /\ \A u \in Callers \ {t} : op'[u] = op[u] /\ pc'[u] = pc[u]
                      /\ socket_id' = socket_id \/ pc[t] = "attempt"
  <1> USE CallTypes DEF Goto, Leave, net
  <1>1. ASSUME NEW f \in Functions, Call(t, f) PROVE Alone
    BY <1>1 DEF Call
  <1>2. ASSUME NEW b \in BOOLEAN, SetAutoReconnect(t, b) PROVE Alone
    BY <1>2 DEF SetAutoReconnect, call
  <1>3. CASE TakeMutex(t)
    BY <1>3 DEF TakeMutex, ReturnAtOnce, BeginConnect, NotConnected, AbortPending, TakeContext,
                BeginDisconnect, SendOk, SendFails, StopProbe
  <1>4. CASE CreateContext(t)
    <2>0. op' = op /\ socket_id' = socket_id
      BY <1>4 DEF CreateContext
    <2>1. CASE callback # Null
      BY <1>4, <2>0, <2>1 DEF CreateContext
    <2>2. CASE callback = Null
      <3>1. PICK n \in Contexts : n = contexts + 1
        BY <1>4, <2>2, BoundsAssumption DEF CreateContext, Contexts
      <3>2. pc' = [pc EXCEPT ![t] = "attempt", ![n] = "loop"]
        BY <1>4, <2>2, <3>1 DEF CreateContext
      <3>3. pc[n] = "none"
        BY <3>1 DEF ContextInv, ContextsKnown
      <3> QED
        BY <2>0, <3>2, <3>3
    <2> QED
      BY <2>1, <2>2
  <1>5. ASSUME ConnectFailed(t) PROVE \A u \in Callers \ {t} : op'[u] = op[u] /\ pc'[u] = pc[u]
    BY <1>5, ConnectFailedEffect
  <1>6. CASE CreateContextFails(t) \/ ConnectFails(t) \/ ConnectOk(t) \/ ProbeThreadFails(t) \/ StartReceiver(t)
    BY <1>5, <1>6 DEF CreateContextFails, ConnectFails, ConnectOk, ProbeThreadFails, StartReceiver
  <1>7. CASE ReceiveThreadFails(t) \/ StoreFlags(t) \/ Announce(t) \/ JoinProbe(t) \/ JoinReceive(t)
    BY <1>7 DEF ReceiveThreadFails, StopProbe, StoreFlags, Announce, JoinProbe, JoinReceive
  <1>8. CASE Close(t)
    BY <1>5, <1>8 DEF Close, DestroySocket, TakeContext
  <1>9. CASE HandOver(t) \/ JoinCallback(t)
    BY <1>9 DEF HandOver, JoinCallback, DestroySocket
  <1>10. CASE t \in Contexts /\ (TakeMutexInLoop(t) \/ AdvanceLoop(t))
    BY <1>10 DEF TakeMutexInLoop, AdvanceLoop, TeardownLost, StopProbe, SkipLost, Retry, GiveUp, Pop,
                 CallbackReturns, SetPending
  <1> QED
    BY <1>1, <1>2, <1>3, <1>4, <1>6, <1>7, <1>8, <1>9, <1>10 DEF CallerNext, Advance

(* A worker moves no caller and changes no socket.                          *)
LEMMA WorkersMoveNoCaller ==
    ASSUME NEW s \in Sockets, ReceiverStep(s) \/ ReceivePacket(s) \/ ProbeStep(s) \/ LoseConnection(s)
    PROVE  UNCHANGED <<pc, op, target, socket, socket_id, callback, contexts, item, auto_reconnect_pending, crashed>>
  <1> USE DEF call, net, auto, context, fate
  <1>1. ASSUME NEW w, ReportStep(w)
        PROVE  UNCHANGED <<pc, op, target, socket, socket_id, callback, contexts, item, auto_reconnect_pending, crashed>>
    BY <1>1 DEF ReportStep, AllowReconnect, FindReportQueue, ReportLost
  <1> QED
    BY <1>1 DEF ReceiverStep, ReceivePacket, ProbeStep, LoseConnection, ReceiverStart, Receive, ReceiverStops,
                ReceiveFails, QueuePacket, ProbeStops, ProbeTick, SendProbe

(* What callback threads call: not what ends a callback thread.             *)
OwnOps ==
    /\ \A u \in Users : op[u] \notin {"meta", "reconnect"}
    /\ \A c \in Contexts :
          /\ op[c] \in {"none", "send", "meta", "reconnect"}
          /\ pc[c] \notin {"handOver", "joinCallback"}

(* How a failed connect leaves the caller.                                  *)
LEMMA OwnConnectFailed ==
    ASSUME TypeOK, OwnOps, NEW t \in Callers, pc[t] \in {"attempt", "close"},
           op[t] \in {"connect", "reconnect"}, ConnectFailed(t)
    PROVE  /\ UNCHANGED <<callback, contexts, item>>
           /\ \/ /\ t \in Contexts /\ op[t] = "reconnect" /\ UNCHANGED <<target, queue>> /\ socket_mutex' = Null
                 /\ pc' = [pc EXCEPT ![t] = "retry"] /\ op' = [op EXCEPT ![t] = "none"]
              \/ /\ t \in Users /\ op[t] = "connect" /\ UNCHANGED <<op, socket_mutex>>
                 /\ target' = [target EXCEPT ![t] = callback]
                 /\ pc' = [pc EXCEPT ![t] = "joinCallback"]
                 /\ Put(callback, Item("exit"))
  <1>1. CASE op[t] = "reconnect"
    <2>1. t \in Contexts
      BY <1>1 DEF OwnOps, Callers
    <2> QED
      BY <1>1, <2>1 DEF ConnectFailed, Leave, Goto, context
  <1>2. CASE op[t] = "connect"
    <2>1. t \in Users /\ callback # t
      BY <1>2, NullIsNoCaller DEF OwnOps, Callers, TypeOK, TypeContext
    <2> QED
      BY <1>2, <2>1 DEF ConnectFailed, ExitCallbackThread, Goto
  <1> QED
    BY <1>1, <1>2

(* What a step of a caller does to the callback contexts: it takes, ends,   *)
(* joins or creates one, or leaves them alone.                              *)
Takes(t) == (AbortPending(t) \/ Close(t)) /\ op[t] \in Disconnects /\ TakeContext(t)
EndsOwn(t) ==
    /\ pc[t] \in {"attempt", "close"} /\ op[t] = "connect"
    /\ target' = [target EXCEPT ![t] = callback] /\ pc' = [pc EXCEPT ![t] = "joinCallback"]
    /\ UNCHANGED <<callback, op>>
LeavesContexts(t) ==
    /\ UNCHANGED <<callback, target>>
    /\ pc[t] \notin {"handOver", "joinCallback", "none", "exited"}
    /\ pc'[t] \notin {"handOver", "joinCallback", "attempt", "none"}
    /\ \A u \in Callers \ {t} : pc'[u] = pc[u] /\ op'[u] = op[u]

LEMMA ContextUse ==
    ASSUME TypeOK, ProbeInv, ContextInv, OwnOps, NEW t \in Callers,
           CallerNext(t) \/ (t \in Contexts /\ (TakeMutexInLoop(t) \/ AdvanceLoop(t)))
    PROVE  \/ Takes(t) \/ EndsOwn(t) \/ LeavesContexts(t)
           \/ HandOver(t) \/ JoinCallback(t) \/ CreateContext(t)
  <1> USE CallTypes, BaseType
  <1>1. ASSUME NEW w \in CallerStates \ {"handOver", "joinCallback", "attempt", "none"}, Goto(t, w),
               op' = op \/ (\E o : op' = [op EXCEPT ![t] = o]), UNCHANGED <<callback, target>>,
               pc[t] \notin {"handOver", "joinCallback", "none", "exited"}
        PROVE  LeavesContexts(t)
    BY <1>1 DEF Goto, LeavesContexts
  <1>2. Base(t) \in CallerStates \ {"handOver", "joinCallback", "attempt", "none"}
    BY DEF CallerStates
  <1>3. ASSUME pc[t] \in {"attempt", "close"}, op[t] \in {"connect", "reconnect"}, ConnectFailed(t)
        PROVE  EndsOwn(t) \/ LeavesContexts(t)
    <2>1. CASE t \in Contexts /\ op[t] = "reconnect" /\ target' = target /\ callback' = callback
               /\ pc' = [pc EXCEPT ![t] = "retry"] /\ op' = [op EXCEPT ![t] = "none"]
      BY <1>3, <2>1 DEF LeavesContexts
    <2>2. CASE /\ op[t] = "connect" /\ UNCHANGED <<op, callback>>
               /\ target' = [target EXCEPT ![t] = callback] /\ pc' = [pc EXCEPT ![t] = "joinCallback"]
      BY <1>3, <2>2 DEF EndsOwn
    <2> QED
      BY <1>3, <2>1, <2>2, OwnConnectFailed
  <1>4. ASSUME NEW f \in Functions, Call(t, f) PROVE LeavesContexts(t)
    <2>1. pc[t] \in {"idle", "callback"}
      BY <1>4 DEF Call, MayCall
    <2> QED
      BY <1>1, <1>4, <2>1 DEF Call, context, CallerStates
  <1>5. ASSUME NEW b \in BOOLEAN, SetAutoReconnect(t, b) PROVE LeavesContexts(t)
    BY <1>5 DEF SetAutoReconnect, MayCall, call, context, LeavesContexts
  <1>6. CASE ReturnAtOnce(t) \/ NotConnected(t) \/ BeginConnect(t) \/ BeginDisconnect(t)
    BY <1>1, <1>2, <1>6 DEF ReturnAtOnce, NotConnected, BeginConnect, BeginDisconnect, StopProbe, Enter, Leave,
                            context, CallerStates
  <1>7. CASE SendOk(t) \/ SendFails(t)
    BY <1>1, <1>2, <1>7 DEF SendOk, SendFails, StopProbe, Enter, Leave, context, CallerStates
  <1>8. CASE AbortPending(t)
    BY <1>8 DEF AbortPending, Enter, Takes
  <1>9. CASE CreateContextFails(t) \/ StartReceiver(t) \/ ReceiveThreadFails(t) \/ StoreFlags(t)
             \/ Announce(t) \/ JoinProbe(t) \/ JoinReceive(t) \/ ConnectOk(t)
    BY <1>1, <1>2, <1>9 DEF CreateContextFails, StartReceiver, ReceiveThreadFails, StopProbe, StoreFlags, Announce,
                            JoinProbe, JoinReceive, ConnectOk, Leave, context, CallerStates
  <1>10. CASE ConnectFails(t) \/ ProbeThreadFails(t)
    BY <1>3, <1>10 DEF ConnectFails, ProbeThreadFails, ProbeInv, OpsWhere
  <1>11. CASE Close(t)
    <2>0. pc[t] = "close"
      BY <1>11 DEF Close
    <2>1. CASE op[t] \in Disconnects /\ TakeContext(t)
      BY <1>11, <2>1 DEF Takes
    <2>2. CASE op[t] \in {"send", "meta"} /\ Leave(t, Base(t)) /\ UNCHANGED <<context, target>>
      BY <1>1, <1>2, <2>0, <2>2 DEF Leave, context
    <2>3. CASE op[t] \in {"connect", "reconnect"} /\ ConnectFailed(t)
      BY <1>3, <2>0, <2>3
    <2> QED
      BY <1>11, <2>1, <2>2, <2>3 DEF Close
  <1>12. CASE t \in Contexts /\ (TakeMutexInLoop(t) \/ AdvanceLoop(t))
    <2>1. CASE Pop(t)
      <3>1. AfterPop(t, Head(queue[t])) \in {"exited", "loop", "lost", "callback"}
        BY <1>12, <2>1, PopQueued, AfterPopType DEF Pop, TypeOK
      <3> QED
        BY <1>1, <2>1, <3>1 DEF Pop, CallerStates
    <2> QED
      BY <1>1, <1>12, <2>1 DEF TakeMutexInLoop, AdvanceLoop, TeardownLost, StopProbe, SkipLost, Retry, GiveUp,
                               CallbackReturns, SetPending, context, CallerStates
  <1> QED
    BY <1>4, <1>5, <1>6, <1>7, <1>8, <1>9, <1>10, <1>11, <1>12 DEF CallerNext, TakeMutex, Advance

(* Every step keeps who can end a callback thread that still runs.          *)
LEMMA ContextsHeldStep ==
    ASSUME TypeOK, ProbeInv, ContextInv, OwnOps, ContextsHeld, [Next]_vars
    PROVE  ContextsHeld'
  <1> USE CallTypes
  <1> DEFINE HeldBy(u, c) == pc[u] \in {"handOver", "joinCallback"} /\ target[u] = c
             Held(c) == c = callback \/ \E u \in Users : HeldBy(u, c)
  <1>1. \A c \in Contexts : pc[c] \notin {"none", "exited"} => Held(c)
    BY DEF ContextsHeld
  <1>2. ASSUME NEW t \in Callers,
               CallerNext(t) \/ (t \in Contexts /\ (TakeMutexInLoop(t) \/ AdvanceLoop(t)))
        PROVE  ContextsHeld'
    <2>1. \A u \in Callers \ {t} : op'[u] = op[u]
                                   /\ (pc'[u] = pc[u] \/ (pc[u] = "none" /\ pc'[u] = "loop"))
      BY <1>2, MovesAlone
    <2>2. ASSUME NEW c \in Contexts, pc'[c] \notin {"none", "exited"}, pc[c] \in {"none", "exited"}
          PROVE  CreateContext(t) /\ callback' = c
      <3>1. CASE c = t
        <4>1. pc[t] \in {"none", "exited"} /\ t \notin Users
          BY <2>2, <3>1, NullIsNoCaller
        <4>2. ~LeavesContexts(t) /\ ~EndsOwn(t) /\ ~Takes(t) /\ ~HandOver(t) /\ ~JoinCallback(t)
          BY <4>1 DEF LeavesContexts, EndsOwn, Takes, AbortPending, Enter, Close, HandOver, JoinCallback
        <4>3. ~CreateContext(t)
          BY <4>1 DEF CreateContext
        <4> QED
          BY <1>2, <4>2, <4>3, ContextUse
      <3>2. CASE c # t
        <4>1. pc'[c] # pc[c]
          BY <2>2
        <4>2. ~LeavesContexts(t) /\ ~EndsOwn(t) /\ ~Takes(t) /\ ~HandOver(t) /\ ~JoinCallback(t)
          BY <3>2, <4>1 DEF LeavesContexts, EndsOwn, Takes, TakeContext, HandOver, JoinCallback, Leave, Goto
        <4>3. CreateContext(t)
          BY <1>2, <4>2, ContextUse
        <4>4. callback' = c
          BY <3>2, <4>1, <4>3 DEF CreateContext, Goto
        <4> QED
          BY <4>3, <4>4
      <3> QED
        BY <3>1, <3>2
    <2>3. CASE LeavesContexts(t)
      <3>1. UNCHANGED <<callback, target>> /\ pc'[t] # "joinCallback" /\ pc[t] \notin {"handOver", "joinCallback"}
        BY <2>3 DEF LeavesContexts
      <3>2. ASSUME NEW c \in Contexts, pc'[c] \notin {"none", "exited"} PROVE Held(c)'
        <4>1. Held(c)
          BY <1>1, <2>2, <3>1, <3>2
        <4> QED
          BY <2>1, <3>1, <4>1
      <3>3. ASSUME NEW u \in Callers, EndsItsOwn(u)' PROVE target'[u] = callback'
        <4>1. u # t /\ EndsItsOwn(u)
          BY <2>1, <3>1, <3>3 DEF EndsItsOwn
        <4> QED
          BY <3>1, <4>1 DEF ContextsHeld
      <3> QED
        BY <3>2, <3>3 DEF ContextsHeld
    <2>4. CASE EndsOwn(t)
      <3>1. /\ pc[t] \in {"attempt", "close"} /\ target' = [target EXCEPT ![t] = callback] /\ Holds(t)
            /\ callback' = callback /\ pc'[t] = "joinCallback"
        BY <2>4 DEF EndsOwn, Holds
      <3>2. ASSUME NEW c \in Contexts, pc'[c] \notin {"none", "exited"} PROVE Held(c)'
        <4>1. Held(c)
          <5>1. pc[c] \in {"none", "exited"} => callback = c
            BY <2>2, <3>1, <3>2
          <5> QED
            BY <1>1, <5>1
        <4> QED
          BY <2>1, <3>1, <4>1
      <3>3. ASSUME NEW u \in Callers, EndsItsOwn(u)' PROVE target'[u] = callback'
        <4>1. CASE u = t
          BY <3>1, <4>1
        <4>2. CASE u # t
          <5>1. EndsItsOwn(u)
            BY <2>1, <3>3, <4>2 DEF EndsItsOwn
          <5> QED
            BY <3>1, <4>2, <5>1, OneEndsItsOwn
        <4> QED
          BY <4>1, <4>2
      <3> QED
        BY <3>2, <3>3 DEF ContextsHeld
    <2>5. CASE Takes(t)
      <3>1. /\ pc[t] \in {"enter", "close"} /\ target' = [target EXCEPT ![t] = callback]
            /\ t \in Users /\ pc' = [pc EXCEPT ![t] = "handOver"] /\ op' = op /\ op[t] # "connect"
        BY <2>5 DEF Takes, TakeContext, Goto, OwnOps, Disconnects, AbortPending, Enter, Close
      <3>2. ASSUME NEW c \in Contexts, pc'[c] \notin {"none", "exited"} PROVE Held(c)'
        <4>1. Held(c) /\ c # t
          BY <1>1, <3>1, <3>2, NullIsNoCaller
        <4>2. CASE c = callback
          <5>1. HeldBy(t, c)'
            BY <3>1, <4>2
          <5> QED
            BY <3>1, <5>1
        <4>3. ASSUME NEW u \in Users, HeldBy(u, c) PROVE Held(c)'
          <5>1. HeldBy(u, c)'
            BY <3>1, <4>3
          <5> QED
            BY <5>1
        <4> QED
          BY <4>1, <4>2, <4>3
      <3>3. \A u \in Callers : ~EndsItsOwn(u)'
        <4>1. \A u \in Callers \ {t} : ~EndsItsOwn(u)
          <5>1. CASE pc[t] = "close"
            BY <5>1, OneEndsItsOwn DEF Holds
          <5>2. CASE pc[t] = "enter"
            <6>1. socket_mutex = Null
              BY <2>5, <5>2 DEF Takes, AbortPending, Enter, Close
            <6> QED
              BY <6>1, OneEndsItsOwn
          <5> QED
            BY <3>1, <5>1, <5>2
        <4> QED
          BY <3>1, <4>1 DEF EndsItsOwn
      <3> QED
        BY <3>2, <3>3 DEF ContextsHeld
    <2>6. CASE HandOver(t)
      <3>1. /\ pc[t] = "handOver" /\ t \in Users /\ op[t] \in Disconnects /\ UNCHANGED <<callback, target>>
        BY <2>6 DEF HandOver, context, ProbeInv, OpsWhere, OwnOps
      <3>2. target[t] # t
        BY <3>1, NullIsNoCaller
      <3>3. pc' = [pc EXCEPT ![t] = "joinCallback"] /\ op' = op
        BY <2>6, <3>2 DEF HandOver, Goto
      <3>4. ASSUME NEW c \in Contexts, pc'[c] \notin {"none", "exited"} PROVE Held(c)'
        <4>1. Held(c)
          BY <1>1, <3>1, <3>3, <3>4, NullIsNoCaller
        <4> QED
          BY <3>1, <3>3, <4>1
      <3>5. ASSUME NEW u \in Callers, EndsItsOwn(u)' PROVE target'[u] = callback'
        <4>1. EndsItsOwn(u)
          BY <3>1, <3>3, <3>5 DEF EndsItsOwn, Disconnects
        <4> QED
          BY <3>1, <4>1 DEF ContextsHeld
      <3> QED
        BY <3>4, <3>5 DEF ContextsHeld
    <2>7. CASE JoinCallback(t)
      <3>1. /\ pc[t] = "joinCallback" /\ pc[target[t]] = "exited" /\ target' = target /\ t \in Users
            /\ pc' = [pc EXCEPT ![t] = "idle"] /\ (op[t] # "connect" => callback' = callback)
            /\ (op[t] = "connect" => target[t] = callback)
        BY <2>7, NullIsNoCaller
        DEF OwnOps, JoinCallback, CallbackEnded, Leave, Goto, Base, ContextsHeld, EndsItsOwn
      <3>2. ASSUME NEW c \in Contexts, pc'[c] \notin {"none", "exited"} PROVE Held(c)'
        <4>1. Held(c) /\ c # target[t]
          BY <1>1, <3>1, <3>2, NullIsNoCaller
        <4>2. CASE c = callback
          BY <3>1, <4>1, <4>2
        <4>3. ASSUME NEW u \in Users, HeldBy(u, c) PROVE Held(c)'
          <5>1. u # t
            BY <4>1, <4>3
          <5>2. HeldBy(u, c)'
            BY <3>1, <4>3, <5>1
          <5> QED
            BY <5>2
        <4> QED
          BY <4>1, <4>2, <4>3
      <3>3. ASSUME NEW u \in Callers, EndsItsOwn(u)' PROVE target'[u] = callback'
        <4>1. u # t /\ EndsItsOwn(u)
          BY <2>1, <3>1, <3>3 DEF EndsItsOwn
        <4>2. op[t] # "connect"
          <5>1. op[t] = "connect" => Holds(t)
            BY <3>1 DEF Holds
          <5> QED
            BY <4>1, <5>1, OneEndsItsOwn
        <4> QED
          BY <3>1, <4>1, <4>2 DEF ContextsHeld
      <3> QED
        BY <3>2, <3>3 DEF ContextsHeld
    <2>8. CASE CreateContext(t)
      <3>1. /\ pc[t] = "context" /\ UNCHANGED <<target, op>> /\ (callback # Null => callback' = callback)
            /\ pc'[t] # "joinCallback" /\ Holds(t)
        BY <2>8 DEF CreateContext, Goto, Holds
      <3>2. ASSUME NEW c \in Contexts, pc'[c] \notin {"none", "exited"} PROVE Held(c)'
        <4>1. CASE pc[c] \in {"none", "exited"}
          BY <2>2, <3>2, <4>1
        <4>2. CASE c = callback
          BY <3>1, <4>2, NullIsNoCaller
        <4>3. ASSUME NEW u \in Users, HeldBy(u, c) PROVE Held(c)'
          <5>1. u # t
            BY <3>1, <4>3
          <5>2. HeldBy(u, c)'
            BY <2>1, <3>1, <4>3, <5>1
          <5> QED
            BY <5>2
        <4> QED
          BY <1>1, <4>1, <4>2, <4>3
      <3>3. \A u \in Callers : ~EndsItsOwn(u)'
        <4>1. \A u \in Callers \ {t} : ~EndsItsOwn(u)
          BY <3>1, OneEndsItsOwn
        <4> QED
          BY <2>1, <3>1, <4>1 DEF EndsItsOwn
      <3> QED
        BY <3>2, <3>3 DEF ContextsHeld
    <2> QED
      BY <1>2, <2>3, <2>4, <2>5, <2>6, <2>7, <2>8, ContextUse
  <1>3. ASSUME UNCHANGED <<pc, op, target, callback>> PROVE ContextsHeld'
    BY <1>3 DEF ContextsHeld, EndsItsOwn
  <1>4. CASE Crash \/ UNCHANGED vars
    BY <1>3, <1>4 DEF Crash, vars, call, context
  <1> QED
    BY <1>2, <1>3, <1>4, WorkersMoveNoCaller DEF Next

-----------------------------------------------------------------------------
(* Where the reports of lost connections are after an item was put.         *)
LEMMA PutLost ==
    ASSUME TypeContext, NEW d \in Contexts \cup {Null}, NEW i \in Items, Put(d, i)
    PROVE  \A c \in Contexts : \A n \in LostAt(c)' :
               \/ n \in LostAt(c) /\ queue'[c][n] = queue[c][n]
               \/ c = d /\ n = Len(queue[c]) + 1 /\ queue'[c][n] = i
  <1> SUFFICES ASSUME NEW c \in Contexts, NEW n \in LostAt(c)'
               PROVE  \/ n \in LostAt(c) /\ queue'[c][n] = queue[c][n]
                      \/ c = d /\ n = Len(queue[c]) + 1 /\ queue'[c][n] = i
    OBVIOUS
  <1>1. queue \in [Contexts -> Seq(Items)] /\ n \in 1 .. Len(queue'[c]) /\ queue'[c][n].kind = "lost"
    BY DEF TypeContext, LostAt
  <1>2. CASE c = d
    <2>1. queue'[c] = Append(queue[c], i) /\ queue[c] \in Seq(Items)
      BY <1>1, <1>2 DEF Put
    <2>2. CASE n <= Len(queue[c])
      BY <1>1, <2>1, <2>2 DEF LostAt
    <2>3. CASE n > Len(queue[c])
      BY <1>1, <1>2, <2>1, <2>3
    <2> QED
      BY <1>1, <2>1, <2>2, <2>3
  <1>3. CASE c # d
    BY <1>1, <1>3 DEF Put, LostAt
  <1> QED
    BY <1>2, <1>3

(* The items of a requested disconnect are no such reports.                 *)
LEMMA HandOverLost ==
    ASSUME TypeOK, NEW t \in Callers, HandOver(t)
    PROVE  \A c \in Contexts : \A n \in LostAt(c)' : n \in LostAt(c) /\ queue'[c][n] = queue[c][n]
  <1> SUFFICES ASSUME NEW c \in Contexts, NEW n \in LostAt(c)'
               PROVE  n \in LostAt(c) /\ queue'[c][n] = queue[c][n]
    OBVIOUS
  <1>1. queue \in [Contexts -> Seq(Items)] /\ n \in 1 .. Len(queue'[c]) /\ queue'[c][n].kind = "lost"
    BY DEF TypeOK, TypeContext, LostAt
  <1>2. CASE c = target[t]
    <2>1. PICK k \in {"exit", "destroyAndExit"} : queue'[c] = queue[c] \o <<Item("request"), Item(k)>>
      BY <1>1, <1>2 DEF HandOver
    <2>2. /\ Item("request") \in Items /\ Item(k) \in Items
          /\ Item("request").kind # "lost" /\ Item(k).kind # "lost"
      BY ItemType DEF ItemKinds, Item
    <2>3. \/ n \in 1 .. Len(queue[c]) /\ queue'[c][n] = queue[c][n]
          \/ queue'[c][n] \in {Item("request"), Item(k)}
      BY <1>1, <2>1, <2>2, TwoMore
    <2> QED
      BY <1>1, <2>2, <2>3 DEF LostAt
  <1>3. CASE c # target[t]
    BY <1>1, <1>3 DEF HandOver, LostAt
  <1> QED
    BY <1>2, <1>3

(* Where they are after the first item was taken.                           *)
LEMMA PopLost ==
    ASSUME TypeContext, NEW c \in Contexts, queue[c] # <<>>, queue' = [queue EXCEPT ![c] = Tail(@)]
    PROVE  /\ Head(queue[c]).kind = "lost" => 1 \in LostAt(c) /\ queue[c][1] = Head(queue[c])
           /\ \A n \in LostAt(c)' : n + 1 \in LostAt(c) /\ n > 0 /\ queue'[c][n] = queue[c][n + 1]
           /\ \A d \in Contexts \ {c} : LostAt(d)' = LostAt(d) /\ queue'[d] = queue[d]
  <1>1. queue[c] \in Seq(Items) /\ Len(queue[c]) > 0 /\ queue \in [Contexts -> Seq(Items)]
    BY EmptySeq DEF TypeContext
  <1>2. Head(queue[c]).kind = "lost" => 1 \in LostAt(c) /\ queue[c][1] = Head(queue[c])
    BY <1>1 DEF LostAt
  <1>3. ASSUME NEW n \in LostAt(c)'
        PROVE  n + 1 \in LostAt(c) /\ n > 0 /\ queue'[c][n] = queue[c][n + 1]
    <2>1. Len(Tail(queue[c])) = Len(queue[c]) - 1 /\ queue'[c] = Tail(queue[c])
      BY <1>1
    <2>2. n \in 1 .. Len(queue[c]) - 1 /\ queue'[c][n].kind = "lost"
      BY <1>3, <2>1 DEF LostAt
    <2>3. Tail(queue[c])[n] = queue[c][n + 1]
      BY <1>1, <2>2
    <2> QED
      BY <1>1, <2>1, <2>2, <2>3 DEF LostAt
  <1>4. \A d \in Contexts \ {c} : LostAt(d)' = LostAt(d) /\ queue'[d] = queue[d]
    BY <1>1 DEF LostAt
  <1> QED
    BY <1>2, <1>3, <1>4

(* No report is queued with an item of another kind, or with none.          *)
LEMMA NoLossPut ==
    ASSUME TypeOK,
           UNCHANGED queue \/ \E d \in Contexts \cup {Null}, k \in ItemKinds \ {"lost"} : Put(d, Item(k))
    PROVE  \A c \in Contexts : \A n \in LostAt(c)' : n \in LostAt(c) /\ queue'[c][n] = queue[c][n]
  <1>1. CASE UNCHANGED queue
    BY <1>1 DEF LostAt
  <1>2. ASSUME NEW d \in Contexts \cup {Null}, NEW k \in ItemKinds \ {"lost"}, Put(d, Item(k))
        PROVE  \A c \in Contexts : \A n \in LostAt(c)' : n \in LostAt(c) /\ queue'[c][n] = queue[c][n]
    <2>1. Item(k) \in Items /\ Item(k).kind # "lost"
      BY ItemType DEF Item
    <2>2. \A c \in Contexts : \A n \in LostAt(c)' : queue'[c][n].kind = "lost"
      BY DEF LostAt
    <2> QED
      BY <1>2, <2>1, <2>2, PutLost DEF TypeOK
  <1> QED
    BY <1>1, <1>2

-----------------------------------------------------------------------------
(* What holds before a step when no connection is lost.                     *)
KeptState ==
    /\ NoneLost /\ TypeOK /\ ProbeInv /\ LossInv /\ ContextInv /\ FoundKnown /\ JoinedInv
    /\ NothingReported /\ CallbacksSend /\ NotCalledYet /\ CallbackUsed /\ DestroysAlone /\ ContextsHeld

LEMMA KeptOwnOps == CallbacksSend => OwnOps
  BY DEF CallbacksSend, OwnOps

(* No thread is about to report a loss.                                     *)
LEMMA NoneGone ==
    ASSUME KeptState
    PROVE  \A w \in Workers : wpc[w] \notin {"gone", "report", "put"}
  <1> SUFFICES ASSUME NEW w \in Workers, wpc[w] \in {"gone", "report", "put"} PROVE FALSE
    OBVIOUS
  <1>1. lost = {} /\ ReceiversAlone
    BY DEF KeptState, NothingReported, JoinedInv
  <1>2. PICK s \in Sockets : w = <<"receive", s>> \/ w = <<"probe", s>>
    BY DEF Workers
  <1>3. CASE w = <<"probe", s>>
    BY <1>1, <1>3 DEF KeptState, LossInv, ProbeReports
  <1>4. CASE w = <<"receive", s>>
    <2>1. Reported(rid[s])
      BY <1>4 DEF KeptState, LossInv, ReceiverReports
    <2>2. rid[s] = s /\ socket = s
      BY <1>1, <1>4 DEF ReceiversAlone, ReceiverIds, SocketReceived, Receives, Running
    <2> QED
      BY <1>1, <2>1, <2>2, NullIsNoCaller DEF Reported, Null
  <1> QED
    BY <1>2, <1>3, <1>4

(* No probe thread comes to have reported one.                              *)
LEMMA NoneReports ==
    ASSUME KeptState, [Next]_vars
    PROVE  ~ProbeReported'
  <1> SUFFICES ASSUME NEW s \in Sockets, wpc'[<<"probe", s>>] = "reported" PROVE FALSE
    BY DEF ProbeReported
  <1>0. /\ wpc \in [Workers -> WorkerStates] /\ <<"probe", s>> \in Workers
        /\ wpc[<<"probe", s>>] # "reported"
    BY DEF KeptState, TypeOK, TypeWorker, Workers, NothingReported, ProbeReported
  <1>1. \A t \in Callers : ~ConnectOk(t) /\ ~StartReceiver(t)
    BY <1>0 DEF ConnectOk, StartReceiver
  <1>2. \A w \in Workers : ~WorkerMoves(w)
    BY <1>0, NoneGone DEF WorkerMoves
  <1> QED
    BY <1>0, <1>1, <1>2, WorkersStep DEF KeptState

(* What a step of a callback thread can be: it takes an item, returns from  *)
(* a callback, or sends from one.                                           *)
LEMMA KeptContext ==
    ASSUME KeptState, NEW c \in Contexts, CallerNext(c) \/ TakeMutexInLoop(c) \/ AdvanceLoop(c)
    PROVE  /\ UNCHANGED <<socket, socket_id, lost, callback, target, auto_reconnect_pending, destroyed>>
           /\ \/ /\ UNCHANGED <<queue, item>> /\ pc[c] \in {"callback", "enter"}
                 /\ \A t \in Callers \ {c} : pc'[t] = pc[t] /\ op'[t] = op[t]
                 /\ \/ op'[c] = "send" /\ pc'[c] = "enter"
                    \/ op'[c] = "none" /\ pc'[c] \in {"loop", "callback"}
              \/ Pop(c)
  <1> USE CallTypes DEF KeptState
  <1> DEFINE Same == /\ UNCHANGED <<socket, socket_id, lost, callback, target, auto_reconnect_pending, destroyed>>
                     /\ UNCHANGED <<queue, item>> /\ pc[c] \in {"callback", "enter"}
                     /\ \A t \in Callers \ {c} : pc'[t] = pc[t] /\ op'[t] = op[t]
                     /\ \/ op'[c] = "send" /\ pc'[c] = "enter"
                        \/ op'[c] = "none" /\ pc'[c] \in {"loop", "callback"}
  <1>1. /\ \/ op[c] = "send" /\ pc[c] = "enter"
           \/ op[c] = "none" /\ pc[c] \in {"none", "loop", "callback", "exited"}
        /\ item[c].kind # "lost" /\ lost = {} /\ c \notin Users
    BY NullIsNoCaller DEF CallbacksSend, NothingReported
  <1>2. ASSUME NEW f \in Functions, Call(c, f) PROVE Same
    <2>1. pc[c] = "callback" /\ f \in CallbackCalls /\ (f = "connect" => ConnectAgain \/ socket_id = 0)
      BY <1>1, <1>2 DEF Call, MayCall, Base
    <2>2. f = "send"
      BY <2>1, CallsAssumption DEF NoneLost, NotCalledYet, Functions
    <2> QED
      BY <1>2, <2>1, <2>2 DEF Call, Goto, net, context, auto, fate
  <1>3. ASSUME NEW b \in BOOLEAN, SetAutoReconnect(c, b) PROVE Same
    BY <1>1, <1>3 DEF SetAutoReconnect, MayCall, Base, net, context, call, fate
  <1>4. CASE TakeMutex(c)
    <2>1. ReturnAtOnce(c) \/ SendOk(c)
      BY <1>1, <1>4 DEF TakeMutex, Enter, BeginConnect, NotConnected, AbortPending, BeginDisconnect, SendFails,
                        Disconnects
    <2>2. pc[c] = "enter" /\ Leave(c, "callback")
      BY <1>1, <2>1 DEF ReturnAtOnce, SendOk, Enter, Base
    <2>3. UNCHANGED <<socket, socket_id, lost, callback, target, auto_reconnect_pending, destroyed, queue, item>>
      BY <2>1 DEF ReturnAtOnce, SendOk, net, context, auto, fate
    <2> QED
      BY <2>2, <2>3 DEF Leave, Goto
  <1>5. ~Advance(c)
    BY <1>1 DEF Advance, CreateContext, CreateContextFails, ConnectFails, ConnectOk, ProbeThreadFails,
                StartReceiver, ReceiveThreadFails, StoreFlags, Announce, JoinProbe, JoinReceive, Close,
                HandOver, JoinCallback
  <1>6. CASE TakeMutexInLoop(c) \/ AdvanceLoop(c)
    <2>1. Pop(c) \/ CallbackReturns(c)
      BY <1>1, <1>6 DEF TakeMutexInLoop, AdvanceLoop, TeardownLost, SkipLost, Retry, GiveUp, SetPending
    <2>2. CASE Pop(c)
      BY <2>2 DEF Pop, net, auto, fate
    <2>3. CASE CallbackReturns(c)
      BY <1>1, <2>3 DEF CallbackReturns, Goto, net, context, auto, fate
    <2> QED
      BY <2>1, <2>2, <2>3
  <1> QED
    BY <1>2, <1>3, <1>4, <1>5, <1>6 DEF CallerNext

(* A worker neither reports nor loses anything.                             *)
LEMMA KeptWorkers ==
    ASSUME KeptState, NEW s \in Sockets, ReceiverStep(s) \/ ReceivePacket(s) \/ ProbeStep(s) \/ LoseConnection(s)
    PROVE  /\ UNCHANGED <<pc, op, target, socket, socket_id, lost, callback, item, auto_reconnect_pending, destroyed>>
           /\ \/ UNCHANGED queue
              \/ socket_id # 0 /\ \E d \in Contexts \cup {Null} : Put(d, Item("packet"))
  <1> USE CallTypes DEF KeptState, net, auto, context, call, fate
  <1>1. <<"receive", s>> \in Workers /\ <<"probe", s>> \in Workers
    BY DEF Workers
  <1>2. \A w \in Workers : ~ReportStep(w)
    BY NoneGone DEF ReportStep, AllowReconnect, FindReportQueue, ReportLost
  <1>3. ~LoseConnection(s)
    <2>1. lost = {} /\ MaxLosses = 0
      BY DEF NoneLost, NothingReported
    <2> QED
      BY <2>1, FS_EmptySet DEF LoseConnection
  <1>4. CASE QueuePacket(s)
    <2>1. socket = s
      BY <1>4 DEF QueuePacket, NothingReported, JoinedInv, ReceiversAlone, SocketReceived, Receives, Running
    <2>2. socket_id # 0
      BY <2>1, NullIsNoCaller DEF ProbeInv, SocketCurrent, Null
    <2>3. into[<<"receive", s>>] \in Contexts \cup {Null} /\ Put(into[<<"receive", s>>], Item("packet"))
      BY <1>1, <1>4 DEF QueuePacket, PutFound, TypeOK, TypeWorker
    <2>4. UNCHANGED <<pc, op, target, socket, socket_id, lost, callback, item, auto_reconnect_pending, destroyed>>
      BY <1>4 DEF QueuePacket
    <2> QED
      BY <2>2, <2>3, <2>4
  <1>5. CASE ReceiverStep(s) \/ ReceivePacket(s)
    BY <1>1, <1>2, <1>4, <1>5 DEF ReceiverStep, ReceiverStart, Receive, ReceiverStops, ReceiveFails, ReceivePacket
  <1>6. CASE ProbeStep(s)
    BY <1>1, <1>2, <1>6 DEF ProbeStep, ProbeStops, ProbeTick, SendProbe
  <1> QED
    BY <1>3, <1>5, <1>6

(* What an application thread puts into the queues, and that it reports     *)
(* nothing.                                                                 *)
LEMMA KeptUser ==
    ASSUME KeptState, NEW u \in Users, CallerNext(u)
    PROVE  /\ UNCHANGED <<lost, item>> /\ ~auto_reconnect_pending'
           /\ \A c \in Contexts : LostAt(c)' = {}
           /\ \/ UNCHANGED queue \/ Put(callback, Item("exit"))
              \/ pc[u] = "announce" \/ HandOver(u)
  <1> USE CallTypes DEF KeptState
  <1> DEFINE NoLoss == UNCHANGED queue \/ \E d \in Contexts \cup {Null}, k \in ItemKinds \ {"lost"} : Put(d, Item(k))
             Exits == UNCHANGED queue \/ Put(callback, Item("exit"))
             Rest == UNCHANGED <<lost, item>> /\ ~auto_reconnect_pending'
  <1>0. ~auto_reconnect_pending /\ \A k \in {"exit", "connected"} : k \in ItemKinds \ {"lost"}
    BY DEF NothingReported, ItemKinds
  <1>1. NoLoss => \A c \in Contexts : LostAt(c)' = {}
    <2>1. \A c \in Contexts : LostAt(c) = {}
      BY DEF NothingReported
    <2> QED
      BY <2>1, NoLossPut
  <1>2. Exits => NoLoss
    BY <1>0
  <1>3. ASSUME pc[u] \in {"attempt", "close"}, op[u] \in {"connect", "reconnect"}, ConnectFailed(u)
        PROVE  item' = item /\ Exits
    BY <1>3, KeptOwnOps, OwnConnectFailed
  <1>4. CASE ConnectFails(u) \/ ProbeThreadFails(u)
    <2>1. pc[u] = "attempt" /\ op[u] \in {"connect", "reconnect"} /\ ConnectFailed(u)
      BY <1>4 DEF ConnectFails, ProbeThreadFails, ProbeInv, OpsWhere
    <2>2. Rest
      BY <1>0, <1>3, <1>4, <2>1 DEF ConnectFails, ProbeThreadFails, net, auto
    <2> QED
      BY <1>1, <1>2, <1>3, <2>1, <2>2
  <1>5. CASE Close(u)
    <2>1. pc[u] = "close" /\ op[u] # "send"
      BY <1>5 DEF Close, CallbacksSend
    <2>2. item' = item /\ Exits
      BY <1>3, <1>5, <2>1 DEF Close, TakeContext, context
    <2>3. Rest
      BY <1>0, <1>5, <2>2 DEF Close, DestroySocket, auto
    <2> QED
      BY <1>1, <1>2, <2>2, <2>3
  <1>6. CASE Announce(u)
    BY <1>0, <1>1, <1>6 DEF Announce, net, auto, context
  <1>7. CASE HandOver(u)
    <2>1. \A c \in Contexts : LostAt(c) = {}
      BY DEF NothingReported
    <2> QED
      BY <1>0, <1>7, <2>1, HandOverLost DEF HandOver, net, auto, context
  <1>8. CASE \/ CreateContext(u) \/ CreateContextFails(u) \/ ConnectOk(u) \/ StartReceiver(u)
             \/ ReceiveThreadFails(u) \/ StoreFlags(u) \/ JoinProbe(u) \/ JoinReceive(u) \/ JoinCallback(u)
    <2>1. Rest /\ UNCHANGED queue
      BY <1>0, <1>8 DEF CreateContext, CreateContextFails, ConnectOk, StartReceiver, ReceiveThreadFails,
                        StoreFlags, JoinProbe, JoinReceive, JoinCallback, DestroySocket, net, auto, context
    <2> QED
      BY <1>1, <2>1
  <1>9. CASE TakeMutex(u)
    <2>1. Rest /\ UNCHANGED queue
      BY <1>0, <1>9 DEF TakeMutex, ReturnAtOnce, BeginConnect, NotConnected, AbortPending, TakeContext,
                        BeginDisconnect, SendOk, SendFails, net, auto, context
    <2> QED
      BY <1>1, <2>1
  <1>10. CASE (\E f \in Functions : Call(u, f)) \/ (\E b \in BOOLEAN : SetAutoReconnect(u, b))
    <2>1. Rest /\ UNCHANGED queue
      BY <1>0, <1>10 DEF Call, SetAutoReconnect, net, auto, context
    <2> QED
      BY <1>1, <2>1
  <1> QED
    BY <1>4, <1>5, <1>6, <1>7, <1>8, <1>9, <1>10 DEF CallerNext, Advance

(* Every step keeps that no loss is reported.                               *)
LEMMA NothingReportedStep ==
    ASSUME KeptState, [Next]_vars
    PROVE  NothingReported'
  <1> USE CallTypes DEF KeptState
  <1>0. /\ lost = {} /\ ~auto_reconnect_pending /\ ~ProbeReported'
        /\ \A c \in Contexts : item[c].kind # "lost" /\ LostAt(c) = {}
    BY NoneReports DEF NothingReported
  <1>1. ASSUME NEW u \in Users, CallerNext(u) PROVE NothingReported'
    BY <1>0, <1>1, KeptUser DEF NothingReported
  <1>2. ASSUME NEW c \in Contexts, CallerNext(c) \/ TakeMutexInLoop(c) \/ AdvanceLoop(c)
        PROVE  NothingReported'
    <2>1. CASE UNCHANGED <<lost, auto_reconnect_pending, queue, item>>
      BY <1>0, <2>1 DEF NothingReported, LostAt
    <2>2. CASE Pop(c) /\ UNCHANGED <<lost, auto_reconnect_pending>>
      <3>1. /\ queue[c] # <<>> /\ queue' = [queue EXCEPT ![c] = Tail(@)]
            /\ item' = [item EXCEPT ![c] = Head(queue[c])]
        BY <2>2 DEF Pop
      <3>2. /\ Head(queue[c]).kind = "lost" => 1 \in LostAt(c)
            /\ \A n \in LostAt(c)' : n + 1 \in LostAt(c)
            /\ \A d \in Contexts \ {c} : LostAt(d)' = LostAt(d)
        BY <3>1, PopLost DEF TypeOK
      <3>3. Head(queue[c]).kind # "lost" /\ \A d \in Contexts : LostAt(d)' = {}
        BY <1>0, <3>2
      <3> QED
        BY <1>0, <2>2, <3>1, <3>3 DEF NothingReported
    <2> QED
      BY <1>2, <2>1, <2>2, KeptContext
  <1>3. ASSUME NEW s \in Sockets, ReceiverStep(s) \/ ReceivePacket(s) \/ ProbeStep(s) \/ LoseConnection(s)
        PROVE  NothingReported'
    <2>1. UNCHANGED <<lost, item, auto_reconnect_pending>> /\ (UNCHANGED queue \/ \E d \in Contexts \cup {Null} : Put(d, Item("packet")))
      BY <1>3, KeptWorkers
    <2>2. \A c \in Contexts : LostAt(c)' = {}
      BY <1>0, <2>1, NoLossPut DEF ItemKinds
    <2> QED
      BY <1>0, <2>1, <2>2 DEF NothingReported
  <1>4. CASE Crash \/ UNCHANGED vars
    <2>1. UNCHANGED <<lost, auto_reconnect_pending, queue, item>>
      BY <1>4 DEF Crash, vars, net, auto, context
    <2> QED
      BY <1>0, <2>1 DEF NothingReported, LostAt
  <1> QED
    BY <1>1, <1>2, <1>3, <1>4 DEF Next

(* Every step keeps what callback threads call.                             *)
LEMMA CallbacksSendStep ==
    ASSUME KeptState, [Next]_vars
    PROVE  CallbacksSend'
  <1> USE CallTypes DEF KeptState
  <1> DEFINE User(u) == op[u] \notin {"meta", "reconnect"} /\ (op[u] = "send" => pc[u] = "enter")
             Callback(c) == \/ op[c] = "send" /\ pc[c] = "enter"
                            \/ op[c] = "none" /\ pc[c] \in {"none", "loop", "callback", "exited"}
  <1>0. (\A u \in Users : User(u)) /\ (\A c \in Contexts : Callback(c))
    BY DEF CallbacksSend
  <1>1. ASSUME NEW u \in Users, CallerNext(u) PROVE CallbacksSend'
    <2>1. ASSUME NEW t \in Callers \ {u}
          PROVE  op'[t] = op[t] /\ (pc'[t] = pc[t] \/ (t \in Contexts /\ pc[t] = "none" /\ pc'[t] = "loop"))
      BY <1>1, MovesAlone
    <2>2. User(u)'
      <3>1. ASSUME NEW f \in Functions, Call(u, f) PROVE User(u)'
        BY <3>1 DEF Call, Goto, Functions
      <3>2. ASSUME NEW b \in BOOLEAN, SetAutoReconnect(u, b) PROVE User(u)'
        BY <1>0, <3>2 DEF SetAutoReconnect, call
      <3>3. CASE TakeMutex(u)
        <4>1. ~SendFails(u)
          BY DEF NothingReported, SendFails
        <4>2. CASE ReturnAtOnce(u) \/ NotConnected(u) \/ SendOk(u)
          BY <4>2 DEF ReturnAtOnce, NotConnected, SendOk, Leave
        <4>3. CASE BeginConnect(u) \/ AbortPending(u) \/ BeginDisconnect(u)
          BY <4>3 DEF BeginConnect, AbortPending, TakeContext, BeginDisconnect, Enter, Disconnects
        <4> QED
          BY <3>3, <4>1, <4>2, <4>3 DEF TakeMutex
      <3>4. CASE Advance(u)
        <4>1. op' = op \/ op' = [op EXCEPT ![u] = "none"]
          BY <3>4 DEF Advance, CreateContext, CreateContextFails, ConnectFails, ConnectFailed, ExitCallbackThread,
                      ConnectOk, ProbeThreadFails, StartReceiver, ReceiveThreadFails, StoreFlags, Announce,
                      JoinProbe, JoinReceive, Close, TakeContext, HandOver, JoinCallback, Leave
        <4>2. pc[u] # "enter"
          BY <3>4 DEF Advance, CreateContext, CreateContextFails, ConnectFails, ConnectOk, ProbeThreadFails,
                      StartReceiver, ReceiveThreadFails, StoreFlags, Announce, JoinProbe, JoinReceive, Close,
                      HandOver, JoinCallback
        <4> QED
          BY <1>0, <4>1, <4>2
      <3> QED
        BY <1>1, <3>1, <3>2, <3>3, <3>4 DEF CallerNext
    <2>3. \A v \in Users : User(v)'
      BY <1>0, <2>1, <2>2, NullIsNoCaller
    <2>4. \A c \in Contexts : Callback(c)'
      BY <1>0, <2>1, NullIsNoCaller
    <2> QED
      BY <2>3, <2>4 DEF CallbacksSend
  <1>2. ASSUME NEW c \in Contexts, CallerNext(c) \/ TakeMutexInLoop(c) \/ AdvanceLoop(c)
        PROVE  CallbacksSend'
    <2>1. CASE /\ \A t \in Callers \ {c} : pc'[t] = pc[t] /\ op'[t] = op[t]
               /\ \/ op'[c] = "send" /\ pc'[c] = "enter"
                  \/ op'[c] = "none" /\ pc'[c] \in {"loop", "callback"}
      BY <1>0, <2>1, NullIsNoCaller DEF CallbacksSend
    <2>2. CASE Pop(c)
      <3>1. op' = op /\ pc' = [pc EXCEPT ![c] = AfterPop(c, Head(queue[c]))] /\ pc[c] = "loop" /\ queue[c] # <<>>
        BY <2>2 DEF Pop, Goto
      <3>2. Head(queue[c]).kind # "lost"
        <4>1. LostAt(c) = {}
          BY DEF NothingReported
        <4>2. Head(queue[c]) = queue[c][1] /\ Len(queue[c]) > 0
          BY <3>1, EmptySeq
        <4> QED
          BY <4>1, <4>2 DEF LostAt
      <3>3. AfterPop(c, Head(queue[c])) \in {"loop", "exited", "callback"}
        BY <3>2 DEF AfterPop
      <3> QED
        BY <1>0, <3>1, <3>3, NullIsNoCaller DEF CallbacksSend
    <2> QED
      BY <1>2, <2>1, <2>2, KeptContext
  <1>3. ASSUME UNCHANGED <<pc, op>> PROVE CallbacksSend'
    BY <1>0, <1>3 DEF CallbacksSend
  <1>4. CASE Crash \/ UNCHANGED vars
    BY <1>3, <1>4 DEF Crash, vars, call
  <1> QED
    BY <1>1, <1>2, <1>3, <1>4, WorkersMoveNoCaller DEF Next

(* Who takes a callback context has closed the socket.                      *)
LEMMA KeptTakes ==
    ASSUME KeptState, NEW t \in Callers, Takes(t)
    PROVE  /\ socket # Null /\ socket_id # 0 /\ socket' = Null /\ callback' = Null
           /\ t \in Users /\ pc' = [pc EXCEPT ![t] = "handOver"] /\ op' = op
  <1> USE CallTypes DEF KeptState
  <1>1. ~AbortPending(t)
    BY DEF AbortPending, NothingReported
  <1>2. Close(t) /\ TakeContext(t) /\ op[t] \in Disconnects /\ pc[t] = "close"
    BY <1>1 DEF Takes, Close
  <1>3. socket # Null
    BY <1>2 DEF ProbeInv, SocketWhere
  <1>4. socket_id # 0
    BY <1>3 DEF ProbeInv, SocketCurrent, Null
  <1>5. t \in Users
    BY <1>2 DEF CallbacksSend
  <1> QED
    BY <1>2, <1>3, <1>4, <1>5 DEF Close, DestroySocket, TakeContext, Goto

(* Every step keeps that nothing is called back before the first connection.*)
LEMMA NotCalledYetStep ==
    ASSUME KeptState, [Next]_vars
    PROVE  NotCalledYet'
  <1> USE CallTypes DEF KeptState
  <1>1. socket_id' = 0 => socket_id = 0
    BY SocketStep DEF SocketChanges
  <1> SUFFICES ASSUME socket_id = 0 PROVE NotCalledYet'
    BY <1>1 DEF NotCalledYet
  <1>2. /\ \A u \in Users : pc[u] # "handOver"
        /\ \A c \in Contexts : /\ pc[c] \in {"none", "loop", "exited"}
                               /\ \A i \in Queued(c) : i.kind \in {"exit", "destroyAndExit"}
    BY DEF NotCalledYet
  <1>3. ASSUME NEW u \in Users, CallerNext(u) PROVE NotCalledYet'
    <2>1. pc[u] # "announce" /\ ~HandOver(u)
      BY <1>2, NullIsNoCaller DEF HandOver, ProbeInv, SocketWhere, SocketCurrent, Null
    <2>2. UNCHANGED queue \/ Put(callback, Item("exit"))
      BY <1>3, <2>1, KeptUser
    <2>3. ASSUME NEW c \in Contexts, NEW i \in Queued(c)' PROVE i.kind \in {"exit", "destroyAndExit"}
      <3>1. Item("exit") \in Items /\ Item("exit").kind = "exit"
        BY ItemType DEF Item, ItemKinds
      <3>2. i \in Queued(c) \/ i = Item("exit")
        <4>1. CASE UNCHANGED queue
          BY <4>1 DEF Queued
        <4>2. CASE Put(callback, Item("exit"))
          BY <3>1, <4>2, PutQueued DEF TypeOK
        <4> QED
          BY <2>2, <4>1, <4>2
      <3> QED
        BY <1>2, <3>1, <3>2
    <2>4. pc'[u] # "handOver"
      <3>1. ~Takes(u)
        BY KeptTakes
      <3>2. LeavesContexts(u) \/ EndsOwn(u) => pc'[u] # "handOver"
        BY DEF LeavesContexts, EndsOwn
      <3>3. JoinCallback(u) \/ CreateContext(u) => pc'[u] # "handOver"
        BY BaseType DEF JoinCallback, CreateContext, Leave, Goto
      <3> QED
        BY <1>3, <2>1, <3>1, <3>2, <3>3, KeptOwnOps, ContextUse
    <2>5. ASSUME NEW t \in Callers \ {u} PROVE pc'[t] = pc[t] \/ (t \in Contexts /\ pc'[t] = "loop")
      BY <1>3, MovesAlone
    <2>6. \A v \in Users : pc'[v] # "handOver"
      BY <1>2, <2>4, <2>5, NullIsNoCaller
    <2>7. \A c \in Contexts : pc'[c] \in {"none", "loop", "exited"}
      BY <1>2, <2>5, NullIsNoCaller
    <2> QED
      BY <2>3, <2>6, <2>7 DEF NotCalledYet
  <1>4. ASSUME NEW c \in Contexts, CallerNext(c) \/ TakeMutexInLoop(c) \/ AdvanceLoop(c)
        PROVE  NotCalledYet'
    <2>1. Pop(c)
      BY <1>2, <1>4, KeptContext
    <2>2. /\ queue[c] # <<>> /\ pc' = [pc EXCEPT ![c] = AfterPop(c, Head(queue[c]))]
          /\ queue' = [queue EXCEPT ![c] = Tail(@)]
      BY <2>1 DEF Pop, Goto
    <2>3. Head(queue[c]) \in Queued(c) /\ \A d \in Contexts : Queued(d)' \subseteq Queued(d)
      BY <2>2, PopQueued DEF TypeOK
    <2>4. AfterPop(c, Head(queue[c])) = "exited"
      BY <1>2, <2>3 DEF AfterPop
    <2> QED
      BY <1>2, <2>2, <2>3, <2>4 DEF NotCalledYet
  <1>5. ASSUME UNCHANGED <<pc, queue>> PROVE NotCalledYet'
    BY <1>2, <1>5 DEF NotCalledYet, Queued
  <1>6. ASSUME NEW s \in Sockets, ReceiverStep(s) \/ ReceivePacket(s) \/ ProbeStep(s) \/ LoseConnection(s)
        PROVE  NotCalledYet'
    BY <1>5, <1>6, KeptWorkers
  <1>7. CASE Crash \/ UNCHANGED vars
    BY <1>5, <1>7 DEF Crash, vars, call
  <1> QED
    BY <1>3, <1>4, <1>6, <1>7 DEF Next

(* An application thread that leaves the contexts alone leaves the socket   *)
(* open, unless it was closed, and a connect attempt opens it.              *)
LEMMA KeptLeaves ==
    ASSUME KeptState, NEW u \in Users, CallerNext(u), LeavesContexts(u)
    PROVE  (socket' = socket /\ pc[u] # "attempt") \/ socket' # Null
  <1> USE CallTypes DEF KeptState
  <1> DEFINE Same == socket' = socket /\ pc[u] # "attempt"
  <1>0. pc[u] # "joinCallback" /\ pc'[u] \notin {"handOver", "joinCallback"}
    BY DEF LeavesContexts
  <1>1. ASSUME pc[u] \in {"attempt", "close"}, op[u] \in {"connect", "reconnect"}, ConnectFailed(u) PROVE FALSE
    <2>1. pc' = [pc EXCEPT ![u] = "joinCallback"]
      BY <1>1, KeptOwnOps, OwnConnectFailed, NullIsNoCaller
    <2> QED
      BY <1>0, <2>1
  <1>2. CASE (\E f \in Functions : Call(u, f)) \/ (\E b \in BOOLEAN : SetAutoReconnect(u, b))
    <2>1. pc[u] = "idle"
      BY <1>2 DEF Call, SetAutoReconnect, MayCall, Base
    <2> QED
      BY <1>2, <2>1 DEF Call, SetAutoReconnect, net
  <1>3. CASE TakeMutex(u)
    BY <1>3 DEF TakeMutex, ReturnAtOnce, BeginConnect, NotConnected, AbortPending, BeginDisconnect, SendOk,
                SendFails, Enter, net
  <1>4. CASE ConnectOk(u)
    <2>1. socket' = socket_id + 1 /\ socket_id \in Nat
      BY <1>4 DEF ConnectOk
    <2> QED
      BY <2>1 DEF Null
  <1>5. ~ConnectFails(u) /\ ~ProbeThreadFails(u)
    BY <1>1 DEF ConnectFails, ProbeThreadFails, ProbeInv, OpsWhere
  <1>6. ~Close(u)
    <2> SUFFICES ASSUME Close(u) PROVE FALSE
      OBVIOUS
    <2>1. pc[u] = "close" /\ op[u] \notin {"send", "meta"}
      BY DEF Close, CallbacksSend
    <2>2. ~TakeContext(u)
      BY <1>0 DEF TakeContext, Goto
    <2> QED
      BY <1>1, <2>1, <2>2 DEF Close
  <1>7. CASE \/ CreateContext(u) \/ CreateContextFails(u) \/ StartReceiver(u) \/ ReceiveThreadFails(u)
             \/ StoreFlags(u) \/ Announce(u) \/ JoinProbe(u) \/ JoinReceive(u) \/ HandOver(u)
    BY <1>7 DEF CreateContext, CreateContextFails, StartReceiver, ReceiveThreadFails, StoreFlags, Announce,
                JoinProbe, JoinReceive, HandOver, net
  <1>8. ~JoinCallback(u)
    BY <1>0 DEF JoinCallback
  <1> QED
    BY <1>2, <1>3, <1>4, <1>5, <1>6, <1>7, <1>8 DEF CallerNext, Advance

(* Every step keeps what a callback context is there for.                   *)
LEMMA CallbackUsedStep ==
    ASSUME KeptState, [Next]_vars
    PROVE  CallbackUsed'
  <1> USE CallTypes DEF KeptState
  <1> SUFFICES ASSUME callback' # Null
               PROVE  socket' # Null \/ \E t \in Callers : (pc[t] = "attempt" \/ EndsItsOwn(t))'
    BY DEF CallbackUsed
  <1> DEFINE Uses(t) == pc[t] = "attempt" \/ EndsItsOwn(t)
             Goal == socket' # Null \/ \E t \in Callers : Uses(t)'
  <1>0. ASSUME callback' = callback, socket' = socket,
               \A t \in Callers : Uses(t) => pc'[t] = pc[t] /\ op'[t] = op[t]
        PROVE  Goal
    <2>1. socket # Null \/ \E t \in Callers : Uses(t)
      BY <1>0 DEF CallbackUsed
    <2>2. \A t \in Callers : Uses(t) => Uses(t)'
      BY <1>0 DEF EndsItsOwn
    <2> QED
      BY <1>0, <2>1, <2>2
  <1>1. ASSUME NEW u \in Users, CallerNext(u) PROVE Goal
    <2>0. \A t \in Callers \ {u} : Uses(t) => pc'[t] = pc[t] /\ op'[t] = op[t]
      BY <1>1, MovesAlone DEF EndsItsOwn
    <2>1. CASE Takes(u)
      BY <2>1, KeptTakes
    <2>2. CASE EndsOwn(u)
      <3>1. EndsItsOwn(u)'
        BY <2>2 DEF EndsOwn, EndsItsOwn
      <3> QED
        BY <3>1
    <2>3. CASE LeavesContexts(u)
      <3>1. callback' = callback /\ ~EndsItsOwn(u)
        BY <2>3 DEF LeavesContexts, EndsItsOwn
      <3> QED
        BY <1>0, <1>1, <2>0, <2>3, <3>1, KeptLeaves
    <2>4. CASE HandOver(u)
      <3>1. callback' = callback /\ socket' = socket /\ ~Uses(u)
        BY <2>4 DEF HandOver, context, net, EndsItsOwn
      <3> QED
        BY <1>0, <2>0, <3>1
    <2>5. CASE JoinCallback(u)
      <3>1. op[u] # "connect"
        BY <2>5 DEF JoinCallback
      <3>2. callback' = callback /\ socket' = socket /\ ~Uses(u)
        BY <2>5, <3>1 DEF JoinCallback, net, EndsItsOwn
      <3> QED
        BY <1>0, <2>0, <3>2
    <2>6. CASE CreateContext(u)
      <3>1. contexts + 1 # u /\ pc'[u] = "attempt"
        <4>1. contexts + 1 \in Nat /\ u \notin Nat
          BY UsersAssumption
        <4> QED
          BY <2>6, <4>1 DEF CreateContext, Goto
      <3> QED
        BY <3>1
    <2> QED
      BY <1>1, <2>1, <2>2, <2>3, <2>4, <2>5, <2>6, KeptOwnOps, ContextUse
  <1>2. ASSUME NEW c \in Contexts, CallerNext(c) \/ TakeMutexInLoop(c) \/ AdvanceLoop(c) PROVE Goal
    <2>1. ~Uses(c)
      BY NullIsNoCaller DEF CallbacksSend, EndsItsOwn
    <2>2. \A t \in Callers \ {c} : pc'[t] = pc[t] /\ op'[t] = op[t]
      BY <1>2, KeptContext DEF Pop, Goto
    <2>3. callback' = callback /\ socket' = socket
      BY <1>2, KeptContext
    <2> QED
      BY <1>0, <2>1, <2>2, <2>3
  <1>3. CASE UNCHANGED <<callback, socket, pc, op>>
    BY <1>0, <1>3
  <1>4. CASE Crash \/ UNCHANGED vars
    BY <1>3, <1>4 DEF Crash, vars, call, context, net
  <1> QED
    BY <1>1, <1>2, <1>3, <1>4, WorkersMoveNoCaller DEF Next

(* An application thread that comes to destroy has just called it.          *)
LEMMA DestroyCalled ==
    ASSUME TypeOK, NEW u \in Users, CallerNext(u), op'[u] = "destroy", op[u] # "destroy"
    PROVE  Call(u, "destroy")
  <1> USE CallTypes DEF Leave
  <1>1. ASSUME NEW f \in Functions, Call(u, f) PROVE f = "destroy"
    BY <1>1 DEF Call
  <1>2. ~\E b \in BOOLEAN : SetAutoReconnect(u, b)
    BY DEF SetAutoReconnect, call
  <1>3. ~TakeMutex(u)
    BY DEF TakeMutex, ReturnAtOnce, BeginConnect, NotConnected, AbortPending, TakeContext, BeginDisconnect,
           SendOk, SendFails
  <1>4. ~Advance(u)
    BY DEF Advance, CreateContext, CreateContextFails, ConnectFails, ConnectFailed, ExitCallbackThread, ConnectOk,
           ProbeThreadFails, StartReceiver, ReceiveThreadFails, StoreFlags, Announce, JoinProbe, JoinReceive,
           Close, TakeContext, HandOver, JoinCallback
  <1> QED
    BY <1>1, <1>2, <1>3, <1>4 DEF CallerNext

(* Every step keeps that ipcon_destroy is alone, and what it has closed.    *)
LEMMA DestroysAloneStep ==
    ASSUME KeptState, [Next]_vars
    PROVE  DestroysAlone'
  <1> USE CallTypes DEF KeptState
  <1> DEFINE Alone(t) == /\ \A v \in Users \ {t} : pc[v] = "idle"
                         /\ pc[t] \in {"handOver", "joinCallback"} => socket = Null /\ callback = Null
  <1>0. \A t \in Users : op[t] = "destroy" => Alone(t)
    BY DEF DestroysAlone
  <1>1. ASSUME \A t \in Users : pc'[t] = pc[t] /\ op'[t] = op[t], UNCHANGED <<socket, callback>>
        PROVE  DestroysAlone'
    BY <1>0, <1>1 DEF DestroysAlone
  <1>2. ASSUME NEW u \in Users, CallerNext(u) PROVE DestroysAlone'
    <2>1. \A v \in Users \ {u} : pc'[v] = pc[v] /\ op'[v] = op[v]
      BY <1>2, MovesAlone, NullIsNoCaller
    <2>2. ASSUME op'[u] = "destroy" PROVE Alone(u)'
      <3>1. \A v \in Users \ {u} : pc[v] = "idle"
        <4>1. CASE op[u] = "destroy"
          BY <1>0, <4>1
        <4>2. CASE op[u] # "destroy"
          <5>1. Call(u, "destroy")
            BY <1>2, <2>2, <4>2, DestroyCalled
          <5> QED
            BY <5>1 DEF Call
        <4> QED
          BY <4>1, <4>2
      <3>2. ASSUME pc'[u] \in {"handOver", "joinCallback"} PROVE socket' = Null /\ callback' = Null
        <4>1. CASE Takes(u)
          BY <4>1, KeptTakes
        <4>2. CASE HandOver(u)
          <5>1. op' = op /\ pc[u] = "handOver" /\ UNCHANGED <<socket, callback>>
            BY <2>2, <4>2 DEF HandOver, Leave, net, context
          <5> QED
            BY <1>0, <2>2, <5>1
        <4>3. ~LeavesContexts(u) /\ ~EndsOwn(u)
          BY <2>2, <3>2 DEF LeavesContexts, EndsOwn
        <4>4. ~JoinCallback(u)
          BY <2>2 DEF JoinCallback, Leave
        <4>5. ~CreateContext(u)
          <5>1. contexts + 1 # u
            BY UsersAssumption
          <5> QED
            BY <3>2, <5>1 DEF CreateContext, Goto
        <4> QED
          BY <1>2, <4>1, <4>2, <4>3, <4>4, <4>5, KeptOwnOps, ContextUse
      <3> QED
        BY <2>1, <3>1, <3>2
    <2>3. ASSUME NEW t \in Users \ {u}, op'[t] = "destroy" PROVE DestroysAlone'
      <3>1. op[t] = "destroy" /\ pc[u] = "idle"
        BY <1>0, <2>1, <2>3
      <3>2. ~\E f \in Functions : Call(u, f)
        BY <3>1 DEF Call
      <3>3. ~TakeMutex(u)
        BY <3>1 DEF TakeMutex, ReturnAtOnce, BeginConnect, NotConnected, AbortPending, BeginDisconnect, SendOk,
                    SendFails, Enter
      <3>4. ~Advance(u)
        BY <3>1 DEF Advance, CreateContext, CreateContextFails, ConnectFails, ConnectOk, ProbeThreadFails,
                    StartReceiver, ReceiveThreadFails, StoreFlags, Announce, JoinProbe, JoinReceive, Close,
                    HandOver, JoinCallback
      <3>5. PICK b \in BOOLEAN : SetAutoReconnect(u, b)
        BY <1>2, <3>2, <3>3, <3>4 DEF CallerNext
      <3> QED
        BY <1>1, <3>5 DEF SetAutoReconnect, net, context, call
    <2> QED
      BY <2>1, <2>2, <2>3 DEF DestroysAlone
  <1>3. ASSUME NEW c \in Contexts, CallerNext(c) \/ TakeMutexInLoop(c) \/ AdvanceLoop(c)
        PROVE  DestroysAlone'
    <2>1. \A t \in Callers \ {c} : pc'[t] = pc[t] /\ op'[t] = op[t]
      BY <1>3, KeptContext DEF Pop, Goto
    <2>2. UNCHANGED <<socket, callback>> /\ c \notin Users
      BY <1>3, KeptContext, NullIsNoCaller
    <2> QED
      BY <1>1, <2>1, <2>2
  <1>4. CASE UNCHANGED <<callback, socket, pc, op>>
    BY <1>1, <1>4
  <1>5. CASE Crash \/ UNCHANGED vars
    BY <1>4, <1>5 DEF Crash, vars, call, context, net
  <1> QED
    BY <1>2, <1>3, <1>4, <1>5, WorkersMoveNoCaller DEF Next

(* When ipcon_destroy returns, nobody is left.                              *)
LEMMA NobodyLeft ==
    ASSUME KeptState, NEW u \in Users, NotConnected(u) \/ JoinCallback(u), op[u] = "destroy"
    PROVE  /\ \A w \in Workers : ~Running(w)'
           /\ \A c \in Contexts : pc'[c] \in {"none", "exited"}
  <1> USE CallTypes DEF KeptState
  <1>1. /\ pc[u] = "enter" \/ (pc[u] = "joinCallback" /\ pc[target[u]] = "exited")
        /\ wpc' = wpc /\ \A c \in Contexts : pc'[c] = pc[c]
    BY NullIsNoCaller DEF NotConnected, JoinCallback, CallbackEnded, Enter, Leave, Goto, worker
  <1>2. socket = Null /\ callback = Null
    <2>1. CASE NotConnected(u)
      <3>1. socket = Null /\ socket_mutex = Null
        BY <2>1 DEF NotConnected, Enter
      <3>2. \A t \in Callers : pc[t] # "attempt" /\ ~EndsItsOwn(t)
        BY <3>1, NullIsNoCaller DEF ProbeInv, MutexHeld, Holds, EndsItsOwn
      <3> QED
        BY <3>1, <3>2 DEF CallbackUsed
    <2>2. CASE JoinCallback(u)
      BY <2>2 DEF JoinCallback, DestroysAlone
    <2> QED
      BY <2>1, <2>2
  <1>3. ASSUME NEW w \in Workers, Running(w) PROVE FALSE
    <2>1. PICK s \in Sockets : w = <<"receive", s>> \/ w = <<"probe", s>>
      BY DEF Workers
    <2>2. socket = s
      BY <1>3, <2>1 DEF NothingReported, JoinedInv, ReceiversAlone, SocketReceived, Receives, ProbeInv, ProbeSocketLive
    <2> QED
      BY <1>2, <2>2, NullIsNoCaller
  <1>4. ASSUME NEW c \in Contexts, pc[c] \notin {"none", "exited"} PROVE FALSE
    <2>1. c # callback
      BY <1>2, NullIsNoCaller
    <2>2. PICK v \in Users : pc[v] \in {"handOver", "joinCallback"} /\ target[v] = c
      BY <1>4, <2>1 DEF ContextsHeld
    <2>3. v = u
      BY <2>2 DEF DestroysAlone
    <2> QED
      BY <1>1, <1>4, <2>2, <2>3
  <1> QED
    BY <1>1, <1>3, <1>4 DEF Running

(* Every step keeps that nobody is left after ipcon_destroy.                *)
LEMMA DestroyTerminatesStep ==
    ASSUME KeptState, DestroyTerminates, [Next]_vars
    PROVE  DestroyTerminates'
  <1> USE CallTypes DEF KeptState
  <1>1. CASE UNCHANGED vars
    BY <1>1 DEF DestroyTerminates, Running, vars, call, worker, fate
  <1>2. CASE Next /\ destroyed'
    <2>1. ~destroyed
      BY <1>2 DEF Next, Ended
    <2>2. PICK u \in Users : CallerNext(u)
      <3>1. ~Crash
        BY <1>2, <2>1 DEF Crash
      <3> QED
        BY <1>2, <2>1, <3>1, KeptContext, KeptWorkers DEF Next
    <2>3. NotConnected(u) \/ JoinCallback(u)
      <3>1. TakeMutex(u) => NotConnected(u)
        BY <1>2, <2>1 DEF TakeMutex, ReturnAtOnce, BeginConnect, AbortPending, BeginDisconnect, SendOk, SendFails, fate
      <3>2. Advance(u) => JoinCallback(u)
        BY <1>2, <2>1 DEF Advance, CreateContext, CreateContextFails, ConnectFails, ConnectOk, ProbeThreadFails,
                          StartReceiver, ReceiveThreadFails, StoreFlags, Announce, JoinProbe, JoinReceive, Close,
                          HandOver, fate
      <3>3. ~(\E f \in Functions : Call(u, f)) /\ ~(\E b \in BOOLEAN : SetAutoReconnect(u, b))
        BY <1>2, <2>1 DEF Call, SetAutoReconnect, fate
      <3> QED
        BY <2>2, <3>1, <3>2, <3>3 DEF CallerNext
    <2>4. op[u] = "destroy"
      BY <1>2, <2>3 DEF NotConnected, JoinCallback
    <2> QED
      BY <2>3, <2>4, NobodyLeft DEF DestroyTerminates
  <1>3. CASE ~destroyed'
    BY <1>3 DEF DestroyTerminates
  <1> QED
    BY <1>1, <1>2, <1>3

LEMMA KeptInit == Init => KeptInv
  <1> SUFFICES ASSUME Init PROVE KeptInv
    OBVIOUS
  <1>0. Contexts \cap Users = {}
    BY NullIsNoCaller
  <1>1. NothingReported
    <2>1. \A s \in Sockets : <<"probe", s>> \in Workers
      BY DEF Workers
    <2>2. ~ProbeReported
      BY <2>1 DEF Init, ProbeReported
    <2> QED
      BY <2>2 DEF Init, NothingReported, Item, LostAt
  <1>2. \A t \in Callers : pc[t] \in {"idle", "none"} /\ op[t] = "none"
    BY DEF Init
  <1>3. \A c \in Contexts : pc[c] = "none" /\ Queued(c) = {}
    BY <1>0 DEF Init, Callers, Queued
  <1>4. CallbacksSend
    BY <1>2, <1>3 DEF CallbacksSend, Callers
  <1>5. NotCalledYet
    BY <1>2, <1>3 DEF NotCalledYet, Callers
  <1>6. CallbackUsed /\ DestroysAlone /\ ContextsHeld /\ DestroyTerminates
    BY <1>2, <1>3 DEF Init, CallbackUsed, DestroysAlone, ContextsHeld, DestroyTerminates, EndsItsOwn, Callers
  <1> QED
    BY <1>1, <1>4, <1>5, <1>6 DEF KeptInv

(* What holds in every state when no connection is lost.                    *)
KeptReached == TypeOK /\ ProbeInv /\ LossInv /\ ContextInv /\ FoundKnown /\ JoinedInv /\ KeptInv

(* DestroyTerminates, for any bounds, when no connection is lost and        *)
(* callbacks neither disconnect nor connect again: whatever else they and   *)
(* other threads call, and whichever thread_create fails, ipcon_destroy     *)
(* leaves no receive, probe or callback thread behind in freed memory.      *)
THEOREM DestroyTerminatesCorrect == NoneLost => (Spec => []DestroyTerminates)
  <1> SUFFICES ASSUME NoneLost PROVE Spec => []DestroyTerminates
    OBVIOUS
  <1>1. Init => KeptReached
    BY InitType, ProbeInvInit, LossInvInit, ContextInit, JoinedInit, KeptInit
    DEF KeptReached, Init, FoundKnown, Null
  <1>2. KeptReached /\ [Next]_vars => KeptReached'
    <2> SUFFICES ASSUME KeptReached, [Next]_vars PROVE KeptReached'
      OBVIOUS
    <2>1. KeptState /\ DestroyTerminates /\ lost = {} /\ OwnOps
      BY KeptOwnOps DEF KeptReached, KeptInv, KeptState, NothingReported
    <2>2. TypeOK' /\ ProbeInv' /\ LossInv' /\ ContextInv' /\ FoundKnown' /\ JoinedInv'
      BY <2>1, TypeStep, ProbeInvStep, LossInvStep, ContextStep, FoundKnownStep, JoinedStep DEF KeptReached
    <2>3. NothingReported' /\ CallbacksSend' /\ NotCalledYet'
      BY <2>1, NothingReportedStep, CallbacksSendStep, NotCalledYetStep
    <2>4. CallbackUsed' /\ DestroysAlone' /\ DestroyTerminates'
      BY <2>1, CallbackUsedStep, DestroysAloneStep, DestroyTerminatesStep
    <2>5. ContextsHeld'
      BY <2>1, ContextsHeldStep DEF KeptState
    <2> QED
      BY <2>2, <2>3, <2>4, <2>5 DEF KeptReached, KeptInv
  <1>3. KeptReached => DestroyTerminates
    BY DEF KeptReached, KeptInv
  <1> QED
    BY <1>1, <1>2, <1>3, PTL DEF Spec
=============================================================================
