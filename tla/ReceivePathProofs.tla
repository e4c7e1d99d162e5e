-------------------------- MODULE ReceivePathProofs --------------------------
(***************************************************************************)
(* Theorems about the way from the socket to the functions of the          *)
(* application, for streams of any packets, buffers of any size and pieces *)
(* of any length, and for any interleaving with ipcon_disconnect.          *)
(***************************************************************************)
EXTENDS ReceivePath, SequenceTheorems, TLAPS

(* The numbers that describe the stream.                                   *)
LEMMA StreamNumbers ==
    /\ HeaderSize \in Nat \ {0} /\ MaxLength \in Nat /\ BufferSize \in Nat /\ Packets \in Nat
    /\ LengthAt \in 1 .. HeaderSize /\ HeaderSize <= MaxLength /\ MaxLength <= BufferSize
    /\ LengthAt \in BufferIndex
    /\ \A i \in 1 .. Packets + 1 : Start[i] \in Nat
    /\ Start[1] = 0 /\ StreamLength \in Nat
    /\ \A p \in Positions : LengthField[p] \in 0 .. MaxLength
  BY FramingAssumption DEF StreamLength, Positions, BufferIndex

(* Where the length is looked for there is a byte of the stream, or none.  *)
LEMMA FirstLengthType == FramingTypeOK => FirstLength \in 0 .. MaxLength
  BY StreamNumbers DEF FramingTypeOK, FirstLength

(* The buffer starts with a packet when there is one.                      *)
LEMMA FirstIsNext ==
    ASSUME FramingInv, PacketThere
    PROVE  LET i == Len(handled) + 1
           IN  /\ i \in 1 .. Packets
               /\ FirstLength = Start[i + 1] - Start[i]
               /\ FirstLength \in 1 .. pending_length
               /\ FirstPacket = Packet(i)
  <1> DEFINE i == Len(handled) + 1
  <1>1. pending_length \in 1 .. BufferSize /\ LengthAt <= pending_length
    BY StreamNumbers DEF FramingInv, FramingTypeOK, PacketThere, HeaderThere
  <1>2. Len(handled) \in Nat /\ Len(handled) <= Packets
    BY LenProperties DEF FramingInv, FramingTypeOK, Contiguous
  <1>3. i \in 1 .. Packets
    <2>1. received = Start[i] + pending_length /\ received <= Start[Packets + 1]
      BY StreamNumbers DEF FramingInv, FramingTypeOK, Contiguous, StreamLength
    <2>2. i # Packets + 1
      BY <1>1, <2>1, StreamNumbers
    <2> QED
      BY <1>2, <2>2, StreamNumbers
  <1>4. pending_data[LengthAt] = Start[i] + LengthAt
    BY <1>1, StreamNumbers DEF FramingInv, Contiguous
  <1>5. FirstLength = Start[i + 1] - Start[i] /\ FirstLength >= HeaderSize
    <2>1. FirstLength = LengthField[Start[i] + LengthAt]
      BY <1>4 DEF FirstLength
    <2>2. /\ LengthField[Start[i] + LengthAt] >= HeaderSize
          /\ Start[i + 1] = Start[i] + LengthField[Start[i] + LengthAt]
      BY <1>3, FramingAssumption
    <2>3. Start[i] \in Nat /\ FirstLength \in Nat
      BY <1>3, FirstLengthType, StreamNumbers DEF FramingInv
    <2> HIDE DEF i
    <2> QED
      BY <2>1, <2>2, <2>3
  <1>6. FirstLength \in 1 .. pending_length
    BY <1>1, <1>5, FirstLengthType, StreamNumbers DEF PacketThere, FramingInv
  <1>7. FirstPacket = Packet(i)
    <2>1. \A k \in 1 .. FirstLength : pending_data[k] = Start[i] + k
      BY <1>1, <1>6 DEF FramingInv, Contiguous
    <2> QED
      BY <1>5, <2>1 DEF FirstPacket, Packet
  <1> QED
    BY <1>3, <1>5, <1>6, <1>7

LEMMA FramingStarts == FramingInit => FramingInv
  <1> SUFFICES ASSUME FramingInit PROVE FramingInv
    OBVIOUS
  <1>1. Len(handled) = 0 /\ handled \in Seq(UNION {[1 .. n -> Positions] : n \in 0 .. MaxLength})
    BY DEF FramingInit
  <1>2. FramingTypeOK
    BY <1>1, StreamNumbers DEF FramingInit, FramingTypeOK, Positions
  <1> QED
    BY <1>1, <1>2, StreamNumbers DEF FramingInit, FramingInv, IsStream, Contiguous, NeverFull

(* A piece of the stream continues what is in the buffer.                  *)
LEMMA ReceiveKeeps == FramingInv /\ Receive => FramingInv'
  <1> SUFFICES ASSUME FramingInv, Receive PROVE FramingInv'
    OBVIOUS
  <1>1. PICK n \in 1 .. StreamLength :
          /\ n <= BufferSize - pending_length /\ n <= StreamLength - received
          /\ pending_data' = Stored(n)
          /\ pending_length' = pending_length + n /\ received' = received + n
    BY DEF Receive
  <1>2. UNCHANGED <<receive_flag, handled>> /\ receiver' = "split"
    BY DEF Receive
  <1>3. n \in Nat /\ received \in Nat /\ pending_length \in Nat /\ Len(handled) \in Nat
    BY StreamNumbers, LenProperties DEF FramingInv, FramingTypeOK
  <1>4. \A k \in BufferIndex :
          pending_data'[k] = IF k \in pending_length + 1 .. pending_length + n
                             THEN received + k - pending_length ELSE pending_data[k]
    BY <1>1 DEF Stored
  <1>5. FramingTypeOK'
    <2>1. Stored(n) \in [BufferIndex -> Positions]
      BY <1>1, <1>3, StreamNumbers DEF FramingInv, FramingTypeOK, Stored, Positions, BufferIndex
    <2> QED
      BY <1>1, <1>2, <1>3, <2>1, StreamNumbers DEF FramingInv, FramingTypeOK
  <1>6. Contiguous'
    <2>1. Start[Len(handled) + 1] \in Nat /\ received = Start[Len(handled) + 1] + pending_length
      BY <1>3, StreamNumbers DEF FramingInv, Contiguous
    <2>2. ASSUME NEW k \in 1 .. pending_length' PROVE pending_data'[k] = Start[Len(handled) + 1] + k
      <3>1. k \in BufferIndex
        BY <1>1, <1>3, <2>2, StreamNumbers DEF BufferIndex
      <3>2. CASE k <= pending_length
        BY <1>3, <1>4, <2>2, <3>1, <3>2 DEF FramingInv, Contiguous
      <3>3. CASE k > pending_length
        BY <1>1, <1>3, <1>4, <2>1, <2>2, <3>1, <3>3
      <3> QED
        BY <1>3, <2>2, <3>2, <3>3
    <2> QED
      BY <1>1, <1>2, <1>3, <2>1, <2>2 DEF FramingInv, Contiguous
  <1> QED
    BY <1>2, <1>5, <1>6 DEF FramingInv, IsStream, NeverFull

(* When a packet was handled, the buffer starts with the next one.         *)
LEMMA HandleKeeps == FramingInv /\ HandlePacket => FramingInv'
  <1> SUFFICES ASSUME FramingInv, HandlePacket PROVE FramingInv'
    OBVIOUS
  <1> DEFINE i == Len(handled) + 1
  <1>1. /\ handled' = Append(handled, Packet(i))
        /\ pending_data' = Moved /\ pending_length' = pending_length - FirstLength
        /\ UNCHANGED <<receive_flag, received>> /\ receiver' = "split"
    BY FirstIsNext DEF HandlePacket
  <1>2. i \in 1 .. Packets /\ FirstLength = Start[i + 1] - Start[i] /\ FirstLength \in 1 .. pending_length
    BY FirstIsNext DEF HandlePacket
  <1>3. pending_length \in 0 .. BufferSize /\ Len(handled) \in Nat /\ Start[i] \in Nat /\ Start[i + 1] \in Nat
    BY <1>2, StreamNumbers, LenProperties DEF FramingInv, FramingTypeOK
  <1>4. Packet(i) \in [1 .. FirstLength -> Positions]
    <2>1. FirstPacket \in [1 .. FirstLength -> Positions]
      BY <1>2, <1>3, StreamNumbers DEF FirstPacket, FramingInv, FramingTypeOK, BufferIndex
    <2> QED
      BY <2>1, FirstIsNext DEF HandlePacket
  <1> DEFINE Pieces == UNION {[1 .. n -> Positions] : n \in 0 .. MaxLength}
  <1>5. handled \in Seq(Pieces) /\ Packet(i) \in Pieces
    BY <1>4, FirstLengthType DEF FramingInv, FramingTypeOK
  <1>6. /\ handled' \in Seq(Pieces) /\ Len(handled') = i
        /\ \A k \in 1 .. i : handled'[k] = IF k = i THEN Packet(i) ELSE handled[k]
    <2> HIDE DEF Pieces
    <2> QED
      BY <1>1, <1>5, AppendProperties
  <1>7. Moved \in [BufferIndex -> Positions]
    BY <1>2, <1>3, StreamNumbers DEF Moved, FramingInv, FramingTypeOK, BufferIndex
  <1>8. FramingTypeOK'
    BY <1>1, <1>2, <1>3, <1>6, <1>7, StreamNumbers DEF FramingInv, FramingTypeOK
  <1>9. IsStream'
    <2>1. Len(handled') <= Packets
      BY <1>2, <1>3, <1>6, StreamNumbers
    <2>2. \A k \in 1 .. Len(handled) : handled[k] = Packet(k)
      BY DEF FramingInv, IsStream
    <2>3. ASSUME NEW k \in 1 .. i PROVE handled'[k] = Packet(k)
      <3>1. CASE k = i
        BY <1>6, <3>1
      <3>2. CASE k # i
        <4>1. k \in 1 .. Len(handled)
          BY <1>3, <3>2
        <4> QED
          BY <1>6, <2>2, <3>2, <4>1
      <3> QED
        BY <3>1, <3>2
    <2> QED
      BY <1>6, <2>1, <2>3 DEF IsStream
  <1>10. Contiguous'
    <2>1. received = Start[i + 1] + pending_length'
      <3>1. received = Start[i] + pending_length
        BY DEF FramingInv, Contiguous
      <3>2. pending_length' = pending_length - (Start[i + 1] - Start[i])
        BY <1>1, <1>2
      <3> HIDE DEF i
      <3> QED
        BY <1>3, <3>1, <3>2
    <2>2. ASSUME NEW k \in 1 .. pending_length' PROVE pending_data'[k] = Start[i + 1] + k
      <3>1. k \in BufferIndex /\ k <= pending_length - FirstLength /\ k + FirstLength \in 1 .. pending_length
        BY <1>1, <1>2, <1>3, <2>2, StreamNumbers DEF BufferIndex
      <3>2. pending_data'[k] = pending_data[k + FirstLength]
        BY <1>1, <3>1 DEF Moved
      <3>3. pending_data[k + FirstLength] = Start[i] + (k + FirstLength)
        BY <3>1 DEF FramingInv, Contiguous
      <3> QED
        <4>1. pending_data'[k] = Start[i] + (k + (Start[i + 1] - Start[i])) /\ k \in Nat
          BY <1>2, <2>2, <3>1, <3>2, <3>3
        <4> HIDE DEF i
        <4> QED
          BY <1>3, <4>1
    <2> QED
      BY <1>1, <1>2, <1>6, <2>1, <2>2 DEF Contiguous
  <1> QED
    BY <1>1, <1>8, <1>9, <1>10 DEF FramingInv, NeverFull

(* There is room behind a packet that is not complete.                     *)
LEMMA WaitKeeps == FramingInv /\ WaitForMore => FramingInv'
  <1> SUFFICES ASSUME FramingInv, WaitForMore PROVE FramingInv'
    OBVIOUS
  <1>1. pending_length < BufferSize
    BY StreamNumbers, FirstLengthType DEF FramingInv, FramingTypeOK, WaitForMore, PacketThere, HeaderThere
  <1> QED
    BY <1>1 DEF WaitForMore, FramingInv, FramingTypeOK, IsStream, Contiguous, NeverFull

LEMMA FramingStep == FramingInv /\ [FramingNext]_framingVars => FramingInv'
  <1> SUFFICES ASSUME FramingInv, [FramingNext]_framingVars PROVE FramingInv'
    OBVIOUS
  <1>1. CASE ReceiveEnds \/ HandleEnd \/ ReceiverLeaves \/ TestFlag
    BY <1>1 DEF ReceiveEnds, HandleEnd, ReceiverLeaves, TestFlag, FramingInv, FramingTypeOK, IsStream, Contiguous, NeverFull
  <1>2. CASE StopReceiving
    BY <1>2 DEF StopReceiving, FramingInv, FramingTypeOK, IsStream, Contiguous, NeverFull
  <1>3. CASE UNCHANGED framingVars
    BY <1>3 DEF framingVars, FramingInv, FramingTypeOK, IsStream, Contiguous, NeverFull
  <1> QED
    BY <1>1, <1>2, <1>3, ReceiveKeeps, HandleKeeps, WaitKeeps DEF FramingNext

(* The invariant of the receive thread alone.                              *)
THEOREM FramingCorrect == FramingSpec => []FramingInv
  BY FramingStarts, FramingStep, PTL DEF FramingSpec

-----------------------------------------------------------------------------
(* Registrations, the callback thread and ipcon_disconnect do not get in    *)
(* between: the receive path is a receive thread.                          *)
LEMMA PathIsFraming == [Next]_vars => [FramingNext]_framingVars
  <1> SUFFICES ASSUME [Next]_vars PROVE [FramingNext]_framingVars
    OBVIOUS
  <1>1. CASE Receiver
    BY <1>1 DEF Receiver, Handle, ReportLoss, Splitting, FramingNext
  <1>2. CASE Disconnect
    BY <1>2 DEF Disconnect, Disallow, Stop, JoinReceiver, QueueRequest, QueueExit, QueueLast, JoinCallback, FramingNext
  <1>3. CASE CallbackThread
    BY <1>3 DEF CallbackThread, TakeLost, TakeMeta
  <1>4. CASE Announce \/ \E by \in {"user", "callback"} : BeginDisconnect(by)
    BY <1>4 DEF Announce, BeginDisconnect
  <1>5. CASE Register \/ RegisterEnds \/ Destroy
    BY <1>5 DEF Register, RegisterEnds, Destroy
  <1>6. CASE UNCHANGED vars
    BY <1>6 DEF vars
  <1> QED
    BY <1>1, <1>2, <1>3, <1>4, <1>5, <1>6 DEF Next

THEOREM PathImplementsFraming == Spec => FramingSpec
  <1>1. Init => FramingInit
    BY DEF Init
  <1> QED
    BY <1>1, PathIsFraming, PTL DEF Spec, FramingSpec

(* Packets are handled as they were sent, whatever pieces arrive.          *)
THEOREM IsStreamCorrect == Spec => []IsStream
  <1>1. FramingInv => IsStream
    BY DEF FramingInv
  <1> QED
    BY <1>1, PathImplementsFraming, FramingCorrect, PTL

(* recv is never asked for no bytes.                                       *)
THEOREM NeverFullCorrect == Spec => []NeverFull
  <1>1. FramingInv => NeverFull
    BY DEF FramingInv
  <1> QED
    BY <1>1, PathImplementsFraming, FramingCorrect, PTL

-----------------------------------------------------------------------------
(* ipcon_disconnect and the callback thread.  After packet_dispatch_allowed *)
(* was cleared no packet is taken any more: only one that was taken before  *)
(* may still lead to a call.  The thread that called ipcon_disconnect waits *)
(* for the end of the callback thread; a callback waits by being that       *)
(* thread.                                                                 *)
Dispatching == callback_pc \in {"dispatch", "function", "user_data", "call"}
NoneLate == \A k \in DOMAIN calls : ~calls[k].late

IsSequence(s) == \E S : s \in Seq(S)

DisconnectInv ==
    /\ disconnecting \in {"no", "disallow", "stop", "join", "request", "exit", "wait", "done"}
    /\ disconnecting # "no" => caller \in {"user", "callback"}
    /\ disconnecting \notin {"no", "disallow"} => ~packet_dispatch_allowed
    /\ caller = "callback" /\ disconnecting \notin {"no", "done"} => InFunction
    /\ disconnecting = "done" => ~Dispatching
    /\ disconnecting = "done" /\ caller = "user" => callback_pc = "ended"

LateInv ==
    /\ IsSequence(calls)
    /\ (ReceiverEnded /\ ~Dispatching) \/ NoneLate
    /\ AtMostOneLate

LEMMA AppendAny ==
    ASSUME NEW s, IsSequence(s), NEW x
    PROVE  /\ IsSequence(Append(s, x))
           /\ Len(s) \in Nat /\ DOMAIN s = 1 .. Len(s)
           /\ DOMAIN Append(s, x) = 1 .. Len(s) + 1
           /\ \A k \in 1 .. Len(s) : Append(s, x)[k] = s[k]
           /\ Append(s, x)[Len(s) + 1] = x
  <1>1. PICK S : s \in Seq(S)
    BY DEF IsSequence
  <1>2. Len(s) \in Nat /\ DOMAIN s = 1 .. Len(s) /\ s \in [1 .. Len(s) -> S]
    BY <1>1, LenProperties
  <1>3. s \in Seq(S \cup {x})
    BY <1>2, SeqDef
  <1> DEFINE T == S \cup {x}
  <1>4. x \in T
    OBVIOUS
  <1>5. /\ Append(s, x) \in Seq(T) /\ Len(Append(s, x)) = Len(s) + 1
        /\ \A k \in 1 .. Len(s) : Append(s, x)[k] = s[k]
        /\ Append(s, x)[Len(s) + 1] = x
    <2> HIDE DEF T
    <2> QED
      BY <1>3, <1>4, AppendProperties DEF T
  <1> QED
    BY <1>2, <1>5, LenProperties DEF IsSequence

(* What the callback thread does step by step.                             *)
LEMMA DispatchStep ==
    ASSUME [Next]_vars
    PROVE  /\ callback_pc = "ended" => callback_pc' = "ended"
           /\ Dispatching' => Dispatching \/ packet_dispatch_allowed
           /\ packet_dispatch_allowed' => packet_dispatch_allowed
           /\ calls' # calls => callback_pc = "call"
           /\ InFunction =>
                \/ InFunction'
                \/ callback_pc' = "get" /\ ~(caller = "callback" /\ disconnecting \notin {"no", "done"})
                   /\ UNCHANGED <<disconnecting, caller>>
  <1> USE DEF callbacksVars, dispatchVars, InFunction
  <1>1. CASE Receiver
    BY <1>1 DEF Receiver, Handle, HandleResponse, ReportLoss, Splitting, Dispatching
  <1>2. CASE Disconnect
    BY <1>2 DEF Disconnect, Disallow, Stop, JoinReceiver, QueueRequest, QueueExit, QueueLast, JoinCallback, Dispatching
  <1>3. CASE TakeLost \/ ((TakeMeta("connected") \/ TakeMeta("request")) /\ UNCHANGED disconnectVars)
    BY <1>3 DEF TakeLost, TakeMeta, Take, Dispatching
  <1>4. CASE (TakePacket \/ TakeExit) /\ UNCHANGED disconnectVars
    BY <1>4 DEF TakePacket, TakeExit, Take, Dispatching
  <1>5. CASE (Dispatch \/ LoadFunction \/ LoadUserData) /\ UNCHANGED disconnectVars
    BY <1>5 DEF Dispatch, LoadFunction, LoadUserData, FirstLoad, Dispatching
  <1>6. CASE (Call(ReceiverEnded) \/ CallbackReturns) /\ UNCHANGED disconnectVars
    BY <1>6 DEF Call, CallbackReturns, Return, Dispatching, disconnectVars
  <1>7. CASE Announce \/ \E by \in {"user", "callback"} : BeginDisconnect(by)
    BY <1>7 DEF Announce, BeginDisconnect, Dispatching
  <1>8. CASE Register \/ RegisterEnds \/ Destroy
    BY <1>8 DEF Register, StoreFunction, RegisterEnds, StoreUserData, Destroy, DestroyDevice, Dispatching
  <1>9. CASE UNCHANGED vars
    BY <1>9 DEF vars, Dispatching
  <1> QED
    BY <1>1, <1>2, <1>3, <1>4, <1>5, <1>6, <1>7, <1>8, <1>9 DEF Next, CallbackThread

(* How ipcon_disconnect goes on.                                           *)
LEMMA DisconnectStep ==
    ASSUME [Next]_vars, DisconnectInv
    PROVE  \/ UNCHANGED <<disconnecting, caller>>
           \/ /\ disconnecting = "no" /\ disconnecting' = "disallow" /\ caller' \in {"user", "callback"}
              /\ caller' = "callback" => InFunction /\ callback_pc' = callback_pc
           \/ /\ disconnecting # "no" /\ caller' = caller /\ UNCHANGED callback_pc
              /\ disconnecting' \in {"stop", "join", "request", "exit", "wait", "done"}
              /\ disconnecting' = "stop" => ~packet_dispatch_allowed'
              /\ disconnecting' # "stop" => disconnecting # "disallow"
              /\ ReceiverEnded => ReceiverEnded'
              /\ disconnecting' = "done" => callback_pc = "ended" \/ caller = "callback"
              /\ disconnecting # "done"
  <1> USE DEF callbacksVars, dispatchVars, disconnectVars, ReceiverEnded, InFunction
  <1>1. CASE Receiver
    BY <1>1 DEF Receiver, Handle, ReportLoss, Splitting
  <1>2. CASE Disconnect
    BY <1>2 DEF Disconnect, Disallow, Stop, JoinReceiver, QueueRequest, QueueExit, QueueLast, JoinCallback, DisconnectInv
  <1>3. CASE CallbackThread
    BY <1>3 DEF CallbackThread, TakeLost, TakeMeta
  <1>4. CASE Announce \/ \E by \in {"user", "callback"} : BeginDisconnect(by)
    BY <1>4 DEF Announce, BeginDisconnect, InCallback
  <1>5. CASE Register \/ RegisterEnds \/ Destroy
    BY <1>5 DEF Register, RegisterEnds, Destroy
  <1>6. CASE UNCHANGED vars
    BY <1>6 DEF vars
  <1> QED
    BY <1>1, <1>2, <1>3, <1>4, <1>5, <1>6 DEF Next

LEMMA DisconnectKeeps == DisconnectInv /\ [Next]_vars => DisconnectInv'
  <1> SUFFICES ASSUME DisconnectInv, [Next]_vars PROVE DisconnectInv'
    OBVIOUS
  <1>1. CASE UNCHANGED <<disconnecting, caller>>
    BY <1>1, DispatchStep DEF DisconnectInv, InFunction
  <1>2. CASE disconnecting' = "disallow"
    BY <1>2, DisconnectStep, DispatchStep DEF DisconnectInv, InFunction
  <1>3. CASE ~UNCHANGED <<disconnecting, caller>> /\ disconnecting' # "disallow"
    BY <1>3, DisconnectStep, DispatchStep DEF DisconnectInv, Dispatching, InFunction
  <1> QED
    BY <1>1, <1>2, <1>3

(* A call is the only thing that makes the history longer.                 *)
LEMMA CallStep ==
    ASSUME [Next]_vars, calls' # calls
    PROVE  /\ callback_pc' = "running"
           /\ \E p, v : calls' = Append(calls, [packet |-> p, value |-> v, late |-> ReceiverEnded])
  <1> USE DEF callbacksVars, dispatchVars
  <1>1. ~Receiver
    BY DEF Receiver, Handle, HandleResponse, ReportLoss, Splitting
  <1>2. ~Disconnect /\ ~TakeLost
    BY DEF Disconnect, Disallow, Stop, JoinReceiver, QueueRequest, QueueExit, QueueLast, JoinCallback, TakeLost, TakeMeta
  <1>3. ~(TakeMeta("connected") \/ TakeMeta("request") \/ TakePacket \/ TakeExit \/ Dispatch \/ LoadFunction \/ LoadUserData \/ CallbackReturns)
    BY DEF TakeMeta, TakePacket, TakeExit, Dispatch, LoadFunction, LoadUserData, CallbackReturns, Return
  <1>4. ~Announce /\ ~(\E by \in {"user", "callback"} : BeginDisconnect(by))
    BY DEF Announce, BeginDisconnect
  <1>5. ~(Register \/ RegisterEnds \/ Destroy)
    BY DEF Register, StoreFunction, RegisterEnds, StoreUserData, Destroy, DestroyDevice
  <1>6. ~UNCHANGED vars
    BY DEF vars
  <1>7. Call(ReceiverEnded)
    BY <1>1, <1>2, <1>3, <1>4, <1>5, <1>6 DEF Next, CallbackThread
  <1> QED
    BY <1>7 DEF Call

LEMMA LateKeeps == DisconnectInv /\ LateInv /\ [Next]_vars => LateInv'
  <1> SUFFICES ASSUME DisconnectInv, LateInv, [Next]_vars PROVE LateInv'
    OBVIOUS
  <1>1. CASE calls' = calls
    <2>1. IsSequence(calls)' /\ AtMostOneLate'
      BY <1>1 DEF LateInv, IsSequence, AtMostOneLate
    <2>2. NoneLate' <=> NoneLate
      BY <1>1 DEF NoneLate
    <2>3. ASSUME ReceiverEnded, ~Dispatching PROVE ReceiverEnded' /\ ~Dispatching'
      BY <2>3, DispatchStep, DisconnectStep DEF DisconnectInv, ReceiverEnded
    <2> QED
      BY <2>1, <2>2, <2>3 DEF LateInv
  <1>2. CASE calls' # calls
    <2>1. PICK p, v : calls' = Append(calls, [packet |-> p, value |-> v, late |-> ReceiverEnded])
      BY <1>2, CallStep
    <2> DEFINE c == [packet |-> p, value |-> v, late |-> ReceiverEnded]
    <2>2. callback_pc = "call" /\ callback_pc' = "running"
      BY <1>2, CallStep, DispatchStep
    <2>3. NoneLate
      BY <2>2 DEF LateInv, Dispatching
    <2>4. /\ IsSequence(calls') /\ Len(calls) \in Nat /\ DOMAIN calls = 1 .. Len(calls)
          /\ DOMAIN calls' = 1 .. Len(calls) + 1
          /\ \A k \in 1 .. Len(calls) : calls'[k] = calls[k]
          /\ calls'[Len(calls) + 1] = c
      BY <2>1, AppendAny DEF LateInv
    <2>5. \A k \in DOMAIN calls' : calls'[k].late => k = Len(calls) + 1 /\ ReceiverEnded
      BY <2>3, <2>4 DEF NoneLate
    <2>6. AtMostOneLate'
      BY <2>5 DEF AtMostOneLate
    <2>7. ReceiverEnded => ReceiverEnded' /\ ~Dispatching'
      BY <2>2, DisconnectStep DEF ReceiverEnded, Dispatching
    <2>8. ~ReceiverEnded => NoneLate'
      BY <2>5 DEF NoneLate
    <2> QED
      BY <2>4, <2>6, <2>7, <2>8 DEF LateInv, IsSequence
  <1> QED
    BY <1>1, <1>2

LEMMA DisconnectCorrect == Spec => [](DisconnectInv /\ LateInv)
  <1>1. Init => DisconnectInv /\ LateInv
    <2> SUFFICES ASSUME Init PROVE DisconnectInv /\ LateInv
      OBVIOUS
    <2>1. calls = <<>> /\ disconnecting = "no" /\ caller = "none"
      BY DEF Init, CallbacksInit
    <2>2. calls \in Seq({}) /\ DOMAIN calls = {}
      BY <2>1
    <2> QED
      BY <2>1, <2>2 DEF DisconnectInv, LateInv, IsSequence, NoneLate, AtMostOneLate
  <1> QED
    BY <1>1, DisconnectKeeps, LateKeeps, PTL DEF Spec

(* At most one packet is dispatched after the receive thread has ended.    *)
THEOREM AtMostOneLateCorrect == Spec => []AtMostOneLate
  <1>1. LateInv => AtMostOneLate
    BY DEF LateInv
  <1> QED
    BY <1>1, DisconnectCorrect, PTL

-----------------------------------------------------------------------------
(* What a function is called with.  A slot of the registered functions is   *)
(* consistent except between the two stores of a registration for it; what  *)
(* the callback thread has loaded is what the slot has, as long as no       *)
(* registration for it overlaps.                                            *)
Items == {Item(kind, 0) : kind \in {"connected", "lost", "request", "exit"}} \cup {Item("packet", i) : i \in DOMAIN SlotOf}

CallTypeOK ==
    /\ callback_wrappers \in Bricklets
    /\ registered_callbacks \in [Slots -> Nat] /\ registered_callback_user_data \in [Slots -> Nat]
    /\ registering \in [slot : Slots, by : {"user", "callback"}] \cup {Nobody}
    /\ registrations \in Nat /\ overlapped \in BOOLEAN
    /\ queue \in Seq(Items) /\ packet \in DOMAIN SlotOf \cup {0}
    /\ callback_pc \in {"get", "dispatch", "function", "user_data", "call", "running", "meta", "ended"}
    /\ Dispatching \/ callback_pc = "running" => packet \in DOMAIN SlotOf

Paired ==
    \A s \in Slots :
        IF registering.slot = s
        THEN registered_callbacks[s] \in {NULL, registrations}
        ELSE registered_callbacks[s] # NULL => registered_callback_user_data[s] = registered_callbacks[s]

HasFunctionLoaded == function = registered_callbacks[SlotOf[packet]]
HasUserDataLoaded == user_data = registered_callback_user_data[SlotOf[packet]]

LoadedInv ==
    /\ Loading /\ ~overlapped =>
         /\ registering.slot # SlotOf[packet]
         /\ IF SlotOf[packet] = "enumerate"
            THEN /\ registered_callbacks["enumerate"] # NULL
                 /\ callback_pc \in {"user_data", "call"} => HasFunctionLoaded
                 /\ callback_pc = "call" => HasUserDataLoaded
            ELSE /\ callback_pc \in {"function", "call"} => HasUserDataLoaded
                 /\ callback_pc = "call" => HasFunctionLoaded /\ function # NULL
    /\ Loading /\ SlotOf[packet] = "device" => HasWrapper

RightCallInv == CallTypeOK /\ Paired /\ LoadedInv /\ RightCall

(* A value that is passed on in the type of its signature is the one sent.  *)
LEMMA ArgumentRight ==
    ASSUME CallTypeOK, packet \in DOMAIN SlotOf, SlotOf[packet] = "device" => HasWrapper
    PROVE  Argument = Sent(packet)
  <1>1. Raw[packet] \in 0 .. Width - 1 /\ Width \in Nat /\ Width % 2 = 0
    BY CallbacksAssumption
  <1>2. CASE SlotOf[packet] # "device"
    BY <1>2, CallbacksAssumption DEF Argument, Sent, Converted
  <1>3. CASE SlotOf[packet] = "device"
    <2>1. id \in DOMAIN callback_wrappers /\ callback_wrappers \in BrickletWrappers
      BY <1>3, BrickletsAssumption DEF HasWrapper, CallTypeOK
    <2>2. \/ callback_wrappers[id] = "int16" /\ id \in SignedCallbacks
          \/ callback_wrappers[id] \in {"uint16", "uint8"} /\ id \notin SignedCallbacks
      BY <2>1 DEF BrickletWrappers, TemperatureWrappers, HumidityWrappers, AmbientLightWrappers,
                  DistanceIrWrappers, LcdWrappers, SignedCallbacks
    <2>3. Raw[packet] < Width \div 2 <=> ~(2 * Raw[packet] >= Width)
      BY <1>1
    <2> QED
      BY <1>1, <1>3, <2>2, <2>3 DEF Argument, Sent, Converted
  <1> QED
    BY <1>2, <1>3

(* Who changes what a call is made of.                                      *)
QueueStep == \/ UNCHANGED queue
             \/ queue # <<>> /\ queue' = Tail(queue)
             \/ \E item \in Items : queue' = Append(queue, item)
MetaStep ==
    /\ queue # <<>> /\ queue' = Tail(queue)
    /\ callback_pc = "get" /\ callback_pc' \in {"get", "meta"}
    /\ UNCHANGED <<callback_wrappers, id, registerVars, packet, function, user_data, calls, overlapped>>
ElsewhereStep == QueueStep /\ UNCHANGED <<callback_wrappers, id, registerVars, dispatchVars, overlapped>>

LEMMA PathSteps ==
    ASSUME [Next]_vars
    PROVE  \/ ElsewhereStep \/ MetaStep
           \/ \E s \in Slots, by \in Registrars, remove \in BOOLEAN : StoreFunction(s, by, remove)
           \/ StoreUserData
           \/ TakePacket \/ TakeExit \/ Dispatch \/ LoadFunction \/ LoadUserData
           \/ Call(ReceiverEnded) \/ Return
  <1> USE DEF ElsewhereStep, MetaStep, QueueStep, callbacksVars, deviceVars, registerVars, dispatchVars
  <1>0. /\ \A kind \in {"connected", "lost", "request", "exit"} : Item(kind, 0) \in Items
        /\ \A i \in DOMAIN SlotOf : Item("packet", i) \in Items
    BY DEF Items
  <1>1. CASE Handle
    <2>1. Arriving \in DOMAIN SlotOf
      BY <1>1, ReceivePathAssumption DEF Handle
    <2> QED
      BY <1>0, <1>1, <2>1 DEF Handle, HandleResponse
  <1>2. CASE ReportLoss \/ Splitting
    BY <1>0, <1>2 DEF ReportLoss, Splitting
  <1>3. CASE Announce \/ Disconnect \/ \E by \in {"user", "callback"} : BeginDisconnect(by)
    BY <1>0, <1>3 DEF Disconnect, Disallow, Stop, JoinReceiver, QueueRequest, QueueExit, QueueLast, JoinCallback, Announce, BeginDisconnect
  <1>4. CASE TakeLost \/ TakeMeta("connected") \/ TakeMeta("request")
    BY <1>4 DEF TakeLost, TakeMeta, Take
  <1>5. CASE CallbackThread /\ ~TakeLost /\ ~TakeMeta("connected") /\ ~TakeMeta("request")
    BY <1>5 DEF CallbackThread, CallbackReturns
  <1>6. CASE Register
    BY <1>6 DEF Register
  <1>7. CASE RegisterEnds
    BY <1>7 DEF RegisterEnds
  <1>8. CASE Destroy
    BY <1>8 DEF Destroy, DestroyDevice
  <1>9. CASE UNCHANGED vars
    BY <1>9 DEF vars
  <1> QED
    BY <1>1, <1>2, <1>3, <1>4, <1>5, <1>6, <1>7, <1>8, <1>9 DEF Next, Receiver

(* The items of the queue, and the one that is taken.                       *)
LEMMA QueueTyped ==
    ASSUME queue \in Seq(Items)
    PROVE  /\ queue # <<>> => Head(queue) \in Items /\ Tail(queue) \in Seq(Items)
           /\ \A item \in Items : Append(queue, item) \in Seq(Items)
           /\ queue # <<>> /\ Head(queue).kind = "packet" => Head(queue).packet \in DOMAIN SlotOf
  <1>1. \A item \in Items : item.kind = "packet" => item.packet \in DOMAIN SlotOf
    BY DEF Items, Item
  <1>2. queue # <<>> => Head(queue) \in Items /\ Tail(queue) \in Seq(Items)
    <2> HIDE DEF Items
    <2> QED
      BY HeadTailProperties
  <1>3. \A item \in Items : Append(queue, item) \in Seq(Items)
    BY AppendProperties
  <1> QED
    BY <1>1, <1>2, <1>3

LEMMA CallTypeKeeps == CallTypeOK /\ [Next]_vars => CallTypeOK'
  <1> SUFFICES ASSUME CallTypeOK, [Next]_vars PROVE CallTypeOK'
    OBVIOUS
  <1> USE DEF CallTypeOK, Dispatching, deviceVars, registerVars, dispatchVars
  <1>1. CASE ElsewhereStep
    <2>1. queue' \in Seq(Items)
      BY <1>1, QueueTyped DEF ElsewhereStep, QueueStep
    <2> QED
      BY <1>1, <2>1 DEF ElsewhereStep
  <1>8. CASE MetaStep
    <2>1. queue' \in Seq(Items)
      BY <1>8, QueueTyped DEF MetaStep
    <2> QED
      BY <1>8, <2>1 DEF MetaStep
  <1>2. ASSUME NEW s \in Slots, NEW by \in Registrars, NEW remove \in BOOLEAN, StoreFunction(s, by, remove)
        PROVE  CallTypeOK'
    <2>1. by \in {"user", "callback"}
      BY ReceivePathAssumption
    <2>2. registered_callbacks' \in [Slots -> Nat] /\ registrations' \in Nat
      BY <1>2 DEF StoreFunction, NULL
    <2>3. registering' \in [slot : Slots, by : {"user", "callback"}]
      BY <1>2, <2>1 DEF StoreFunction
    <2> QED
      BY <1>2, <2>2, <2>3 DEF StoreFunction, Overlaps
  <1>3. CASE StoreUserData
    BY <1>3 DEF StoreUserData, Overlaps
  <1>4. CASE TakePacket
    <2>1. queue' \in Seq(Items) /\ packet' \in DOMAIN SlotOf
      BY <1>4, QueueTyped DEF TakePacket, Take
    <2> QED
      BY <1>4, <2>1 DEF TakePacket
  <1>5. CASE TakeExit
    <2>1. queue' \in Seq(Items)
      BY <1>5, QueueTyped DEF TakeExit, Take
    <2> QED
      BY <1>5, <2>1 DEF TakeExit
  <1>6. CASE Dispatch \/ LoadFunction \/ LoadUserData
    BY <1>6 DEF Dispatch, LoadFunction, LoadUserData, FirstLoad
  <1>7. CASE Call(ReceiverEnded) \/ Return
    BY <1>7 DEF Call, Return
  <1> QED
    BY <1>1, <1>2, <1>3, <1>4, <1>5, <1>6, <1>7, <1>8, PathSteps

LEMMA PairedKeeps == CallTypeOK /\ Paired /\ [Next]_vars => Paired'
  <1> SUFFICES ASSUME CallTypeOK, Paired, [Next]_vars PROVE Paired'
    OBVIOUS
  <1>1. ASSUME NEW s \in Slots, NEW by \in Registrars, NEW remove \in BOOLEAN, StoreFunction(s, by, remove)
        PROVE  Paired'
    <2>1. registering = Nobody /\ registering' = [slot |-> s, by |-> by]
      BY <1>1 DEF StoreFunction
    <2>2. ASSUME NEW r \in Slots, r # s PROVE registered_callbacks'[r] = registered_callbacks[r]
      BY <1>1, <2>2 DEF StoreFunction, CallTypeOK
    <2>3. registered_callbacks'[s] \in {NULL, registrations'}
      BY <1>1 DEF StoreFunction, CallTypeOK
    <2>4. registered_callback_user_data' = registered_callback_user_data /\ registering.slot \notin Slots
      BY <1>1, <2>1 DEF StoreFunction, Nobody, Slots
    <2> QED
      BY <2>1, <2>2, <2>3, <2>4 DEF Paired
  <1>2. CASE StoreUserData
    <2>1. registering.slot \in Slots
      BY <1>2 DEF StoreUserData, CallTypeOK
    <2>2. UNCHANGED <<registered_callbacks, registrations>> /\ registering'.slot \notin Slots
      BY <1>2 DEF StoreUserData, Nobody, Slots
    <2>3. \A s \in Slots : registered_callback_user_data'[s] =
            IF s = registering.slot THEN registrations ELSE registered_callback_user_data[s]
      BY <1>2, <2>1 DEF StoreUserData, CallTypeOK
    <2> QED
      BY <2>1, <2>2, <2>3 DEF Paired
  <1>3. CASE UNCHANGED registerVars
    BY <1>3 DEF registerVars, Paired
  <1>4. ElsewhereStep \/ MetaStep \/ TakePacket \/ TakeExit \/ Dispatch \/ LoadFunction \/ LoadUserData
            \/ Call(ReceiverEnded) \/ Return => UNCHANGED registerVars
    BY DEF ElsewhereStep, MetaStep, TakePacket, TakeExit, Dispatch, LoadFunction, LoadUserData, Call, Return
  <1> QED
    BY <1>1, <1>2, <1>3, <1>4, PathSteps

(* The thread loads both from a slot that nobody changes meanwhile.        *)
LEMMA LoadedKeeps == CallTypeOK /\ Paired /\ LoadedInv /\ [Next]_vars => LoadedInv'
  <1> SUFFICES ASSUME CallTypeOK, Paired, LoadedInv, [Next]_vars PROVE LoadedInv'
    OBVIOUS
  <1> USE DEF LoadedInv, Loading, HasFunctionLoaded, HasUserDataLoaded, HasWrapper,
              registerVars, dispatchVars, deviceVars
  <1>1. CASE ElsewhereStep \/ MetaStep
    BY <1>1 DEF ElsewhereStep, MetaStep
  <1>2. ASSUME NEW s \in Slots, NEW by \in Registrars, NEW remove \in BOOLEAN, StoreFunction(s, by, remove)
        PROVE  LoadedInv'
    <2>1. CASE Loading' /\ ~overlapped'
      <3>1. Loading /\ ~overlapped /\ SlotOf[packet] # s
        BY <1>2, <2>1 DEF StoreFunction, Overlaps
      <3>2. SlotOf[packet] \in Slots
        BY <3>1, CallbacksAssumption DEF CallTypeOK, Dispatching, Slots
      <3>3. registered_callbacks'[SlotOf[packet]] = registered_callbacks[SlotOf[packet]]
        BY <1>2, <3>1, <3>2 DEF StoreFunction, CallTypeOK
      <3> QED
        BY <1>2, <3>1, <3>2, <3>3 DEF StoreFunction, Slots
    <2> QED
      BY <1>2, <2>1 DEF StoreFunction
  <1>3. CASE StoreUserData
    <2>1. CASE Loading' /\ ~overlapped'
      <3>1. Loading /\ ~overlapped /\ SlotOf[packet] # registering.slot
        BY <1>3, <2>1 DEF StoreUserData, Overlaps
      <3>2. SlotOf[packet] \in Slots
        BY <3>1, CallbacksAssumption DEF CallTypeOK, Dispatching, Slots
      <3>3. registered_callback_user_data'[SlotOf[packet]] = registered_callback_user_data[SlotOf[packet]]
        BY <1>3, <3>1, <3>2 DEF StoreUserData, CallTypeOK
      <3> QED
        BY <1>3, <3>1, <3>2, <3>3 DEF StoreUserData, Nobody, Slots
    <2> QED
      BY <1>3, <2>1 DEF StoreUserData
  <1>4. CASE TakePacket \/ TakeExit \/ Call(ReceiverEnded) \/ Return
    BY <1>4 DEF TakePacket, TakeExit, Call, Return
  <1>5. CASE Dispatch
    BY <1>5 DEF Dispatch, Dispatchable, FirstLoad
  <1>6. CASE LoadFunction \/ LoadUserData
    BY <1>6, CallbacksAssumption DEF LoadFunction, LoadUserData
  <1> QED
    BY <1>1, <1>2, <1>3, <1>4, <1>5, <1>6, PathSteps

(* The call itself: what was loaded is a pair that was registered.         *)
LEMMA RightKeeps == RightCallInv /\ IsSequence(calls) /\ [Next]_vars => RightCall'
  <1> SUFFICES ASSUME RightCallInv, IsSequence(calls), [Next]_vars, callback_pc' = "running"
               PROVE  /\ ~overlapped' => function' # NULL /\ user_data' = function'
                      /\ calls'[Len(calls')].value = Sent(packet)'
    BY DEF RightCall
  <1> USE DEF RightCallInv
  <1>1. CASE callback_pc = "running"
    <2>1. UNCHANGED <<function, user_data, calls, packet, overlapped, id>>
      BY <1>1, PathSteps DEF ElsewhereStep, MetaStep, dispatchVars, deviceVars, StoreFunction, StoreUserData, Overlaps, Loading,
           TakePacket, TakeExit, Take, Dispatch, LoadFunction, LoadUserData, Call, Return, CallTypeOK
    <2> QED
      BY <1>1, <2>1 DEF RightCall, Sent
  <1>2. CASE Call(ReceiverEnded)
    <2> DEFINE c == [packet |-> packet, value |-> Argument, late |-> ReceiverEnded]
    <2>1. /\ callback_pc = "call" /\ calls' = Append(calls, c)
          /\ UNCHANGED <<function, user_data, packet, overlapped, id, registerVars>>
      BY <1>2 DEF Call, deviceVars
    <2>2. packet \in DOMAIN SlotOf
      BY <2>1 DEF CallTypeOK, Dispatching
    <2>3. calls'[Len(calls')].value = Sent(packet)
      <3>1. Argument = Sent(packet)
        BY <2>1, <2>2, ArgumentRight DEF LoadedInv, Loading
      <3>2. c.value = Argument
        OBVIOUS
      <3>3. IsSequence(calls') /\ DOMAIN calls' = 1 .. Len(calls) + 1 /\ calls'[Len(calls) + 1] = c
        BY <2>1, AppendAny
      <3>4. Len(calls) \in Nat /\ Len(calls') \in Nat /\ DOMAIN calls' = 1 .. Len(calls')
        BY <3>3, AppendAny
      <3>5. Len(calls') = Len(calls) + 1
        BY <3>3, <3>4
      <3> QED
        BY <3>1, <3>2, <3>3, <3>5
    <2>4. ASSUME ~overlapped PROVE function # NULL /\ user_data = function
      <3>1. SlotOf[packet] \in Slots /\ registering.slot # SlotOf[packet]
        BY <2>1, <2>2, <2>4, CallbacksAssumption DEF LoadedInv, Loading, Slots
      <3>2. /\ function = registered_callbacks[SlotOf[packet]] /\ function # NULL
            /\ user_data = registered_callback_user_data[SlotOf[packet]]
        BY <2>1, <2>2, <2>4 DEF LoadedInv, Loading, HasFunctionLoaded, HasUserDataLoaded
      <3> QED
        BY <3>1, <3>2 DEF Paired
    <2> QED
      BY <2>1, <2>3, <2>4 DEF Sent
  <1>3. callback_pc = "running" \/ Call(ReceiverEnded)
    BY PathSteps DEF ElsewhereStep, MetaStep, dispatchVars, StoreFunction, StoreUserData,
         TakePacket, TakeExit, Dispatch, LoadFunction, LoadUserData, FirstLoad, Return
  <1> QED
    BY <1>1, <1>2, <1>3

LEMMA RightCallStarts == Init => RightCallInv
  <1> SUFFICES ASSUME Init PROVE RightCallInv
    OBVIOUS
  <1>1. queue \in Seq(Items)
    BY DEF Init, CallbacksInit
  <1>2. CallTypeOK
    BY <1>1 DEF Init, CallbacksInit, CallTypeOK, Dispatching, NULL
  <1>3. Paired
    BY DEF Init, CallbacksInit, Paired, NULL, Nobody, Slots
  <1> QED
    BY <1>2, <1>3 DEF Init, CallbacksInit, RightCallInv, LoadedInv, Loading, RightCall

(* A function is called with the user data registered with it and with the *)
(* value that was sent; it is never NULL.                                  *)
THEOREM RightCallCorrect == Spec => []RightCall
  <1>1. RightCallInv /\ LateInv /\ [Next]_vars => RightCallInv'
    BY CallTypeKeeps, PairedKeeps, LoadedKeeps, RightKeeps DEF RightCallInv, LateInv
  <1>2. RightCallInv => RightCall
    BY DEF RightCallInv
  <1> QED
    BY <1>1, <1>2, RightCallStarts, DisconnectCorrect, PTL DEF Spec

-----------------------------------------------------------------------------
(* The last items of the queue.  The DISCONNECTED item of a requested       *)
(* disconnect is queued when the receive thread has ended and ipcon_connect *)
(* has given the mutex back, so that only the exit item comes behind it.    *)
NoRequest(q) == \A n \in 1 .. Len(q) : q[n].kind # "request"
OnlyExit(q) == \A n \in 1 .. Len(q) : q[n].kind = "exit"
Closing(q) == \A m, n \in 1 .. Len(q) : q[m].kind = "request" /\ m < n => q[n].kind = "exit"
Asked == disconnecting \in {"exit", "wait", "done"}

RequestInv ==
    /\ disconnecting # "no" => ~connecting
    /\ ReceiverEnded => receiver = "done"
    /\ Asked \/ NoRequest(queue)
    /\ Closing(queue)
    /\ "request" \in told => Asked /\ ~Dispatching /\ OnlyExit(queue)

RequestPart ==
    /\ Asked' \/ NoRequest(queue)'
    /\ Closing(queue)'
    /\ "request" \in told' => Asked' /\ ~Dispatching' /\ OnlyExit(queue)'

LEMMA AppendShape ==
    ASSUME NEW q \in Seq(Items), NEW item \in Items
    PROVE  /\ NoRequest(q) /\ item.kind # "request" => NoRequest(Append(q, item))
           /\ NoRequest(q) => Closing(Append(q, item))
           /\ Closing(q) /\ item.kind = "exit" => Closing(Append(q, item))
           /\ OnlyExit(q) /\ item.kind = "exit" => OnlyExit(Append(q, item))
  <1> DEFINE a == Append(q, item)
  <1>1. /\ Len(q) \in Nat /\ Len(a) = Len(q) + 1 /\ a[Len(q) + 1] = item
        /\ \A n \in 1 .. Len(q) : a[n] = q[n]
    <2> HIDE DEF Items
    <2> QED
      BY AppendProperties
  <1> HIDE DEF a
  <1>2. \A n \in 1 .. Len(a) : n \in 1 .. Len(q) \/ n = Len(q) + 1
    BY <1>1
  <1> QED
    BY <1>1, <1>2 DEF NoRequest, Closing, OnlyExit, a

LEMMA TailShape ==
    ASSUME NEW q \in Seq(Items), q # <<>>
    PROVE  /\ NoRequest(q) => NoRequest(Tail(q)) /\ Head(q).kind # "request"
           /\ Closing(q) => Closing(Tail(q))
           /\ Closing(q) /\ Head(q).kind = "request" => OnlyExit(Tail(q))
           /\ OnlyExit(q) => OnlyExit(Tail(q)) /\ Head(q).kind = "exit"
  <1> DEFINE t == Tail(q)
  <1>1. /\ Len(q) \in Nat \ {0} /\ Len(t) = Len(q) - 1 /\ Head(q) = q[1]
        /\ \A n \in 1 .. Len(t) : t[n] = q[n + 1]
    <2> HIDE DEF Items
    <2> QED
      BY HeadTailProperties, EmptySeq
  <1> HIDE DEF t
  <1>2. 1 \in 1 .. Len(q) /\ \A n \in 1 .. Len(t) : n + 1 \in 1 .. Len(q) /\ 1 < n + 1
    BY <1>1
  <1>3. \A m, n \in 1 .. Len(t) : m < n => m + 1 < n + 1
    BY <1>1
  <1>4. NoRequest(q) => NoRequest(t) /\ Head(q).kind # "request"
    BY <1>1, <1>2 DEF NoRequest
  <1>5. Closing(q) => Closing(t)
    BY <1>1, <1>2, <1>3 DEF Closing
  <1>6. Closing(q) /\ Head(q).kind = "request" => OnlyExit(t)
    BY <1>1, <1>2 DEF Closing, OnlyExit
  <1>7. OnlyExit(q) => OnlyExit(t) /\ Head(q).kind = "exit"
    BY <1>1, <1>2 DEF OnlyExit
  <1> QED
    BY <1>4, <1>5, <1>6, <1>7 DEF t

(* Who queues what, and who takes it.                                      *)
QueueShape ==
    \/ UNCHANGED <<queue, told>>
    \/ /\ told' = told /\ \E i \in Items : queue' = Append(queue, i) /\ i.kind # "request"
       /\ ~ReceiverEnded \/ receiver # "done" \/ connecting
    \/ /\ told' = told /\ \E i \in Items : queue' = Append(queue, i) /\ i.kind = "request"
       /\ disconnecting = "request" /\ disconnecting' = "exit"
    \/ /\ told' = told /\ \E i \in Items : queue' = Append(queue, i) /\ i.kind = "exit"
       /\ disconnecting = "exit" /\ Asked'
    \/ /\ queue # <<>> /\ queue' = Tail(queue) /\ disconnecting' = disconnecting
       /\ \/ told' = told
          \/ Head(queue).kind \in {"connected", "lost", "request"} /\ callback_pc' = "meta"
             /\ told' = told \cup {Head(queue).kind}

LEMMA QueueShapes ==
    ASSUME [Next]_vars, CallTypeOK, RequestInv
    PROVE  /\ QueueShape
           /\ disconnecting' # "no" => disconnecting # "no" \/ ~connecting
           /\ connecting' => connecting
           /\ receiver = "done" => receiver' = "done"
           /\ ReceiverEnded' => ReceiverEnded \/ receiver = "done"
           /\ Asked => Asked'
           /\ Dispatching' => Dispatching \/ (queue # <<>> /\ Head(queue).kind = "packet")
  <1> USE DEF QueueShape, callbacksVars, deviceVars, registerVars, dispatchVars, disconnectVars,
              framingVars, ReceiverEnded, Asked, Dispatching
  <1>0. /\ \A kind \in {"connected", "lost", "request", "exit"} : Item(kind, 0) \in Items
        /\ \A i \in DOMAIN SlotOf : Item("packet", i) \in Items
        /\ \A kind \in STRING, i \in Int : Item(kind, i).kind = kind
    BY DEF Items, Item
  <1>1. CASE Handle
    <2>1. Arriving \in DOMAIN SlotOf /\ Item("packet", Arriving).kind = "packet"
      BY <1>1, ReceivePathAssumption DEF Handle, Item
    <2>2. receiver = "handle" /\ receiver' = "split"
      BY <1>1 DEF Handle, HandlePacket
    <2> QED
      BY <1>0, <1>1, <2>1, <2>2 DEF Handle, HandleResponse
  <1>2. CASE ReportLoss
    BY <1>0, <1>2 DEF ReportLoss, HandleEnd, Item
  <1>3. CASE Splitting
    BY <1>3 DEF Splitting, Receive, ReceiveEnds, ReceiverLeaves, TestFlag, WaitForMore
  <1>4. CASE Announce
    BY <1>0, <1>4 DEF Announce, Item
  <1>5. CASE Disconnect
    BY <1>0, <1>5 DEF Disconnect, Disallow, Stop, StopReceiving, JoinReceiver, QueueRequest, QueueExit, QueueLast,
                      JoinCallback, Item
  <1>6. CASE \E by \in {"user", "callback"} : BeginDisconnect(by)
    BY <1>6 DEF BeginDisconnect
  <1>7. CASE TakeLost
    BY <1>7 DEF TakeLost, TakeMeta, Take
  <1>8. CASE (TakeMeta("connected") \/ TakeMeta("request")) /\ UNCHANGED <<framingVars, disconnectVars>>
    BY <1>8 DEF TakeMeta, Take
  <1>9. CASE (TakePacket \/ TakeExit) /\ UNCHANGED <<framingVars, disconnectVars>>
    BY <1>9 DEF TakePacket, TakeExit, Take
  <1>10. CASE /\ Dispatch \/ LoadFunction \/ LoadUserData \/ Call(ReceiverEnded) \/ CallbackReturns
              /\ UNCHANGED <<framingVars, disconnectVars>>
    BY <1>10 DEF Dispatch, LoadFunction, LoadUserData, Call, CallbackReturns, Return
  <1>11. CASE Register \/ RegisterEnds \/ Destroy
    BY <1>11 DEF Register, StoreFunction, RegisterEnds, StoreUserData, Destroy, DestroyDevice
  <1>12. CASE UNCHANGED vars
    BY <1>12 DEF vars
  <1> QED
    BY <1>1, <1>2, <1>3, <1>4, <1>5, <1>6, <1>7, <1>8, <1>9, <1>10, <1>11, <1>12
    DEF Next, Receiver, CallbackThread

LEMMA RequestKeeps == CallTypeOK /\ RequestInv /\ [Next]_vars => RequestInv'
  <1> SUFFICES ASSUME CallTypeOK, RequestInv, [Next]_vars PROVE RequestInv'
    OBVIOUS
  <1>1. queue \in Seq(Items)
    BY DEF CallTypeOK
  <1>2. disconnecting' # "no" => ~connecting'
    BY QueueShapes DEF RequestInv
  <1>3. ReceiverEnded' => receiver' = "done"
    BY QueueShapes DEF RequestInv
  <1>4. Asked => ReceiverEnded /\ disconnecting # "no" /\ ~connecting /\ receiver = "done"
    BY DEF Asked, ReceiverEnded, RequestInv
  <1>5. RequestPart
    <2> USE DEF RequestPart
    <2>1. CASE UNCHANGED <<queue, told>>
      <3>1. "request" \in told => ~Dispatching'
        <4>1. OnlyExit(queue) /\ queue # <<>> => Head(queue).kind = "exit"
          BY <1>1, TailShape
        <4> QED
          BY <4>1, QueueShapes DEF RequestInv
      <3> QED
        BY <2>1, <3>1, QueueShapes DEF RequestInv, NoRequest, Closing, OnlyExit
    <2>2. ASSUME NEW i \in Items, told' = told, queue' = Append(queue, i), i.kind # "request",
                 ~ReceiverEnded \/ receiver # "done" \/ connecting
          PROVE  RequestPart
      <3>1. ~Asked
        BY <1>4, <2>2
      <3>2. NoRequest(queue) /\ "request" \notin told
        BY <3>1 DEF RequestInv
      <3> QED
        BY <1>1, <2>2, <3>2, AppendShape
    <2>3. ASSUME NEW i \in Items, told' = told, queue' = Append(queue, i), i.kind = "request",
                 disconnecting = "request", disconnecting' = "exit"
          PROVE  RequestPart
      <3>1. ~Asked /\ Asked'
        BY <2>3 DEF Asked
      <3>2. NoRequest(queue) /\ "request" \notin told
        BY <3>1 DEF RequestInv
      <3> QED
        BY <1>1, <2>3, <3>1, <3>2, AppendShape
    <2>4. ASSUME NEW i \in Items, told' = told, queue' = Append(queue, i), i.kind = "exit",
                 disconnecting = "exit", Asked'
          PROVE  RequestPart
      <3>1. "request" \in told => ~Dispatching'
        <4>1. OnlyExit(queue) /\ queue # <<>> => Head(queue).kind = "exit"
          BY <1>1, TailShape
        <4> QED
          BY <4>1, QueueShapes DEF RequestInv
      <3> QED
        BY <1>1, <2>4, <3>1, AppendShape DEF RequestInv
    <2>5. CASE /\ queue # <<>> /\ queue' = Tail(queue) /\ disconnecting' = disconnecting
               /\ \/ told' = told
                  \/ Head(queue).kind \in {"connected", "lost", "request"} /\ callback_pc' = "meta"
                     /\ told' = told \cup {Head(queue).kind}
      <3>1. Asked' <=> Asked
        BY <2>5 DEF Asked
      <3>2. "request" \in told => ~Dispatching' /\ OnlyExit(queue)'
        <4>1. OnlyExit(queue) => Head(queue).kind = "exit" /\ OnlyExit(queue')
          BY <1>1, <2>5, TailShape
        <4> QED
          BY <4>1, QueueShapes DEF RequestInv, OnlyExit
      <3>3. ASSUME "request" \notin told, "request" \in told' PROVE Asked /\ ~Dispatching' /\ OnlyExit(queue)'
        <4>1. Head(queue).kind = "request" /\ callback_pc' = "meta"
          BY <2>5, <3>3
        <4>2. Asked /\ OnlyExit(queue')
          BY <1>1, <2>5, <4>1, TailShape DEF RequestInv
        <4> QED
          BY <4>1, <4>2 DEF Dispatching, OnlyExit
      <3>4. Closing(queue') /\ (NoRequest(queue) => NoRequest(queue'))
        BY <1>1, <2>5, TailShape DEF RequestInv
      <3>5. "request" \in told => Asked
        BY DEF RequestInv
      <3>6. Asked \/ NoRequest(queue)
        BY DEF RequestInv
      <3> QED
        BY <3>1, <3>2, <3>3, <3>4, <3>5, <3>6 DEF Closing, NoRequest
    <2> QED
      BY <2>1, <2>2, <2>3, <2>4, <2>5, QueueShapes DEF QueueShape
  <1> QED
    BY <1>2, <1>3, <1>5 DEF RequestInv, RequestPart

(* When ipcon_disconnect has returned nothing is called any more, but for   *)
(* the connected and disconnected callbacks when a callback has called it;  *)
(* and nothing comes after the disconnected callback for the request.       *)
THEOREM QuietAfterDisconnectCorrect == Spec => QuietAfterDisconnect
  <1> DEFINE Quiet == [/\ disconnecting = "done" => calls' = calls /\ (caller = "user" => told' = told)
                       /\ "request" \in told => calls' = calls /\ told' = told]_vars
  <1>1. DisconnectInv /\ CallTypeOK /\ RequestInv /\ [Next]_vars => Quiet
    <2> SUFFICES ASSUME DisconnectInv, CallTypeOK, RequestInv, [Next]_vars PROVE Quiet
      OBVIOUS
    <2>1. calls' # calls => callback_pc = "call"
      BY DispatchStep
    <2>2. told' # told => /\ queue # <<>> /\ Head(queue).kind \in {"connected", "lost", "request"}
                          /\ callback_pc' = "meta"
      BY QueueShapes DEF QueueShape
    <2>3. OnlyExit(queue) /\ queue # <<>> => Head(queue).kind = "exit"
      BY TailShape DEF CallTypeOK
    <2>4. callback_pc = "ended" => callback_pc' = "ended"
      BY DispatchStep
    <2> QED
      BY <2>1, <2>2, <2>3, <2>4 DEF DisconnectInv, RequestInv, Dispatching
  <1>2. Init => CallTypeOK /\ RequestInv
    <2> SUFFICES ASSUME Init PROVE CallTypeOK /\ RequestInv
      OBVIOUS
    <2>1. CallTypeOK
      BY RightCallStarts DEF RightCallInv
    <2>2. Len(queue) = 0 /\ told = {} /\ disconnecting = "no"
      BY DEF Init, CallbacksInit
    <2> QED
      BY <2>1, <2>2 DEF RequestInv, ReceiverEnded, Asked, NoRequest, Closing, OnlyExit
  <1>3. Spec => [](CallTypeOK /\ RequestInv)
    BY <1>2, CallTypeKeeps, RequestKeeps, PTL DEF Spec
  <1> QED
    BY <1>1, <1>3, DisconnectCorrect, PTL DEF Spec, QuietAfterDisconnect

=============================================================================
