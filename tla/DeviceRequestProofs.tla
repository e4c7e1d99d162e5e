------------------------- MODULE DeviceRequestProofs -------------------------
(***************************************************************************)
(* Theorems about requests and answers, for every number of callers,       *)
(* functions, sequence numbers and requests.                               *)
(***************************************************************************)
EXTENDS DeviceRequest, SequenceTheorems, TLAPS

(* A packet carries the sequence number that belongs to its ticket.        *)
Numbered(x) ==
    \/ x.ticket = 0
    \/ /\ x.sequence \in 1 .. SequenceNumbers
       /\ \E k \in Nat : x.ticket = k * SequenceNumbers + x.sequence

NumberInv ==
    /\ \E k \in Nat : created = k * SequenceNumbers + next_sequence_number
    /\ \A c \in Callers : Numbered(request[c])
    /\ \A c \in Callers : pc[c] # "idle" => request[c].ticket # 0 /\ answered[c] = 0
    /\ \A i \in 1 .. Len(answers) : Numbered(answers[i])
    /\ Numbered(incoming) /\ Numbered(response_packet)

(* The values a field can have.                                            *)
LEMMA FieldType ==
    ASSUME TypeOK, NEW c \in Callers, NEW f \in Fields
    PROVE  request[c][f] \in Functions \cup 0 .. SequenceNumbers
  <1>1. request[c] \in Requests \cup {NoRequest}
    BY DEF TypeOK
  <1>2. request[c].function \in Functions \cup {Zero} /\ request[c].sequence \in 0 .. SequenceNumbers
    BY <1>1, RequestAssumption DEF Requests, NoRequest, Zero
  <1>3. Zero \in 0 .. SequenceNumbers
    BY RequestAssumption DEF Zero
  <1> QED
    BY <1>2, <1>3 DEF Fields

(* Multiples of n are n apart.                                             *)
LEMMA Apart ==
    ASSUME NEW n \in Nat \ {0}, NEW s \in Nat, NEW j \in Nat, NEW k \in Nat
    PROVE  \/ j * n + s = k * n + s
           \/ j * n + s + n <= k * n + s
           \/ k * n + s + n <= j * n + s
  <1>1. j * n \in Nat /\ k * n \in Nat
    OBVIOUS
  <1>2. ASSUME NEW a \in Nat, NEW b \in Nat, a < b PROVE a * n + n <= b * n
    <2>1. PICK d \in Nat : b = a + 1 + d
      <3>1. b - a - 1 \in Nat /\ b = a + 1 + (b - a - 1)
        BY <1>2
      <3> QED
        BY <3>1
    <2>2. b * n = a * n + n + d * n
      BY <2>1
    <2>3. d * n \in Nat /\ a * n \in Nat
      OBVIOUS
    <2> QED
      BY <2>2, <2>3
  <1>3. CASE j = k
    BY <1>1, <1>3
  <1>4. CASE j < k
    BY <1>1, <1>2, <1>4
  <1>5. CASE k < j
    BY <1>1, <1>2, <1>5
  <1> QED
    BY <1>3, <1>4, <1>5

(* Counting up to n and starting again.                                    *)
LEMMA NextNumber ==
    ASSUME NEW n \in Nat \ {0}, NEW s \in 0 .. n - 1
    PROVE  (s + 1) % n = IF s + 1 = n THEN 0 ELSE s + 1
  OBVIOUS
-----------------------------------------------------------------------------
(* What the assumption says of the types.                                  *)
LEMMA Constants ==
    /\ SequenceNumbers \in Nat \ {0} /\ MaxRequests \in Nat
    /\ Zero \in 0 .. SequenceNumbers /\ 0 \in Tickets
    /\ Codes \subseteq 0 .. 3 /\ Nobody \notin Callers
  BY RequestAssumption DEF Zero, Tickets

(* The initial state.                                                      *)
LEMMA InitOK == Init => TypeOK /\ NumberInv
  <1> SUFFICES ASSUME Init PROVE TypeOK /\ NumberInv
    OBVIOUS
  <1>1. TypeOK
    <2>1. next_sequence_number \in 0 .. SequenceNumbers - 1 /\ created \in Tickets
      BY Constants DEF Init
    <2>2. expected \in [Fields -> Functions \cup 0 .. SequenceNumbers]
      BY Constants DEF Init
    <2>3. request \in [Callers -> Requests \cup {NoRequest}] /\ ret \in [Callers -> Results] /\ answered \in [Callers -> Tickets]
      BY Constants DEF Init, Results
    <2>4. /\ pc \in [Callers -> {"idle", "begin", "expect", "wait", "clear", "read"}]
          /\ \A c \in Callers : pc[c] = "idle"
      BY DEF Init
    <2>5. answers \in Seq(Answers) /\ response_packet = NoAnswer /\ incoming = NoAnswer
      BY EmptySeq DEF Init
    <2>6. /\ request_mutex \in Callers \cup {Nobody} /\ unstored \in SUBSET Fields /\ unread \in SUBSET Fields
          /\ response_event \in BOOLEAN /\ expired \in BOOLEAN /\ lost \in BOOLEAN
          /\ rpc = "idle"
      BY DEF Init
    <2> QED
      BY <2>1, <2>2, <2>3, <2>4, <2>5, <2>6 DEF TypeOK
  <1>2. NumberInv
    <2>1. created = 0 * SequenceNumbers + next_sequence_number
      BY Constants DEF Init
    <2>2. Numbered(NoRequest) /\ Numbered(NoAnswer)
      BY DEF Numbered, NoRequest, NoAnswer
    <2>3. Len(answers) = 0
      BY DEF Init
    <2> QED
      BY <2>1, <2>2, <2>3 DEF Init, NumberInv
  <1> QED
    BY <1>1, <1>2

(* Every step keeps the types.                                             *)
LEMMA TypeStep == TypeOK /\ [Next]_vars => TypeOK'
  <1> SUFFICES ASSUME TypeOK, [Next]_vars PROVE TypeOK'
    OBVIOUS
  <1> USE DEF Goto, Return, device, caller, receiver, history
  <1>1. ASSUME NEW c \in Callers, Begin(c) PROVE TypeOK'
    <2>1. PICK f \in Functions, e \in BOOLEAN : CreateHeader(c, f, e)
      BY <1>1 DEF Begin
    <2>2. created + 1 \in Tickets /\ created + 1 # 0 /\ next_sequence_number + 1 \in 1 .. SequenceNumbers
      BY <2>1, Constants DEF CreateHeader, HeaderSequence, TypeOK, Tickets
    <2>3. NextSequence \in 0 .. SequenceNumbers - 1
      BY Constants DEF NextSequence, TypeOK
    <2>4. [function |-> f, sequence |-> next_sequence_number + 1, ticket |-> created + 1, expected |-> e] \in Requests
      BY <2>2 DEF Requests
    <2>5. ret' \in [Callers -> Results] /\ answered' \in [Callers -> Tickets]
      BY <2>1, Constants DEF CreateHeader, HeaderSequence, TypeOK, Results
    <2> QED
      BY <2>1, <2>2, <2>3, <2>4, <2>5 DEF CreateHeader, HeaderSequence, TypeOK
  <1>2. ASSUME NEW c \in Callers, Lock(c) PROVE TypeOK'
    BY <1>2 DEF Lock, TypeOK
  <1>3. ASSUME NEW c \in Callers, SendOnly(c) PROVE TypeOK'
    <2>1. ret' \in [Callers -> Results] /\ answered' \in [Callers -> Tickets]
      BY <1>3, Constants DEF SendOnly, TypeOK, Results
    <2> QED
      BY <1>3, <2>1 DEF SendOnly, TypeOK
  <1>4. ASSUME NEW c \in Callers, NEW f \in Fields, Store(c, f) PROVE TypeOK'
    <2>1. expected' \in [Fields -> Functions \cup 0 .. SequenceNumbers]
      BY <1>4, FieldType, Constants DEF Store, TypeOK
    <2> QED
      BY <1>4, <2>1 DEF Store, TypeOK
  <1>5. ASSUME NEW c \in Callers, Send(c) PROVE TypeOK'
    <2>1. PICK code \in Codes : answers' = Append(answers, Answer(c, code))
      BY <1>5 DEF Send
    <2>2. request[c] \in Requests /\ code \in 0 .. 3
      BY <1>5, Constants DEF Send, TypeOK
    <2>3. Answer(c, code) \in Answers
      BY <2>2 DEF Answer, Answers, Requests
    <2>4. answers' \in Seq(Answers)
      BY <2>1, <2>3 DEF TypeOK
    <2> QED
      BY <1>5, <2>4 DEF Send, TypeOK
  <1>6. ASSUME NEW c \in Callers, SendFails(c) PROVE TypeOK'
    <2>1. ret' \in [Callers -> Results] /\ answered' \in [Callers -> Tickets]
      BY <1>6, Constants DEF SendFails, TypeOK, Results
    <2> QED
      BY <1>6, <2>1 DEF SendFails, TypeOK
  <1>7. ASSUME NEW c \in Callers, Woken(c) PROVE TypeOK'
    BY <1>7 DEF Woken, TypeOK
  <1>8. ASSUME NEW c \in Callers, Expire(c) PROVE TypeOK'
    BY <1>8 DEF Expire, TypeOK, Results
  <1>9. ASSUME NEW c \in Callers, Cleared(c) PROVE TypeOK'
    BY <1>9 DEF Cleared, TypeOK
  <1>10. ASSUME NEW c \in Callers, Read(c) PROVE TypeOK'
    <2>1. response_packet.code \in 0 .. 3 /\ response_packet.ticket \in Tickets
      BY Constants DEF TypeOK, Answers, NoAnswer
    <2>2. ErrorOf(response_packet.code) \in Results
      BY DEF ErrorOf, Results
    <2>3. ret' \in [Callers -> Results] /\ answered' \in [Callers -> Tickets]
      BY <1>10, <2>1, <2>2 DEF Read, TypeOK, Results
    <2> QED
      BY <1>10, <2>3 DEF Read, TypeOK
  <1>11. CASE Receive
    <2>1. Head(answers) \in Answers /\ Tail(answers) \in Seq(Answers)
      BY <1>11, HeadTailProperties DEF Receive, TypeOK
    <2> QED
      BY <1>11, <2>1 DEF Receive, TypeOK
  <1>12. ASSUME NEW f \in Fields, Compare(f) PROVE TypeOK'
    BY <1>12, Constants DEF Compare, TypeOK
  <1>13. CASE Copy
    BY <1>13, Constants DEF Copy, TypeOK
  <1>14. CASE Signal
    BY <1>14 DEF Signal, TypeOK
  <1>15. CASE Lose
    <2>1. Tail(answers) \in Seq(Answers)
      BY <1>15, HeadTailProperties DEF Lose, TypeOK
    <2> QED
      BY <1>15, <2>1 DEF Lose, TypeOK
  <1>16. CASE UNCHANGED vars
    BY <1>16 DEF vars, TypeOK
  <1> QED
    BY <1>1, <1>2, <1>3, <1>4, <1>5, <1>6, <1>7, <1>8, <1>9, <1>10, <1>11, <1>12, <1>13, <1>14, <1>15, <1>16
       DEF Next, Step, Receiver

(* Every variable keeps its type: the packets under way have sequence      *)
(* numbers from 1 to SequenceNumbers, never the 0 that marks a callback    *)
(* (ip_connection.c, packet_header_create and ipcon_handle_response).      *)
THEOREM TypeCorrect == Spec => []TypeOK
  BY InitOK, TypeStep, PTL DEF Spec
-----------------------------------------------------------------------------
(* A new header is numbered by its ticket.                                 *)
LEMMA HeaderNumbered ==
    ASSUME TypeOK, NumberInv, NEW c \in Callers, Begin(c)
    PROVE  /\ \E k \in Nat : created' = k * SequenceNumbers + next_sequence_number'
           /\ Numbered(request'[c]) /\ request'[c].ticket # 0 /\ answered'[c] = 0
           /\ \A d \in Callers \ {c} : request'[d] = request[d] /\ pc'[d] = pc[d] /\ answered'[d] = answered[d]
  <1>1. PICK f \in Functions, e \in BOOLEAN : CreateHeader(c, f, e)
    BY DEF Begin
  <1>2. PICK k \in Nat : created = k * SequenceNumbers + next_sequence_number
    BY DEF NumberInv
  <1>3. next_sequence_number \in 0 .. SequenceNumbers - 1 /\ created \in Nat
    BY DEF TypeOK, Tickets
  <1>4. request'[c].ticket = created + 1 /\ request'[c].sequence = next_sequence_number + 1
    BY <1>1 DEF CreateHeader, HeaderSequence, TypeOK
  <1>5. created' = created + 1 /\ next_sequence_number' = (next_sequence_number + 1) % SequenceNumbers
    BY <1>1 DEF CreateHeader, HeaderSequence, NextSequence
  <1>6. k * SequenceNumbers \in Nat
    BY Constants
  <1>7. \E j \in Nat : created' = j * SequenceNumbers + next_sequence_number'
    <2>1. \E j \in Nat : k * SequenceNumbers + next_sequence_number + 1 = j * SequenceNumbers + next_sequence_number'
      <3>1. next_sequence_number' = IF next_sequence_number + 1 = SequenceNumbers THEN 0 ELSE next_sequence_number + 1
        BY <1>3, <1>5, Constants, NextNumber
      <3>2. (k + 1) * SequenceNumbers = k * SequenceNumbers + SequenceNumbers /\ k + 1 \in Nat
        BY Constants
      <3>3. CASE next_sequence_number + 1 = SequenceNumbers
        <4>1. k * SequenceNumbers + next_sequence_number + 1 = (k + 1) * SequenceNumbers + next_sequence_number'
          BY <1>3, <1>6, <3>1, <3>2, <3>3, Constants
        <4> QED
          BY <3>2, <4>1
      <3>4. CASE next_sequence_number + 1 # SequenceNumbers
        <4>1. k * SequenceNumbers + next_sequence_number + 1 = k * SequenceNumbers + next_sequence_number'
          BY <1>3, <1>6, <3>1, <3>4
        <4> QED
          BY <4>1
      <3> QED
        BY <3>3, <3>4
    <2>2. created' = k * SequenceNumbers + next_sequence_number + 1
      BY <1>2, <1>5
    <2> QED
      BY <2>1, <2>2
  <1>8. Numbered(request'[c])
    <2>1. created + 1 = k * SequenceNumbers + (next_sequence_number + 1)
      BY <1>2, <1>3, <1>6
    <2>2. next_sequence_number + 1 \in 1 .. SequenceNumbers
      BY <1>3, Constants
    <2> QED
      BY <1>4, <2>1, <2>2 DEF Numbered
  <1>9. request'[c].ticket # 0
    BY <1>3, <1>4
  <1>10. answered'[c] = 0
    BY <1>1 DEF CreateHeader, HeaderSequence, TypeOK
  <1>11. \A d \in Callers \ {c} : request'[d] = request[d] /\ pc'[d] = pc[d] /\ answered'[d] = answered[d]
    BY <1>1 DEF CreateHeader, HeaderSequence, Goto, TypeOK
  <1> QED
    BY <1>7, <1>8, <1>9, <1>10, <1>11

(* An answer is numbered as its request is.                                *)
LEMMA AnswerNumbered ==
    ASSUME NumberInv, NEW c \in Callers, NEW code
    PROVE  Numbered(Answer(c, code))
  BY DEF NumberInv, Numbered, Answer

(* What every step between callers does to the tickets and results.        *)
LEMMA CallerKeeps ==
    ASSUME TypeOK, NumberInv, NEW c \in Callers, Lock(c) \/ Step(c) \/ Expire(c)
    PROVE  /\ UNCHANGED <<created, next_sequence_number, request, incoming, response_packet>>
           /\ \A d \in Callers : pc'[d] # "idle" => pc[d] # "idle" /\ answered'[d] = answered[d]
  <1> USE DEF Goto, Return, caller, receiver, device
  <1>1. CASE Lock(c)
    BY <1>1 DEF Lock, TypeOK
  <1>2. CASE SendOnly(c)
    BY <1>2 DEF SendOnly, TypeOK
  <1>3. ASSUME NEW f \in Fields, Store(c, f)
        PROVE  UNCHANGED <<created, next_sequence_number, request, incoming, response_packet, pc, answered>>
    BY <1>3 DEF Store
  <1>4. CASE Send(c)
    BY <1>4 DEF Send, TypeOK
  <1>5. CASE SendFails(c)
    BY <1>5 DEF SendFails, TypeOK
  <1>6. CASE Woken(c)
    BY <1>6 DEF Woken, TypeOK
  <1>7. CASE Cleared(c)
    BY <1>7 DEF Cleared, TypeOK
  <1>8. CASE Read(c)
    BY <1>8 DEF Read, TypeOK
  <1>9. CASE Expire(c)
    BY <1>9 DEF Expire, TypeOK
  <1> QED
    BY <1>1, <1>2, <1>3, <1>4, <1>5, <1>6, <1>7, <1>8, <1>9 DEF Step

(* Answers are numbered on their way.                                      *)
LEMMA AnswersNumbered ==
    ASSUME TypeOK, NumberInv, [Next]_vars
    PROVE  \A i \in 1 .. Len(answers') : Numbered(answers'[i])
  <1> USE DEF device, caller, receiver, history
  <1>1. ASSUME NEW c \in Callers, Send(c) PROVE \A i \in 1 .. Len(answers') : Numbered(answers'[i])
    <2>1. PICK code \in Codes : answers' = Append(answers, Answer(c, code))
      BY <1>1 DEF Send
    <2>2. /\ Len(answers) \in Nat /\ Len(answers') = Len(answers) + 1
          /\ \A i \in 1 .. Len(answers) : answers'[i] = answers[i]
          /\ answers'[Len(answers) + 1] = Answer(c, code)
      BY <2>1 DEF TypeOK
    <2>3. ASSUME NEW i \in 1 .. Len(answers') PROVE Numbered(answers'[i])
      <3>1. CASE i = Len(answers) + 1
        BY <2>2, <3>1, AnswerNumbered
      <3>2. CASE i # Len(answers) + 1
        <4>1. i \in 1 .. Len(answers)
          BY <2>2, <3>2
        <4> QED
          BY <2>2, <4>1 DEF NumberInv
      <3> QED
        BY <3>1, <3>2
    <2> QED
      BY <2>3
  <1>2. CASE answers # <<>> /\ answers' = Tail(answers)
    <2>1. /\ Len(answers') = Len(answers) - 1 /\ Len(answers) \in Nat
          /\ \A i \in 1 .. Len(answers') : answers'[i] = answers[i + 1]
      BY <1>2, HeadTailProperties DEF TypeOK
    <2>2. \A i \in 1 .. Len(answers') : i + 1 \in 1 .. Len(answers)
      BY <2>1
    <2> QED
      BY <2>1, <2>2 DEF NumberInv
  <1>3. CASE UNCHANGED answers
    BY <1>3 DEF NumberInv
  <1>4. ASSUME NEW c \in Callers, Step(c), ~Send(c) PROVE UNCHANGED answers
    BY <1>4 DEF Step, SendOnly, Store, SendFails, Woken, Cleared, Read
  <1>5. ASSUME NEW c \in Callers, Begin(c) \/ Lock(c) \/ Expire(c) PROVE UNCHANGED answers
    BY <1>5 DEF Begin, CreateHeader, Lock, Expire
  <1>6. ASSUME Receiver, ~Receive PROVE UNCHANGED answers
    BY <1>6 DEF Receiver, Compare, Copy, Signal
  <1>7. Receive \/ Lose => answers # <<>> /\ answers' = Tail(answers)
    BY DEF Receive, Lose
  <1>8. UNCHANGED vars => UNCHANGED answers
    BY DEF vars
  <1> QED
    BY <1>1, <1>2, <1>3, <1>4, <1>5, <1>6, <1>7, <1>8 DEF Next

(* Every step keeps the numbers.                                           *)
LEMMA NumberStep == TypeOK /\ NumberInv /\ [Next]_vars => NumberInv'
  <1> SUFFICES ASSUME TypeOK, NumberInv, [Next]_vars PROVE NumberInv'
    OBVIOUS
  <1> USE DEF device, caller, receiver, history
  <1> DEFINE Rest == UNCHANGED <<created, next_sequence_number, request, pc, answered>>
  <1> DEFINE Packets == Numbered(incoming)' /\ Numbered(response_packet)'
  <1>0. \A i \in 1 .. Len(answers') : Numbered(answers'[i])
    BY AnswersNumbered
  <1>1. ASSUME NEW c \in Callers, Begin(c) PROVE NumberInv'
    <2>1. UNCHANGED <<incoming, response_packet>>
      BY <1>1 DEF Begin, CreateHeader
    <2>2. \A d \in Callers : Numbered(request'[d]) /\ (pc'[d] # "idle" => request'[d].ticket # 0 /\ answered'[d] = 0)
      BY <1>1, HeaderNumbered DEF NumberInv
    <2> QED
      BY <1>0, <1>1, <2>1, <2>2, HeaderNumbered DEF NumberInv, Numbered
  <1>2. ASSUME NEW c \in Callers, Lock(c) \/ Step(c) \/ Expire(c) PROVE NumberInv'
    BY <1>0, <1>2, CallerKeeps DEF NumberInv, Numbered
  <1>3. ASSUME Rest, Packets PROVE NumberInv'
    BY <1>0, <1>3 DEF NumberInv, Numbered
  <1>4. Numbered(NoAnswer)
    BY DEF Numbered, NoAnswer
  <1>5. CASE Receive
    <2>1. Head(answers) = answers[1] /\ 1 \in 1 .. Len(answers)
      BY <1>5, EmptySeq DEF Receive, TypeOK
    <2>2. Numbered(Head(answers))
      BY <2>1 DEF NumberInv
    <2>3. Rest /\ Packets
      BY <1>5, <2>2 DEF Receive, NumberInv, Numbered
    <2> QED
      BY <1>3, <2>3
  <1>6. ASSUME NEW f \in Fields, Compare(f) PROVE NumberInv'
    <2>1. Rest /\ Packets
      BY <1>4, <1>6 DEF Compare, NumberInv, Numbered
    <2> QED
      BY <1>3, <2>1
  <1>7. CASE Copy \/ Signal \/ Lose
    <2>1. Rest /\ Packets
      BY <1>4, <1>7 DEF Copy, Signal, Lose, NumberInv, Numbered
    <2> QED
      BY <1>3, <2>1
  <1>8. CASE UNCHANGED vars
    BY <1>3, <1>8 DEF vars, NumberInv, Numbered
  <1> QED
    BY <1>1, <1>2, <1>5, <1>6, <1>7, <1>8 DEF Next, Receiver

(* Equal sequence numbers belong to one ticket, or to distant ones.        *)
LEMMA SameNumber ==
    ASSUME NEW x, NEW y, Numbered(x), Numbered(y), x.ticket # 0, y.ticket # 0, x.sequence = y.sequence
    PROVE  \/ x.ticket = y.ticket
           \/ x.ticket + SequenceNumbers <= y.ticket
           \/ y.ticket + SequenceNumbers <= x.ticket
  <1>1. PICK j \in Nat : x.ticket = j * SequenceNumbers + x.sequence
    BY DEF Numbered
  <1>2. PICK k \in Nat : y.ticket = k * SequenceNumbers + x.sequence
    BY DEF Numbered
  <1>3. x.sequence \in Nat
    BY Constants DEF Numbered
  <1>4. \/ j * SequenceNumbers + x.sequence = k * SequenceNumbers + x.sequence
        \/ j * SequenceNumbers + x.sequence + SequenceNumbers <= k * SequenceNumbers + x.sequence
        \/ k * SequenceNumbers + x.sequence + SequenceNumbers <= j * SequenceNumbers + x.sequence
    BY <1>3, Constants, Apart
  <1> QED
    BY <1>1, <1>2, <1>4

(* A call takes its own answer, or one SequenceNumbers requests away.      *)
LEMMA OwnAnswerStep == TypeOK /\ NumberInv /\ OwnAnswer /\ [Next]_vars => OwnAnswer'
  <1> SUFFICES ASSUME TypeOK, NumberInv, OwnAnswer, [Next]_vars,
                      NEW d \in Callers, pc'[d] = "idle", answered'[d] # 0, ret'[d] # "E_TIMEOUT"
               PROVE  \/ answered'[d] = request'[d].ticket
                      \/ answered'[d] + SequenceNumbers <= request'[d].ticket
                      \/ request'[d].ticket + SequenceNumbers <= answered'[d]
    BY DEF OwnAnswer
  <1> USE DEF device, caller, receiver, history, Goto, Return
  <1> DEFINE Same == pc'[d] = pc[d] /\ request'[d] = request[d] /\ ret'[d] = ret[d] /\ answered'[d] = answered[d]
  <1>1. CASE Same
    BY <1>1 DEF OwnAnswer
  <1>2. ASSUME NEW c \in Callers, Begin(c) PROVE Same
    <2>1. PICK f \in Functions, e \in BOOLEAN : CreateHeader(c, f, e)
      BY <1>2 DEF Begin
    <2> QED
      BY <2>1 DEF CreateHeader, HeaderSequence, TypeOK
  <1>3. ASSUME NEW c \in Callers, Read(c) PROVE \/ Same \/ d = c
    BY <1>3 DEF Read, TypeOK
  <1>4. ASSUME Read(d)
        PROVE  \/ answered'[d] = request'[d].ticket
               \/ answered'[d] + SequenceNumbers <= request'[d].ticket
               \/ request'[d].ticket + SequenceNumbers <= answered'[d]
    <2>1. answered'[d] = response_packet.ticket /\ response_packet.ticket # 0 /\ UNCHANGED request
      BY <1>4 DEF Read, TypeOK
    <2>2. IsAnswer(d)
      BY <1>4 DEF Read, TypeOK
    <2>3. /\ Numbered(response_packet) /\ Numbered(request[d]) /\ request[d].ticket # 0
          /\ response_packet.sequence = request[d].sequence
      BY <1>4, <2>2 DEF Read, NumberInv, IsAnswer
    <2> QED
      BY <2>1, <2>3, SameNumber
  <1>5. ASSUME NEW c \in Callers, Step(c), ~Read(c) PROVE Same
    <2>1. CASE SendOnly(c) \/ SendFails(c)
      BY <2>1 DEF SendOnly, SendFails, TypeOK
    <2>2. CASE Woken(c) \/ Send(c)
      BY <2>2 DEF Woken, Send, TypeOK
    <2>3. ASSUME NEW f \in Fields, Store(c, f) PROVE Same
      BY <2>3 DEF Store
    <2>4. CASE Cleared(c)
      <3>1. c # d
        BY <2>4 DEF Cleared, NumberInv
      <3> QED
        BY <2>4, <3>1 DEF Cleared, TypeOK
    <2> QED
      BY <1>5, <2>1, <2>2, <2>3, <2>4 DEF Step
  <1>6. ASSUME NEW c \in Callers, Lock(c) \/ Expire(c) PROVE Same
    BY <1>6 DEF Lock, Expire, TypeOK
  <1>7. CASE Receiver \/ Lose \/ UNCHANGED vars
    BY <1>1, <1>7 DEF Receiver, Receive, Compare, Copy, Signal, Lose, vars
  <1> QED
    BY <1>1, <1>2, <1>3, <1>4, <1>5, <1>6, <1>7 DEF Next

(* Late answers and fields read without the mutex never mix two calls up,  *)
(* as long as their headers are fewer than SequenceNumbers apart.          *)
THEOREM OwnAnswerCorrect == Spec => []OwnAnswer
  <1>1. Init => OwnAnswer
    BY DEF Init, OwnAnswer
  <1>2. TypeOK /\ NumberInv /\ OwnAnswer /\ [Next]_vars => TypeOK' /\ NumberInv' /\ OwnAnswer'
    BY TypeStep, NumberStep, OwnAnswerStep
  <1> QED
    BY InitOK, <1>1, <1>2, PTL DEF Spec

-----------------------------------------------------------------------------
(* As long as no wait has expired there is at most one answer between the   *)
(* device and the caller, and it is the one of the caller that holds the    *)
(* request_mutex.  A request that could not be sent has none.               *)
Holds(c) == pc[c] \in {"expect", "wait", "clear", "read"}
MutexInv == \A c \in Callers : Holds(c) <=> request_mutex = c

IsFor(x, c) ==
    /\ x.function = request[c].function /\ x.sequence = request[c].sequence
    /\ x.ticket = request[c].ticket

NoneUnderWay == answers = <<>> /\ rpc = "idle"
Silent == NoneUnderWay /\ ~response_event

OneUnderWay(c) ==
    \/ /\ ~response_event
       /\ \/ rpc = "idle" /\ Len(answers) = 1 /\ IsFor(answers[1], c)
          \/ rpc = "compare" /\ answers = <<>> /\ IsFor(incoming, c)
          \/ rpc = "signal" /\ answers = <<>> /\ IsFor(response_packet, c)
    \/ NoneUnderWay /\ (response_event => IsFor(response_packet, c))

TurnInv == ~expired =>
    /\ request_mutex = Nobody => Silent
    /\ \A c \in Callers :
         /\ pc[c] = "expect" => Silent
         /\ pc[c] = "wait" => OneUnderWay(c)
         /\ pc[c] = "clear" => NoneUnderWay /\ IsFor(response_packet, c)
         /\ pc[c] = "read" => Silent /\ IsFor(response_packet, c)

(* Before the first timeout answers cannot be mixed up at all.             *)
OnlyOwnAnswer == ~expired =>
    \A c \in Callers : answered[c] # 0 => answered[c] = request[c].ticket /\ ret[c] # "E_TIMEOUT"

TurnsInv == MutexInv /\ TurnInv /\ OnlyOwnAnswer

(* The mutex is taken and given back by the caller it is about.            *)
LEMMA MutexStep == TypeOK /\ MutexInv /\ [Next]_vars => MutexInv'
  <1> SUFFICES ASSUME TypeOK, MutexInv, [Next]_vars PROVE MutexInv'
    OBVIOUS
  <1> USE DEF device, caller, receiver, history, Goto, Return, MutexInv, Holds
  <1>1. ASSUME NEW c \in Callers, Begin(c) \/ SendOnly(c) PROVE MutexInv'
    BY <1>1 DEF Begin, CreateHeader, SendOnly, TypeOK
  <1>2. ASSUME NEW c \in Callers, Lock(c) PROVE MutexInv'
    BY <1>2, Constants DEF Lock, FreeRequestMutex, TypeOK
  <1>3. ASSUME NEW c \in Callers, NEW f \in Fields, Store(c, f) PROVE MutexInv'
    BY <1>3 DEF Store
  <1>4. ASSUME NEW c \in Callers, Send(c) \/ Woken(c) \/ Expire(c) PROVE MutexInv'
    BY <1>4 DEF Send, Woken, Expire, TypeOK
  <1>5. ASSUME NEW c \in Callers, SendFails(c) \/ Cleared(c) \/ Read(c) PROVE MutexInv'
    <2>1. \A d \in Callers : d # c => pc'[d] = pc[d] /\ ~Holds(d)
      BY <1>5 DEF SendFails, Cleared, Read, TypeOK
    <2>2. \/ request_mutex' = Nobody /\ pc'[c] = "idle"
          \/ request_mutex' = c /\ pc'[c] = "read"
      BY <1>5 DEF SendFails, Cleared, Read, TypeOK
    <2> QED
      BY <2>1, <2>2, Constants
  <1>6. CASE Receiver \/ Lose \/ UNCHANGED vars
    BY <1>6 DEF Receiver, Receive, Compare, Copy, Signal, Lose, vars
  <1> QED
    BY <1>1, <1>2, <1>3, <1>4, <1>5, <1>6 DEF Next, Step

(* Whoever makes a step with the mutex is alone.                           *)
LEMMA Alone ==
    ASSUME MutexInv, NEW c \in Callers, Holds(c)
    PROVE  request_mutex = c /\ request_mutex # Nobody /\ \A d \in Callers \ {c} : ~Holds(d)
  BY Constants DEF MutexInv

(* The steps of the callers.                                               *)
LEMMA CallerTurns ==
    ASSUME TypeOK, TurnsInv, NEW c \in Callers, Begin(c) \/ Lock(c) \/ Step(c), ~expired
    PROVE  TurnInv' /\ OnlyOwnAnswer'
  <1> USE DEF device, caller, receiver, history, Goto, Return, TurnsInv
  <1>1. CASE Begin(c) \/ SendOnly(c)
    <2>1. /\ pc[c] \in {"idle", "begin"} /\ pc'[c] \in {"idle", "begin"} /\ answered'[c] = 0
          /\ UNCHANGED <<request_mutex, response_packet, response_event, answers, rpc, incoming, expired>>
      BY <1>1 DEF Begin, CreateHeader, SendOnly, TypeOK
    <2>2. ASSUME NEW d \in Callers, d # c
          PROVE  pc'[d] = pc[d] /\ request'[d] = request[d] /\ answered'[d] = answered[d] /\ ret'[d] = ret[d]
      BY <1>1, <2>2 DEF Begin, CreateHeader, SendOnly, TypeOK
    <2> QED
      BY <2>1, <2>2 DEF TurnInv, OnlyOwnAnswer, OneUnderWay, Silent, NoneUnderWay, IsFor
  <1>2. CASE Lock(c)
    <2>1. Silent /\ Silent' /\ request_mutex' # Nobody
      BY <1>2, Constants DEF Lock, FreeRequestMutex, TurnInv, Silent, NoneUnderWay
    <2>2. \A d \in Callers : pc'[d] = (IF d = c THEN "expect" ELSE pc[d]) /\ (d # c => ~Holds(d))
      BY <1>2, Constants DEF Lock, FreeRequestMutex, MutexInv, TypeOK
    <2> QED
      BY <1>2, <2>1, <2>2 DEF Lock, TurnInv, OnlyOwnAnswer, Holds
  <1>3. ASSUME NEW f \in Fields, Store(c, f) PROVE TurnInv' /\ OnlyOwnAnswer'
    BY <1>3 DEF Store, TurnInv, OnlyOwnAnswer, OneUnderWay, Silent, NoneUnderWay, IsFor
  <1>4. CASE Send(c)
    <2>1. PICK code \in Codes : answers' = Append(answers, Answer(c, code))
      BY <1>4 DEF Send
    <2>2. request_mutex # Nobody /\ \A d \in Callers \ {c} : ~Holds(d)
      BY <1>4, Alone DEF Send, Holds
    <2>3. Silent
      BY <1>4 DEF Send, TurnInv
    <2>4. Len(answers') = 1 /\ answers'[1] = Answer(c, code)
      BY <2>1, <2>3 DEF Silent, NoneUnderWay
    <2>5. /\ \A d \in Callers : pc'[d] = IF d = c THEN "wait" ELSE pc[d]
          /\ UNCHANGED <<request_mutex, request, rpc, response_event, ret, answered, expired>>
      BY <1>4 DEF Send, TypeOK
    <2>6. OneUnderWay(c)'
      BY <2>3, <2>4, <2>5 DEF OneUnderWay, IsFor, Answer, Silent, NoneUnderWay
    <2> QED
      BY <2>2, <2>5, <2>6 DEF TurnInv, OnlyOwnAnswer, Holds
  <1>5. CASE SendFails(c)
    <2>1. \A d \in Callers \ {c} : ~Holds(d)
      BY <1>5, Alone DEF SendFails, Holds
    <2>2. Silent'
      BY <1>5 DEF SendFails, TurnInv, Silent, NoneUnderWay
    <2>3. \A d \in Callers : ~Holds(d)'
      BY <1>5, <2>1 DEF SendFails, Holds, TypeOK
    <2>4. OnlyOwnAnswer'
      BY <1>5 DEF SendFails, OnlyOwnAnswer, TypeOK
    <2> QED
      BY <2>2, <2>3, <2>4 DEF TurnInv, Holds
  <1>6. CASE Woken(c)
    <2>1. request_mutex # Nobody /\ \A d \in Callers \ {c} : ~Holds(d)
      BY <1>6, Alone DEF Woken, Holds
    <2>2. NoneUnderWay /\ IsFor(response_packet, c)
      BY <1>6 DEF Woken, TurnInv, OneUnderWay
    <2>3. /\ \A d \in Callers : pc'[d] = IF d = c THEN "clear" ELSE pc[d]
          /\ UNCHANGED <<request_mutex, request, rpc, answers, response_packet, ret, answered, expired>>
      BY <1>6 DEF Woken, TypeOK
    <2> QED
      BY <2>1, <2>2, <2>3 DEF TurnInv, OnlyOwnAnswer, Holds, NoneUnderWay, IsFor
  <1>7. CASE Cleared(c)
    <2>1. request_mutex # Nobody /\ \A d \in Callers \ {c} : ~Holds(d)
      BY <1>7, Alone DEF Cleared, Holds
    <2>2. Silent' /\ IsFor(response_packet, c)
      BY <1>7 DEF Cleared, TurnInv, Silent, NoneUnderWay
    <2>3. /\ \A d \in Callers : d # c => pc'[d] = pc[d]
          /\ pc'[c] \in {"read", "idle"}
          /\ UNCHANGED <<request, response_packet, ret, answered, expired>>
      BY <1>7 DEF Cleared, TypeOK
    <2> QED
      BY <2>1, <2>2, <2>3 DEF TurnInv, OnlyOwnAnswer, Holds, IsFor
  <1>8. CASE Read(c)
    <2>1. request_mutex # Nobody /\ \A d \in Callers \ {c} : ~Holds(d)
      BY <1>8, Alone DEF Read, Holds
    <2>2. Silent /\ IsFor(response_packet, c)
      BY <1>8 DEF Read, TurnInv
    <2>3. /\ \A d \in Callers : d # c => pc'[d] = pc[d] /\ ret'[d] = ret[d] /\ answered'[d] = answered[d]
          /\ pc'[c] = "idle" /\ ret'[c] = ErrorOf(response_packet.code) /\ answered'[c] = response_packet.ticket
          /\ UNCHANGED <<request, response_packet, response_event, answers, rpc, expired>>
      BY <1>8, <2>2 DEF Read, IsAnswer, IsFor, TypeOK
    <2>4. ErrorOf(response_packet.code) # "E_TIMEOUT"
      BY DEF ErrorOf
    <2> QED
      BY <2>1, <2>2, <2>3, <2>4 DEF TurnInv, OnlyOwnAnswer, Holds, IsFor, Silent, NoneUnderWay
  <1> QED
    BY <1>1, <1>2, <1>3, <1>4, <1>5, <1>6, <1>7, <1>8 DEF Step

(* The only answer on its way.                                             *)
LEMMA OnlyItem ==
    ASSUME NEW S, NEW s \in Seq(S), Len(s) = 1
    PROVE  s # <<>> /\ Head(s) = s[1] /\ Tail(s) = <<>>
  <1>1. s # <<>> /\ Head(s) = s[1]
    BY LenProperties
  <1>2. Tail(s) \in Seq(S) /\ Len(Tail(s)) = 0
    BY <1>1, HeadTailProperties
  <1> QED
    BY <1>1, <1>2, EmptySeq

(* The steps of the receive thread, with the one answer there is.          *)
LEMMA ReceiverTurns ==
    ASSUME TypeOK, TurnsInv, Receiver \/ Lose, ~expired
    PROVE  TurnInv' /\ OnlyOwnAnswer'
  <1> USE DEF device, caller, receiver, history, TurnsInv
  <1>1. UNCHANGED <<request_mutex, pc, request, ret, answered, expired>>
    BY DEF Receiver, Receive, Compare, Copy, Signal, Lose
  <1>2. ~Silent
    BY DEF Receiver, Receive, Compare, Copy, Signal, Lose, Silent, NoneUnderWay
  <1>3. PICK c \in Callers : Holds(c)
    BY <1>2 DEF TurnInv, MutexInv, TypeOK
  <1>4. ~NoneUnderWay
    BY DEF Receiver, Receive, Compare, Copy, Signal, Lose, NoneUnderWay
  <1>5. pc[c] = "wait" /\ OneUnderWay(c) /\ ~response_event
    BY <1>2, <1>3, <1>4 DEF TurnInv, Holds, OneUnderWay
  <1>6. OneUnderWay(c)'
    <2>1. CASE Receive
      <3>1. Len(answers) = 1 /\ IsFor(answers[1], c) /\ answers # <<>>
        BY <1>5, <2>1 DEF Receive, OneUnderWay, NoneUnderWay
      <3>2. Head(answers) = answers[1] /\ Tail(answers) = <<>>
        BY <3>1, OnlyItem DEF TypeOK
      <3> QED
        BY <1>1, <1>5, <2>1, <3>1, <3>2 DEF Receive, OneUnderWay, IsFor
    <2>2. ASSUME NEW f \in Fields, Compare(f) PROVE OneUnderWay(c)'
      BY <1>1, <1>5, <2>2 DEF Compare, OneUnderWay, IsFor, NoneUnderWay
    <2>3. CASE Copy
      BY <1>1, <1>5, <2>3 DEF Copy, OneUnderWay, IsFor, NoneUnderWay
    <2>4. CASE Signal
      BY <1>1, <1>5, <2>4 DEF Signal, OneUnderWay, IsFor, NoneUnderWay
    <2>5. CASE Lose
      <3>1. Len(answers) = 1 /\ answers # <<>> /\ rpc = "idle"
        BY <1>5, <2>5 DEF Lose, OneUnderWay, NoneUnderWay
      <3>2. Tail(answers) = <<>>
        BY <3>1, OnlyItem DEF TypeOK
      <3> QED
        BY <1>1, <1>5, <2>5, <3>1, <3>2 DEF Lose, OneUnderWay, NoneUnderWay
    <2> QED
      BY <2>1, <2>2, <2>3, <2>4, <2>5 DEF Receiver
  <1> QED
    BY <1>1, <1>3, <1>5, <1>6, Alone DEF TurnInv, OnlyOwnAnswer, Holds

LEMMA TurnStep == TypeOK /\ TurnsInv /\ [Next]_vars => TurnInv' /\ OnlyOwnAnswer'
  <1> SUFFICES ASSUME TypeOK, TurnsInv, [Next]_vars PROVE TurnInv' /\ OnlyOwnAnswer'
    OBVIOUS
  <1>1. ASSUME NEW c \in Callers, Expire(c) PROVE expired'
    BY <1>1 DEF Expire
  <1>2. expired => expired'
    BY DEF Next, Begin, CreateHeader, Lock, Step, SendOnly, Store, Send, SendFails, Woken, Cleared, Read, Expire,
           Receiver, Receive, Compare, Copy, Signal, Lose, vars, history
  <1>3. expired' => TurnInv' /\ OnlyOwnAnswer'
    BY DEF TurnInv, OnlyOwnAnswer
  <1>4. CASE UNCHANGED vars
    BY <1>4 DEF vars, caller, device, receiver, history, TurnsInv, TurnInv, OnlyOwnAnswer,
                OneUnderWay, Silent, NoneUnderWay, IsFor
  <1> QED
    BY <1>1, <1>2, <1>3, <1>4, CallerTurns, ReceiverTurns DEF Next

LEMMA TurnsCorrect == Spec => []TurnsInv
  <1>1. Init => TurnsInv
    BY Constants DEF Init, TurnsInv, MutexInv, Holds, TurnInv, Silent, NoneUnderWay, OnlyOwnAnswer
  <1>2. TypeOK /\ TurnsInv /\ [Next]_vars => TurnsInv'
    BY MutexStep, TurnStep DEF TurnsInv
  <1> QED
    BY <1>1, <1>2, TypeCorrect, PTL DEF Spec

(* While no wait has expired a caller that is woken finds its answer.      *)
THEOREM TimeoutsExplainedCorrect == Spec => []TimeoutsExplained
  <1>1. TurnsInv => TimeoutsExplained
    BY DEF TurnsInv, OnlyOwnAnswer, TimeoutsExplained
  <1> QED
    BY <1>1, TurnsCorrect, PTL

(* And it is the answer to its own request, however few sequence numbers   *)
(* there are: only answers that come after a timeout can be mixed up.      *)
THEOREM OnlyOwnAnswerCorrect == Spec => []OnlyOwnAnswer
  <1>1. TurnsInv => OnlyOwnAnswer
    BY DEF TurnsInv
  <1> QED
    BY <1>1, TurnsCorrect, PTL

=============================================================================
