---------------------------- MODULE DeviceRequest ----------------------------
(***************************************************************************)
(* Requests to a device and its answers (libtinkerforge/bindings/          *)
(* ip_connection.c: packet_header_create, device_send_request, and the     *)
(* answering part of ipcon_handle_response).                               *)
(*                                                                         *)
(* A caller announces the answer it waits for in two fields of the device, *)
(* expected_response_function_id and expected_response_sequence_number.    *)
(* The callers write them under the request_mutex; the receive thread      *)
(* reads them without it.  Both are plain memory: each store and each load *)
(* is a step of its own here, in either order.  Answers may come late, and *)
(* may be lost; those of one device come in the order of its requests.     *)
(***************************************************************************)
EXTENDS Integers, Sequences

CONSTANTS
    Callers,            \* threads that call functions of the device
    Functions,          \* function ids of the device
    Getters,            \* those of them that always have an answer
    Codes,              \* error codes a device puts into its answers, 0 for none
    SequenceNumbers,    \* how many sequence numbers there are: 15 in the code
    MaxRequests         \* bound: requests ever made

Zero == 0       \* no function, no sequence number
Nobody == 0     \* holds the request_mutex

ASSUME RequestAssumption ==
    /\ SequenceNumbers \in Nat \ {0} /\ MaxRequests \in Nat
    /\ Getters \subseteq Functions /\ Codes \subseteq 0 .. 3
    /\ Zero \notin Functions /\ Nobody \notin Callers

Tickets == 0 .. MaxRequests

(* The ticket of a packet, the number of requests made when its header was  *)
(* created, is not part of it: it tells apart what the sequence number does *)
(* not.                                                                     *)
Requests == [function : Functions, sequence : 1 .. SequenceNumbers, ticket : Tickets \ {0}, expected : BOOLEAN]
Answers == [function : Functions, sequence : 1 .. SequenceNumbers, ticket : Tickets \ {0}, code : 0 .. 3]

NoRequest == [function |-> Zero, sequence |-> Zero, ticket |-> 0, expected |-> FALSE]
NoAnswer == [function |-> Zero, sequence |-> Zero, ticket |-> 0, code |-> 0]

Fields == {"function", "sequence"}

Results == {"E_OK", "E_TIMEOUT", "E_NOT_CONNECTED", "E_INVALID_PARAMETER", "E_NOT_SUPPORTED", "E_UNKNOWN_ERROR_CODE"}

VARIABLES
    next_sequence_number,   \* of the connection
    created,                \* headers created so far, the bounded counter
    request_mutex,
    expected,               \* expected_response_function_id and _sequence_number
    unstored,               \* those of the two fields the holder of the mutex still has to store
    response_packet, response_event,
    pc, request,            \* per caller
    ret,                    \* per caller: what device_send_request returns, once it has
    answered,               \* per caller: ticket of the answer it returned with, 0 for none
    answers,                \* on their way to the receive thread
    rpc, incoming, unread,  \* the receive thread, its packet, the fields it has to compare
    expired, lost           \* history: an event_wait has timed out, an answer was lost

device == <<request_mutex, expected, unstored>>
caller == <<pc, request, ret, answered>>
receiver == <<rpc, incoming, unread>>
history == <<expired, lost>>
vars == <<next_sequence_number, created, device, response_packet, response_event, caller, answers, receiver, history>>

Init ==
    /\ next_sequence_number = 0 /\ created = 0
    /\ request_mutex = Nobody /\ expected = [f \in Fields |-> Zero] /\ unstored = {}
    /\ response_packet = NoAnswer /\ response_event = FALSE
    /\ pc = [c \in Callers |-> "idle"] /\ request = [c \in Callers |-> NoRequest]
    /\ ret = [c \in Callers |-> "E_OK"] /\ answered = [c \in Callers |-> 0]
    /\ answers = <<>>
    /\ rpc = "idle" /\ incoming = NoAnswer /\ unread = {}
    /\ expired = FALSE /\ lost = FALSE

-----------------------------------------------------------------------------
Goto(c, label) == pc' = [pc EXCEPT ![c] = label]

(* Returns with the answer that has ticket t.                               *)
Return(c, r, t) ==
    /\ Goto(c, "idle")
    /\ ret' = [ret EXCEPT ![c] = r]
    /\ answered' = [answered EXCEPT ![c] = t]

(* packet_header_create, in the function of the binding.                    *)
HeaderSequenceFromZero == next_sequence_number         \* mutant: 0 .. 14 instead of 1 .. 15

HeaderSequence == next_sequence_number + 1

NextSequence == (next_sequence_number + 1) % SequenceNumbers

CreateHeader(c, f, response_expected) ==
    /\ pc[c] = "idle" /\ created < MaxRequests
    /\ f \in Getters => response_expected
    /\ created' = created + 1
    /\ next_sequence_number' = NextSequence
    /\ request' = [request EXCEPT ![c] = [function |-> f, sequence |-> HeaderSequence,
                                          ticket |-> created + 1, expected |-> response_expected]]
    /\ Goto(c, "begin")
    /\ ret' = [ret EXCEPT ![c] = "E_OK"] /\ answered' = [answered EXCEPT ![c] = 0]
    /\ UNCHANGED <<device, response_packet, response_event, answers, receiver, history>>

(* device_send_request: a request without an answer is just sent,           *)
SendOnly(c) ==
    /\ pc[c] = "begin" /\ ~request[c].expected
    /\ \E r \in {"E_OK", "E_NOT_CONNECTED"} : Return(c, r, 0)
    /\ UNCHANGED <<next_sequence_number, created, device, response_packet, response_event, request, answers, receiver, history>>

(* the others take turns.                                                   *)
IgnoreRequestMutex == TRUE                             \* mutant: the mutex is not taken

FreeRequestMutex == request_mutex = Nobody

Lock(c) ==
    /\ pc[c] = "begin" /\ request[c].expected /\ FreeRequestMutex
    /\ request_mutex' = c
    /\ response_event' = FALSE
    /\ unstored' = Fields
    /\ Goto(c, "expect")
    /\ UNCHANGED <<next_sequence_number, created, expected, response_packet, request, ret, answered, answers, receiver, history>>

(* The two stores, before sending and again after the wait.                 *)
Store(c, f) ==
    /\ pc[c] \in {"expect", "clear"} /\ f \in unstored
    /\ expected' = [expected EXCEPT ![f] = IF pc[c] = "expect" THEN request[c][f] ELSE Zero]
    /\ unstored' = unstored \ {f}
    /\ UNCHANGED <<next_sequence_number, created, request_mutex, response_packet, response_event, caller, answers, receiver, history>>

Answer(c, code) ==
    [function |-> request[c].function, sequence |-> request[c].sequence, ticket |-> request[c].ticket, code |-> code]

SendEarly(c) ==                                        \* mutant: sends before the answer is expected
    /\ pc[c] = "expect"
    /\ \E code \in Codes : answers' = Append(answers, Answer(c, code))
    /\ Goto(c, "wait")
    /\ UNCHANGED <<next_sequence_number, created, device, response_packet, response_event, request, ret, answered, receiver, history>>

Send(c) ==
    /\ pc[c] = "expect" /\ unstored = {}
    /\ \E code \in Codes : answers' = Append(answers, Answer(c, code))
    /\ Goto(c, "wait")
    /\ UNCHANGED <<next_sequence_number, created, device, response_packet, response_event, request, ret, answered, receiver, history>>

SendFailsLocked(c) ==                                  \* mutant: returns without unlocking
    /\ pc[c] = "expect" /\ unstored = {}
    /\ Return(c, "E_NOT_CONNECTED", 0)
    /\ UNCHANGED <<next_sequence_number, created, device, response_packet, response_event, request, answers, receiver, history>>

SendFails(c) ==
    /\ pc[c] = "expect" /\ unstored = {}
    /\ Return(c, "E_NOT_CONNECTED", 0)
    /\ request_mutex' = Nobody
    /\ UNCHANGED <<next_sequence_number, created, expected, unstored, response_packet, response_event, request, answers, receiver, history>>

(* event_wait: the wait may expire although the event was set by then.      *)
Woken(c) ==
    /\ pc[c] = "wait" /\ response_event
    /\ Goto(c, "clear")
    /\ unstored' = Fields
    /\ UNCHANGED <<next_sequence_number, created, request_mutex, expected, response_packet, response_event, request, ret, answered, answers, receiver, history>>

Expire(c) ==
    /\ pc[c] = "wait"
    /\ ret' = [ret EXCEPT ![c] = "E_TIMEOUT"]
    /\ expired' = TRUE
    /\ Goto(c, "clear")
    /\ unstored' = Fields
    /\ UNCHANGED <<next_sequence_number, created, request_mutex, expected, response_packet, response_event, request, answered, answers, receiver, lost>>

(* Both fields are cleared; a call that timed out is over.                  *)
Cleared(c) ==
    /\ pc[c] = "clear" /\ unstored = {}
    /\ response_event' = FALSE
    /\ IF ret[c] = "E_OK"
       THEN Goto(c, "read") /\ UNCHANGED request_mutex
       ELSE Goto(c, "idle") /\ request_mutex' = Nobody
    /\ UNCHANGED <<next_sequence_number, created, expected, unstored, response_packet, request, ret, answered, answers, receiver, history>>

(* The answer is compared once more, with the response_mutex held.          *)
ErrorOf(code) ==
    CASE code = 0 -> "E_OK"
      [] code = 1 -> "E_INVALID_PARAMETER"
      [] code = 2 -> "E_NOT_SUPPORTED"
      [] OTHER    -> "E_UNKNOWN_ERROR_CODE"

IsAnswerFunctionOnly(c) == response_packet.function = request[c].function     \* mutant: trusts the sequence number

IsAnswer(c) ==
    /\ response_packet.function = request[c].function
    /\ response_packet.sequence = request[c].sequence

Read(c) ==
    /\ pc[c] = "read"
    /\ IF IsAnswer(c)
       THEN Return(c, ErrorOf(response_packet.code), response_packet.ticket)
       ELSE Return(c, "E_TIMEOUT", response_packet.ticket)
    /\ request_mutex' = Nobody
    /\ UNCHANGED <<next_sequence_number, created, expected, unstored, response_packet, response_event, request, answers, receiver, history>>

-----------------------------------------------------------------------------
(* The receive thread: the next answer,                                     *)
Receive ==
    /\ rpc = "idle" /\ answers # <<>>
    /\ incoming' = Head(answers) /\ answers' = Tail(answers)
    /\ rpc' = "compare" /\ unread' = Fields
    /\ UNCHANGED <<next_sequence_number, created, device, response_packet, response_event, caller, history>>

(* compared to what is expected, field by field,                            *)
Compare(f) ==
    /\ rpc = "compare" /\ f \in unread
    /\ IF expected[f] = incoming[f]
       THEN unread' = unread \ {f} /\ UNCHANGED <<rpc, incoming>>
       ELSE unread' = {} /\ rpc' = "idle" /\ incoming' = NoAnswer
    /\ UNCHANGED <<next_sequence_number, created, device, response_packet, response_event, caller, answers, history>>

(* copied into the response_packet with the response_mutex held,            *)
Copy ==
    /\ rpc = "compare" /\ unread = {}
    /\ response_packet' = incoming
    /\ rpc' = "signal" /\ incoming' = NoAnswer
    /\ UNCHANGED <<next_sequence_number, created, device, response_event, caller, answers, unread, history>>

(* and announced.                                                           *)
Signal ==
    /\ rpc = "signal"
    /\ response_event' = TRUE
    /\ rpc' = "idle"
    /\ UNCHANGED <<next_sequence_number, created, device, response_packet, caller, answers, incoming, unread, history>>

(* An answer does not arrive: the device, the Brick Daemon or the           *)
(* connection drops it.                                                     *)
Lose ==
    /\ answers # <<>>
    /\ answers' = Tail(answers)
    /\ lost' = TRUE
    /\ UNCHANGED <<next_sequence_number, created, device, response_packet, response_event, caller, receiver, expired>>

-----------------------------------------------------------------------------
Begin(c) == \E f \in Functions, response_expected \in BOOLEAN : CreateHeader(c, f, response_expected)
Step(c) == SendOnly(c) \/ (\E f \in Fields : Store(c, f)) \/ Send(c) \/ SendFails(c) \/ Woken(c) \/ Cleared(c) \/ Read(c)
Receiver == Receive \/ (\E f \in Fields : Compare(f)) \/ Copy \/ Signal

Next ==
    \/ \E c \in Callers : Begin(c) \/ Lock(c) \/ Step(c) \/ Expire(c)
    \/ Receiver \/ Lose

Spec == Init /\ [][Next]_vars

(* The threads run, and a thread that waits for the request_mutex gets it   *)
(* when it is free again and again.                                         *)
Running ==
    /\ \A c \in Callers : WF_vars(Step(c)) /\ SF_vars(Lock(c))
    /\ WF_vars(Receiver)

FairSpec == Spec /\ Running

(* event_wait has a timeout.                                                *)
WaitsExpire == \A c \in Callers : WF_vars(Expire(c))

-----------------------------------------------------------------------------
(* In particular no request that is made and no answer to one has the       *)
(* sequence number 0, which is that of callbacks.                           *)
TypeOK ==
    /\ next_sequence_number \in 0 .. SequenceNumbers - 1 /\ created \in Tickets
    /\ request_mutex \in Callers \cup {Nobody}
    /\ expected \in [Fields -> Functions \cup 0 .. SequenceNumbers] /\ unstored \in SUBSET Fields
    /\ response_packet \in Answers \cup {NoAnswer} /\ response_event \in BOOLEAN
    /\ pc \in [Callers -> {"idle", "begin", "expect", "wait", "clear", "read"}]
    /\ request \in [Callers -> Requests \cup {NoRequest}]
    /\ \A c \in Callers : pc[c] # "idle" => request[c] \in Requests
    /\ ret \in [Callers -> Results] /\ answered \in [Callers -> Tickets]
    /\ answers \in Seq(Answers)
    /\ rpc \in {"idle", "compare", "signal"} /\ incoming \in Answers \cup {NoAnswer} /\ unread \in SUBSET Fields
    /\ rpc = "compare" => incoming \in Answers
    /\ expired \in BOOLEAN /\ lost \in BOOLEAN

(* A call that succeeds, or fails with what the device said, had the answer *)
(* to its own request, or to one at least SequenceNumbers requests away:    *)
(* neither late answers nor the fields read without the mutex mix them up.  *)
OwnAnswer == \A c \in Callers :
    pc[c] = "idle" /\ answered[c] # 0 /\ ret[c] # "E_TIMEOUT" =>
        \/ answered[c] = request[c].ticket
        \/ answered[c] + SequenceNumbers <= request[c].ticket
        \/ request[c].ticket + SequenceNumbers <= answered[c]

(* While no wait has expired, a caller that is woken finds its answer: a    *)
(* wrong packet in the response_packet only follows a real timeout.         *)
TimeoutsExplained == \A c \in Callers :
    pc[c] = "idle" /\ answered[c] # 0 /\ ret[c] = "E_TIMEOUT" => expired

(* Every call returns, also those that wait for the request_mutex, and      *)
(* whatever happens to the answers.                                         *)
CallsReturn == WaitsExpire => \A c \in Callers : pc[c] # "idle" ~> pc[c] = "idle"

(* No wakeup is lost: even if waits never expire a request that was sent is *)
(* answered, unless its answer does not arrive.                             *)
Answered == \A c \in Callers : pc[c] = "wait" ~> answered[c] # 0 \/ expired \/ lost
=============================================================================
