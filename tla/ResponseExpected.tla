-------------------------- MODULE ResponseExpected --------------------------
(***************************************************************************)
(* The functions of a device, called by several threads, while others      *)
(* switch on and off whether a response is expected (libtinkerforge/       *)
(* bindings/ip_connection.c: device_get_response_expected,                 *)
(* device_set_response_expected, device_set_response_expected_all,         *)
(* packet_header_create, device_send_request).                             *)
(*                                                                         *)
(* A getter copies what it returns out of a response; a setter may do      *)
(* without.  The flag is read once, when the header is created, and no     *)
(* mutex protects it.  How requests and answers find each other is the     *)
(* subject of DeviceRequest.                                               *)
(***************************************************************************)
EXTENDS Integers

CONSTANTS
    Threads,
    Devices,        \* kinds of devices
    Getters,        \* per device: the functions that are given a response to fill
    Setters,        \* per device: those that are not
    Default,        \* per device: the flag of each function that has one
    MaxCalls        \* bound: calls

Flags == {"always_true", "true", "false"}
Ids == 0 .. 255                        \* DEVICE_NUM_FUNCTION_IDS

(* What the bindings of a device have to provide.                           *)
ASSUME FlagAssumption ==
    /\ MaxCalls \in Nat
    /\ \A d \in Devices :
         /\ Getters[d] \subseteq Ids /\ Setters[d] \subseteq Ids
         /\ Default[d] \in [Getters[d] \cup Setters[d] -> Flags]
         /\ \A f \in Getters[d] : Default[d][f] = "always_true"
         /\ \A f \in Setters[d] : Default[d][f] \in {"true", "false"}

VARIABLES
    device,         \* the kind of device this is
    response_expected,   \* its flags; other functions are invalid
    calls,          \* calls made so far
    pc, function_id,     \* per thread
    expected,       \* per thread: the bit in the header of its request
    done,           \* per thread: what the device made of its request
    result,         \* per thread: what its last call returned
    output,         \* per thread: what that call has written for its caller
    todo            \* per thread: what device_set_response_expected_all still has to visit

vars == <<device, response_expected, calls, pc, function_id, expected, done, result, output, todo>>
callVars == <<calls, pc, function_id, expected, done, result, output>>

Functions == Getters[device] \cup Setters[device]

Init ==
    /\ device \in Devices /\ response_expected = Default[device]
    /\ calls = 0
    /\ pc = [t \in Threads |-> "idle"] /\ function_id = [t \in Threads |-> 0]
    /\ expected = [t \in Threads |-> FALSE] /\ done = [t \in Threads |-> "nothing"]
    /\ result = [t \in Threads |-> "none"] /\ output = [t \in Threads |-> "none"]
    /\ todo = [t \in Threads |-> {}]

-----------------------------------------------------------------------------
(* device_get_response_expected, for functions that have a flag             *)
IsExpected(f) == response_expected[f] \in {"always_true", "true"}

(* device_set_response_expected: getters keep their flag.                   *)
Settable(f) == f \in DOMAIN response_expected /\ response_expected[f] \in {"true", "false"}
FlagOf(b) == IF b THEN "true" ELSE "false"

SetUnlessInvalid(f, b) ==              \* mutant: only invalid functions are left alone
    response_expected' = IF f \in DOMAIN response_expected
                         THEN [response_expected EXCEPT ![f] = FlagOf(b)]
                         ELSE response_expected

SetFlag(f, b) ==
    response_expected' = IF Settable(f)
                         THEN [response_expected EXCEPT ![f] = FlagOf(b)]
                         ELSE response_expected

Set(t, f, b) ==
    /\ pc[t] = "idle" /\ calls < MaxCalls /\ calls' = calls + 1
    /\ SetFlag(f, b)
    /\ UNCHANGED <<device, pc, function_id, expected, done, result, output, todo>>

(* device_set_response_expected_all: one function after the other.          *)
BeginAll(t, b) ==
    /\ pc[t] = "idle" /\ calls < MaxCalls /\ calls' = calls + 1
    /\ pc' = [pc EXCEPT ![t] = IF b THEN "all_true" ELSE "all_false"]
    /\ todo' = [todo EXCEPT ![t] = DOMAIN response_expected]
    /\ UNCHANGED <<device, response_expected, function_id, expected, done, result, output>>

SetNext(t) ==
    /\ pc[t] \in {"all_true", "all_false"}
    /\ \E f \in todo[t] :
         /\ \A g \in todo[t] : f <= g
         /\ SetFlag(f, pc[t] = "all_true")
         /\ todo' = [todo EXCEPT ![t] = @ \ {f}]
    /\ UNCHANGED <<device, callVars>>

EndAll(t) ==
    /\ pc[t] \in {"all_true", "all_false"} /\ todo[t] = {}
    /\ pc' = [pc EXCEPT ![t] = "idle"]
    /\ UNCHANGED <<device, response_expected, calls, function_id, expected, done, result, output, todo>>

-----------------------------------------------------------------------------
(* A function of the bindings: the header of the request, with the flag.    *)
Begin(t, f) ==
    /\ pc[t] = "idle" /\ calls < MaxCalls /\ calls' = calls + 1
    /\ f \in Functions
    /\ function_id' = [function_id EXCEPT ![t] = f]
    /\ expected' = [expected EXCEPT ![t] = IsExpected(f)]
    /\ pc' = [pc EXCEPT ![t] = "send"]
    /\ done' = [done EXCEPT ![t] = "nothing"]
    /\ result' = [result EXCEPT ![t] = "none"] /\ output' = [output EXCEPT ![t] = "none"]
    /\ UNCHANGED <<device, response_expected, todo>>

(* The end of the call: a getter copies out of its response unless there    *)
(* was an error.  The response is a local variable, which only an answer    *)
(* fills.                                                                   *)
Return(t, r, response) ==
    /\ result' = [result EXCEPT ![t] = r]
    /\ output' = [output EXCEPT ![t] =
                    IF r = "E_OK" /\ function_id[t] \in Getters[device] THEN response ELSE "none"]
    /\ pc' = [pc EXCEPT ![t] = "idle"]

(* device_send_request: there may be no connection.                         *)
SendFails(t) ==
    /\ pc[t] = "send"
    /\ Return(t, "E_NOT_CONNECTED", "uninitialised")
    /\ UNCHANGED <<device, response_expected, calls, function_id, expected, done, todo>>

Send(t) ==
    /\ pc[t] = "send"
    /\ IF expected[t] THEN pc' = [pc EXCEPT ![t] = "wait"] /\ UNCHANGED <<result, output>>
                      ELSE Return(t, "E_OK", "uninitialised")
    /\ UNCHANGED <<device, response_expected, calls, function_id, expected, done, todo>>

(* The error code of the answer.                                            *)
ResultOfTwo(code) ==                   \* mutant: the last code is not an error
    CASE code = 1 -> "E_INVALID_PARAMETER" [] code = 2 -> "E_NOT_SUPPORTED" [] OTHER -> "E_OK"

ResultOf(code) == CASE code = 0 -> "E_OK" [] code = 1 -> "E_INVALID_PARAMETER"
                    [] code = 2 -> "E_NOT_SUPPORTED" [] code = 3 -> "E_UNKNOWN_ERROR_CODE"

Answered(t) ==
    /\ pc[t] = "wait" /\ done[t] # "nothing"
    /\ \E code \in 0 .. 3 :
         /\ code = 0 <=> done[t] = "executed"
         /\ Return(t, ResultOf(code), IF code = 0 THEN "answer" ELSE "uninitialised")
    /\ UNCHANGED <<device, response_expected, calls, function_id, expected, done, todo>>

TimedOut(t) ==
    /\ pc[t] = "wait"
    /\ Return(t, "E_TIMEOUT", "uninitialised")
    /\ UNCHANGED <<device, response_expected, calls, function_id, expected, done, todo>>

(* The device carries a request out, or refuses it.                         *)
Handle(t) ==
    /\ pc[t] = "wait" /\ done[t] = "nothing"
    /\ \E d \in {"executed", "refused"} : done' = [done EXCEPT ![t] = d]
    /\ UNCHANGED <<device, response_expected, calls, pc, function_id, expected, result, output, todo>>

Next == \E t \in Threads :
    \/ \E f \in Functions : Begin(t, f) \/ \E b \in BOOLEAN : Set(t, f, b)
    \/ \E b \in BOOLEAN : BeginAll(t, b)
    \/ SetNext(t) \/ EndAll(t)
    \/ SendFails(t) \/ Send(t) \/ Answered(t) \/ TimedOut(t) \/ Handle(t)

Spec == Init /\ [][Next]_vars
-----------------------------------------------------------------------------
Results == {"none", "E_OK", "E_TIMEOUT", "E_NOT_CONNECTED", "E_INVALID_PARAMETER",
            "E_NOT_SUPPORTED", "E_UNKNOWN_ERROR_CODE"}

TypeOK ==
    /\ device \in Devices /\ response_expected \in [Functions -> Flags]
    /\ calls \in 0 .. MaxCalls
    /\ pc \in [Threads -> {"idle", "send", "wait", "all_true", "all_false"}]
    /\ function_id \in [Threads -> Ids] /\ expected \in [Threads -> BOOLEAN]
    /\ done \in [Threads -> {"nothing", "executed", "refused"}]
    /\ result \in [Threads -> Results]
    /\ output \in [Threads -> {"none", "answer", "uninitialised"}]
    /\ todo \in [Threads -> SUBSET Functions]

(* A getter returns what the device has answered or an error, and writes    *)
(* nothing in the second case, whatever the flags were set to.              *)
GetterAnswered == \A t \in Threads :
    function_id[t] \in Getters[device] =>
        output[t] = IF result[t] = "E_OK" THEN "answer" ELSE "none"

(* A call that expected a response when it began only returns E_OK after    *)
(* the device has carried it out, even if the flag was switched off since.  *)
SetterDetects == \A t \in Threads :
    expected[t] /\ result[t] = "E_OK" => done[t] = "executed"

-----------------------------------------------------------------------------
(* Why it works: nothing changes the flag of a getter, so that it always    *)
(* waits for an answer.                                                     *)
FlagInv ==
    /\ \A f \in Getters[device] : response_expected[f] = "always_true"
    /\ \A t \in Threads :
         pc[t] \in {"send", "wait"} =>
            /\ function_id[t] \in Getters[device] => expected[t]
            /\ result[t] = "none" /\ output[t] = "none"
            /\ pc[t] = "wait" => expected[t]

GetterInv == FlagInv /\ GetterAnswered /\ SetterDetects
=============================================================================
