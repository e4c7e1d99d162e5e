----------------------- MODULE ResponseExpectedProofs -----------------------
(***************************************************************************)
(* Theorems about the response-expected flags, for every table of          *)
(* functions that fulfils FlagAssumption, every number of threads and of   *)
(* calls.                                                                  *)
(***************************************************************************)
EXTENDS ResponseExpected, TLAPS

(* A step changes flags only to what a caller may choose.                   *)
LEMMA SetFlagFacts ==
    ASSUME FlagAssumption, TypeOK, FlagInv, NEW f \in Ids, NEW b \in BOOLEAN, SetFlag(f, b)
    PROVE  /\ response_expected' \in [Functions -> Flags]
           /\ \A g \in Getters[device] : response_expected'[g] = "always_true"
  <1>1. response_expected \in [Functions -> Flags]
    BY DEF TypeOK
  <1>2. FlagOf(b) \in Flags
    BY DEF FlagOf, Flags
  <1>3. CASE Settable(f)
    <2>1. f \in Functions /\ f \notin Getters[device]
      BY <1>1, <1>3 DEF Settable, FlagInv
    <2>2. response_expected' = [response_expected EXCEPT ![f] = FlagOf(b)]
      BY <1>3 DEF SetFlag
    <2> QED
      BY <1>1, <1>2, <2>1, <2>2 DEF FlagInv, Functions
  <1>4. CASE ~Settable(f)
    <2>1. response_expected' = response_expected
      BY <1>4 DEF SetFlag
    <2> QED
      BY <1>1, <2>1 DEF FlagInv
  <1> QED
    BY <1>3, <1>4

(* The functions of a device are among its IDs.                             *)
LEMMA FunctionsAreIds ==
    ASSUME FlagAssumption, TypeOK
    PROVE  Functions \subseteq Ids
  BY DEF FlagAssumption, TypeOK, Functions

-----------------------------------------------------------------------------
LEMMA InitOK ==
    ASSUME FlagAssumption, Init
    PROVE  TypeOK /\ GetterInv
  <1>1. /\ response_expected \in [Functions -> Flags]
        /\ \A f \in Getters[device] : response_expected[f] = "always_true"
    <2>1. device \in Devices /\ response_expected = Default[device]
      BY DEF Init
    <2> QED
      BY <2>1 DEF FlagAssumption, Functions, Flags
  <1>2. TypeOK
    BY <1>1 DEF Init, TypeOK, FlagAssumption, Ids, Results
  <1>3. FlagInv
    BY <1>1 DEF Init, FlagInv
  <1>4. GetterAnswered /\ SetterDetects
    BY DEF Init, GetterAnswered, SetterDetects
  <1> QED
    BY <1>2, <1>3, <1>4 DEF GetterInv

LEMMA TypeNext ==
    ASSUME FlagAssumption, TypeOK, FlagInv, [Next]_vars
    PROVE  TypeOK'
  <1> USE DEF TypeOK, Results
  <1>1. CASE UNCHANGED vars
    BY <1>1 DEF vars, Functions
  <1> SUFFICES ASSUME NEW t \in Threads,
                      \/ \E f \in Functions : Begin(t, f) \/ \E b \in BOOLEAN : Set(t, f, b)
                      \/ \E b \in BOOLEAN : BeginAll(t, b)
                      \/ SetNext(t) \/ EndAll(t)
                      \/ SendFails(t) \/ Send(t) \/ Answered(t) \/ TimedOut(t) \/ Handle(t)
               PROVE  TypeOK'
    BY <1>1 DEF Next
  <1>2. ASSUME NEW f \in Functions, Begin(t, f) PROVE TypeOK'
    <2>1. f \in Ids
      BY FunctionsAreIds
    <2>2. IsExpected(f) \in BOOLEAN
      BY DEF IsExpected
    <2> QED
      BY <1>2, <2>1, <2>2 DEF Begin, Functions, FlagAssumption
  <1>3. ASSUME NEW f \in Functions, NEW b \in BOOLEAN, Set(t, f, b) PROVE TypeOK'
    <2>1. f \in Ids
      BY FunctionsAreIds
    <2>2. response_expected' \in [Functions -> Flags]
      BY <1>3, <2>1, SetFlagFacts DEF Set
    <2> QED
      BY <1>3, <2>2 DEF Set, Functions, FlagAssumption
  <1>4. ASSUME NEW b \in BOOLEAN, BeginAll(t, b) PROVE TypeOK'
    BY <1>4 DEF BeginAll, Functions, FlagAssumption
  <1>5. CASE SetNext(t)
    <2>1. PICK f \in todo[t] : SetFlag(f, pc[t] = "all_true") /\ todo' = [todo EXCEPT ![t] = @ \ {f}]
      BY <1>5 DEF SetNext
    <2>2. f \in Ids /\ (pc[t] = "all_true") \in BOOLEAN
      BY <2>1, FunctionsAreIds
    <2>3. response_expected' \in [Functions -> Flags]
      BY <2>1, <2>2, SetFlagFacts
    <2> QED
      BY <1>5, <2>1, <2>3 DEF SetNext, callVars, Functions
  <1>6. CASE EndAll(t)
    BY <1>6 DEF EndAll, Functions
  <1>7. CASE SendFails(t)
    BY <1>7 DEF SendFails, Return, Functions
  <1>8. CASE Send(t)
    BY <1>8 DEF Send, Return, Functions
  <1>9. CASE Answered(t)
    <2>1. PICK code \in 0 .. 3 :
             Return(t, ResultOf(code), IF code = 0 THEN "answer" ELSE "uninitialised")
      BY <1>9 DEF Answered
    <2>2. ResultOf(code) \in Results
      BY DEF ResultOf
    <2> QED
      BY <1>9, <2>1, <2>2 DEF Answered, Return, Functions
  <1>10. CASE TimedOut(t)
    BY <1>10 DEF TimedOut, Return, Functions
  <1>11. CASE Handle(t)
    BY <1>11 DEF Handle, Functions
  <1> QED
    BY <1>2, <1>3, <1>4, <1>5, <1>6, <1>7, <1>8, <1>9, <1>10, <1>11

(* The flags of getters, and what is known of a call under way.             *)
LEMMA FlagNext ==
    ASSUME FlagAssumption, TypeOK, FlagInv, [Next]_vars
    PROVE  FlagInv'
  <1>1. CASE UNCHANGED vars
    BY <1>1 DEF vars, FlagInv
  <1> SUFFICES ASSUME NEW t \in Threads,
                      \/ \E f \in Functions : Begin(t, f) \/ \E b \in BOOLEAN : Set(t, f, b)
                      \/ \E b \in BOOLEAN : BeginAll(t, b)
                      \/ SetNext(t) \/ EndAll(t)
                      \/ SendFails(t) \/ Send(t) \/ Answered(t) \/ TimedOut(t) \/ Handle(t)
               PROVE  FlagInv'
    BY <1>1 DEF Next
  <1>0. ASSUME NEW f \in Functions, NEW b \in BOOLEAN, SetFlag(f, b)
        PROVE  \A g \in Getters[device] : response_expected'[g] = "always_true"
    <2>1. f \in Ids
      BY FunctionsAreIds
    <2>2. /\ response_expected' \in [Functions -> Flags]
          /\ \A g \in Getters[device] : response_expected'[g] = "always_true"
      BY <1>0, <2>1, SetFlagFacts
    <2> QED
      BY <2>2
  <1> USE DEF TypeOK, FlagInv
  <1>2. ASSUME NEW f \in Functions, Begin(t, f) PROVE FlagInv'
    <2>1. f \in Getters[device] => IsExpected(f)
      BY DEF IsExpected
    <2>2. /\ function_id' = [function_id EXCEPT ![t] = f]
          /\ expected' = [expected EXCEPT ![t] = IsExpected(f)]
          /\ pc' = [pc EXCEPT ![t] = "send"]
          /\ result' = [result EXCEPT ![t] = "none"] /\ output' = [output EXCEPT ![t] = "none"]
          /\ UNCHANGED <<device, response_expected>>
      BY <1>2 DEF Begin
    <2>3. \A g \in Getters[device'] : response_expected'[g] = "always_true"
      BY <2>2
    <2>4. ASSUME NEW u \in Threads, pc'[u] \in {"send", "wait"}
          PROVE  /\ function_id'[u] \in Getters[device'] => expected'[u]
                 /\ result'[u] = "none" /\ output'[u] = "none"
                 /\ pc'[u] = "wait" => expected'[u]
      <3>1. CASE u = t
        BY <2>1, <2>2, <3>1
      <3>2. CASE u # t
        <4>1. /\ function_id'[u] = function_id[u] /\ expected'[u] = expected[u]
              /\ pc'[u] = pc[u] /\ result'[u] = result[u] /\ output'[u] = output[u]
          BY <2>2, <3>2
        <4> QED
          BY <2>2, <2>4, <4>1
      <3> QED
        BY <3>1, <3>2
    <2> QED
      BY <2>3, <2>4
  <1>3. ASSUME NEW f \in Functions, NEW b \in BOOLEAN, Set(t, f, b) PROVE FlagInv'
    <2>1. SetFlag(f, b)
      BY <1>3 DEF Set
    <2>2. \A g \in Getters[device] : response_expected'[g] = "always_true"
      BY <1>0, <2>1
    <2> QED
      BY <1>3, <2>2 DEF Set
  <1>4. ASSUME NEW b \in BOOLEAN, BeginAll(t, b) PROVE FlagInv'
    BY <1>4 DEF BeginAll
  <1>5. CASE SetNext(t)
    <2>1. PICK f \in todo[t] : SetFlag(f, pc[t] = "all_true")
      BY <1>5 DEF SetNext
    <2>2. f \in Functions /\ (pc[t] = "all_true") \in BOOLEAN
      BY <2>1
    <2>3. \A g \in Getters[device] : response_expected'[g] = "always_true"
      BY <1>0, <2>1, <2>2
    <2> QED
      BY <1>5, <2>3 DEF SetNext, callVars
  <1>6. CASE EndAll(t)
    BY <1>6 DEF EndAll
  <1>7. CASE SendFails(t)
    BY <1>7 DEF SendFails, Return
  <1>8. CASE Send(t)
    BY <1>8 DEF Send, Return
  <1>9. CASE Answered(t)
    <2>1. PICK code \in 0 .. 3 :
             Return(t, ResultOf(code), IF code = 0 THEN "answer" ELSE "uninitialised")
      BY <1>9 DEF Answered
    <2> QED
      BY <1>9, <2>1 DEF Answered, Return
  <1>10. CASE TimedOut(t)
    BY <1>10 DEF TimedOut, Return
  <1>11. CASE Handle(t)
    BY <1>11 DEF Handle
  <1> QED
    BY <1>2, <1>3, <1>4, <1>5, <1>6, <1>7, <1>8, <1>9, <1>10, <1>11

(* What a call returns.                                                     *)
LEMMA ReturnNext ==
    ASSUME FlagAssumption, TypeOK, GetterInv, [Next]_vars
    PROVE  GetterAnswered' /\ SetterDetects'
  <1> USE DEF GetterInv, GetterAnswered, SetterDetects
  <1>1. CASE UNCHANGED vars
    BY <1>1 DEF vars
  <1> SUFFICES ASSUME NEW t \in Threads,
                      \/ \E f \in Functions : Begin(t, f) \/ \E b \in BOOLEAN : Set(t, f, b)
                      \/ \E b \in BOOLEAN : BeginAll(t, b)
                      \/ SetNext(t) \/ EndAll(t)
                      \/ SendFails(t) \/ Send(t) \/ Answered(t) \/ TimedOut(t) \/ Handle(t)
               PROVE  GetterAnswered' /\ SetterDetects'
    BY <1>1 DEF Next
  <1> USE DEF TypeOK
  <1>2. ASSUME NEW f \in Functions, Begin(t, f) PROVE GetterAnswered' /\ SetterDetects'
    BY <1>2 DEF Begin
  <1>3. ASSUME NEW f \in Functions, NEW b \in BOOLEAN, Set(t, f, b)
        PROVE  GetterAnswered' /\ SetterDetects'
    BY <1>3 DEF Set
  <1>4. ASSUME NEW b \in BOOLEAN, BeginAll(t, b) PROVE GetterAnswered' /\ SetterDetects'
    BY <1>4 DEF BeginAll
  <1>5. CASE SetNext(t)
    BY <1>5 DEF SetNext, callVars
  <1>6. CASE EndAll(t)
    BY <1>6 DEF EndAll
  <1>7. CASE SendFails(t)
    BY <1>7 DEF SendFails, Return
  <1>8. CASE Send(t)                   \* a getter waits: FlagInv
    <2>1. function_id[t] \in Getters[device] => expected[t]
      BY <1>8 DEF Send, FlagInv
    <2> QED
      BY <1>8, <2>1 DEF Send, Return
  <1>9. CASE Answered(t)
    <2>1. PICK code \in 0 .. 3 :
             /\ code = 0 <=> done[t] = "executed"
             /\ Return(t, ResultOf(code), IF code = 0 THEN "answer" ELSE "uninitialised")
      BY <1>9 DEF Answered
    <2>2. ResultOf(code) = "E_OK" <=> code = 0
      BY DEF ResultOf
    <2> QED
      BY <1>9, <2>1, <2>2 DEF Answered, Return
  <1>10. CASE TimedOut(t)
    BY <1>10 DEF TimedOut, Return
  <1>11. CASE Handle(t)                \* not after the call has returned
    BY <1>11 DEF Handle, FlagInv
  <1> QED
    BY <1>2, <1>3, <1>4, <1>5, <1>6, <1>7, <1>8, <1>9, <1>10, <1>11

-----------------------------------------------------------------------------
(* The flags of getters never change, and calls return what they should:    *)
(* the invariant behind the following theorem.                              *)
THEOREM GetterCorrect == Spec => [](TypeOK /\ GetterInv)
  <1>1. Init => TypeOK /\ GetterInv
    BY InitOK, FlagAssumption
  <1>2. TypeOK /\ GetterInv /\ [Next]_vars => (TypeOK /\ GetterInv)'
    BY TypeNext, FlagNext, ReturnNext, FlagAssumption DEF GetterInv
  <1> QED
    BY <1>1, <1>2, PTL DEF Spec

(* A getter only returns, and only writes for its caller, what the device   *)
(* has answered, whatever other threads do to the flags of the device.      *)
THEOREM GetterAnsweredCorrect == Spec => []GetterAnswered
  <1>1. TypeOK /\ GetterInv => GetterAnswered
    BY DEF GetterInv
  <1> QED
    BY <1>1, GetterCorrect, PTL

(* A call that expected a response when it began returns E_OK only after    *)
(* the device has carried it out.                                           *)
THEOREM SetterDetectsCorrect == Spec => []SetterDetects
  <1>1. TypeOK /\ GetterInv => SetterDetects
    BY DEF GetterInv
  <1> QED
    BY <1>1, GetterCorrect, PTL
=============================================================================
