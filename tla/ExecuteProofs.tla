--------------------------- MODULE ExecuteProofs ---------------------------
(***************************************************************************)
(* Proofs about execute, for any number of callers, any retry limit and    *)
(* any first pause.  The inductive invariant says, for every place in the  *)
(* loop, what the device has done and what the call has counted.           *)
(*                                                                         *)
(* Then about the NV commands, which execute carries: they implement an    *)
(* atomic memory, for any indices and any data.                            *)
(***************************************************************************)
EXTENDS Nv, TLAPS

\* What c knows of its command: it has not run before an answer, and an answer
\* other than an error of the transport tells whether it did.
Knows(c) ==
  /\ executed[c] \in {0, 1}
  /\ pc[c] \in {"sent", "asleep"} => executed[c] = 0
  /\ pc[c] = "answered" =>
       /\ reply[c] # "none"
       /\ reply[c] = "success" => executed[c] = 1
       /\ reply[c] \in {"failure", "retry"} => executed[c] = 0
  /\ outcome[c] = "ok" => executed[c] = 1
  /\ outcome[c] \in {"tpmError", "tpmBusy"} => executed[c] = 0
  /\ pc[c] # "idle" => outcome[c] = "none"

\* What c has counted: refusals and pauses go with the attempts.
Counts(c) ==
  /\ pc[c] \in {"sent", "answered"} => refusals[c] = attempt[c]
  /\ pc[c] = "asleep" => /\ attempt[c] < RetryLimit
                         /\ refusals[c] = attempt[c] + 1
                         /\ slept[c] = Pause(attempt[c] + 1) - Backoff
  /\ pc[c] # "asleep" => slept[c] = Pause(attempt[c]) - Backoff
  /\ outcome[c] = "tpmBusy" => refusals[c] = RetryLimit + 1
  /\ outcome[c] \notin {"none", "tpmBusy"} => refusals[c] = attempt[c]

IInv == TypeOK /\ \A c \in Callers : Knows(c) /\ Counts(c)

\* The doubling of the pauses, as the invariant uses it.
LEMMA PauseFacts ==
  /\ RetryLimit \in Nat /\ Backoff \in Nat
  /\ Pause(0) = Backoff
  /\ \A a \in 0..RetryLimit : Pause(a) \in Nat /\ Pause(a + 1) = 2 * Pause(a)
BY RetryAssumption, PauseAssumption

\* The initial states satisfy the inductive invariant.
LEMMA InitIInv == Init => IInv
<1> SUFFICES ASSUME Init PROVE IInv
  OBVIOUS
<1>1. TypeOK
  BY PauseFacts DEF Init, TypeOK, Replies, Outcomes
<1>2. ASSUME NEW c \in Callers PROVE Knows(c)
  BY DEF Init, Knows
<1>3. ASSUME NEW c \in Callers PROVE Counts(c)
  BY PauseFacts DEF Init, Counts
<1> QED
  BY <1>1, <1>2, <1>3 DEF IInv

\* Every step preserves types; that the attempts stay within the limit takes
\* the guard under which a call went to sleep.
LEMMA TypeStep == IInv /\ [Next]_vars => TypeOK'
<1> SUFFICES ASSUME IInv, [Next]_vars PROVE TypeOK'
  OBVIOUS
<1> TypeOK
  BY DEF IInv
<1> USE PauseFacts DEF TypeOK, Replies, Outcomes
<1>1. CASE UNCHANGED vars
  BY <1>1 DEF vars
<1>2. CASE Flip
  BY <1>2 DEF Flip
<1>3. ASSUME NEW c \in Callers, Device(c) PROVE TypeOK'
  BY <1>3 DEF Device, Undelivered, DeviceBusy, DeviceRefuses, DeviceRuns, Answer
<1>4. ASSUME NEW c \in Callers, Begin(c) PROVE TypeOK'
  BY <1>4 DEF Begin
<1>5. ASSUME NEW c \in Callers, Return(c) PROVE TypeOK'
  BY <1>5 DEF Return, Counted, OutcomeOf, IInv, Knows
<1>6. ASSUME NEW c \in Callers, Sleep(c) PROVE TypeOK'
  <2>1. slept[c] + Pause(attempt[c]) \in Nat
    OBVIOUS
  <2> QED
    BY <1>6, <2>1 DEF Sleep, SleepFor, Counted
<1>7. ASSUME NEW c \in Callers, Resend(c) PROVE TypeOK'
  BY <1>7 DEF Resend, Wakes, IInv, Counts
<1> QED
  BY <1>1, <1>2, <1>3, <1>4, <1>5, <1>6, <1>7 DEF Next, Caller

\* A step of one caller, or of the device for it, leaves the others' calls as
\* they were.
LEMMA Frame ==
  ASSUME TypeOK, NEW c \in Callers, Caller(c) \/ Device(c),
         NEW d \in Callers, d # c
  PROVE  /\ pc'[d] = pc[d] /\ attempt'[d] = attempt[d] /\ reply'[d] = reply[d]
         /\ outcome'[d] = outcome[d] /\ executed'[d] = executed[d]
         /\ refusals'[d] = refusals[d] /\ slept'[d] = slept[d]
BY DEF TypeOK, Caller, Begin, Return, Sleep, SleepFor, Resend, Wakes, Counted, Device,
       Undelivered, DeviceBusy, DeviceRefuses, DeviceRuns, Answer

\* The step of c preserves what c knows.
LEMMA KnowsStep ==
  ASSUME TypeOK, NEW c \in Callers, Knows(c), Caller(c) \/ Device(c)
  PROVE  Knows(c)'
<1> USE DEF TypeOK, Knows, Replies, Outcomes
<1>1. CASE Begin(c)
  BY <1>1 DEF Begin
<1>2. CASE Return(c)
  BY <1>2 DEF Return, OutcomeOf
<1>3. CASE Sleep(c)
  BY <1>3 DEF Sleep, SleepFor, Again
<1>4. CASE Resend(c)
  BY <1>4 DEF Resend, Wakes
<1>5. CASE Undelivered(c) \/ DeviceBusy(c) \/ DeviceRefuses(c)
  BY <1>5 DEF Undelivered, DeviceBusy, DeviceRefuses, Answer
<1>6. CASE DeviceRuns(c)
  BY <1>6 DEF DeviceRuns, Answer
<1> QED
  BY <1>1, <1>2, <1>3, <1>4, <1>5, <1>6 DEF Caller, Device

\* The step of c preserves what c has counted.
LEMMA CountsStep ==
  ASSUME TypeOK, NEW c \in Callers, Knows(c), Counts(c),
         Caller(c) \/ Device(c)
  PROVE  Counts(c)'
<1> USE PauseFacts DEF TypeOK, Counts, Replies, Outcomes
<1>1. CASE Begin(c)
  BY <1>1 DEF Begin
<1>2. CASE Return(c)
  BY <1>2 DEF Return, OutcomeOf, Again, Counted, Knows
<1>3. CASE Sleep(c)
  <2>1. slept'[c] = slept[c] + Pause(attempt[c])
    BY <1>3 DEF Sleep, SleepFor
  <2>2. Pause(attempt[c] + 1) = 2 * Pause(attempt[c])
    OBVIOUS
  <2> QED
    BY <1>3, <2>1, <2>2 DEF Sleep, SleepFor, Again, Counted, Knows
<1>4. CASE Resend(c)
  BY <1>4 DEF Resend, Wakes, Knows
<1>5. CASE Device(c)
  BY <1>5 DEF Device, Undelivered, DeviceBusy, DeviceRefuses, DeviceRuns,
              Answer, Knows
<1> QED
  BY <1>1, <1>2, <1>3, <1>4, <1>5 DEF Caller

\* Every step preserves the inductive invariant.
LEMMA StepIInv == IInv /\ [Next]_vars => IInv'
<1> SUFFICES ASSUME IInv, [Next]_vars PROVE IInv'
  OBVIOUS
<1>1. TypeOK /\ TypeOK'
  BY TypeStep DEF IInv
<1>2. ASSUME NEW d \in Callers PROVE Knows(d)' /\ Counts(d)'
  <2>1. Knows(d) /\ Counts(d)
    BY DEF IInv
  <2>2. CASE UNCHANGED vars \/ Flip
    BY <2>1, <2>2 DEF vars, Flip, Knows, Counts
  <2>3. ASSUME NEW c \in Callers, Caller(c) \/ Device(c)
        PROVE  Knows(d)' /\ Counts(d)'
    <3>1. CASE c = d
      BY <1>1, <2>1, <2>3, <3>1, KnowsStep, CountsStep
    <3>2. CASE c # d
      BY <1>1, <2>1, <2>3, <3>2, Frame DEF Knows, Counts
    <3> QED
      BY <3>1, <3>2
  <2> QED
    BY <2>2, <2>3 DEF Next
<1> QED
  BY <1>1, <1>2 DEF IInv

\* The inductive invariant holds in every reachable state.
THEOREM Invariant == Spec => []IInv
BY InitIInv, StepIInv, PTL DEF Spec

\* Every variable of execute keeps its type; the attempt counter stays within
\* the retry limit.
THEOREM TypeCorrect == Spec => []TypeOK
<1>1. IInv => TypeOK
  BY DEF IInv
<1> QED
  BY <1>1, Invariant, PTL

\* No command runs twice in a call, and the error execute returns is true of
\* what the device did.
THEOREM Truthful == Spec => []OutcomeTruthful
<1>1. IInv => OutcomeTruthful
  BY DEF IInv, OutcomeTruthful, Knows
<1> QED
  BY <1>1, Invariant, PTL

\* The pauses of a call, and the refusals after which it gives up.
THEOREM Accounting == Spec => []BackoffAccounting
<1>1. IInv => BackoffAccounting
  BY DEF IInv, BackoffAccounting, Counts
<1> QED
  BY <1>1, Invariant, PTL
-----------------------------------------------------------------------------
(* Execute implements CommandOnce.                                         *)

\* The initial states of execute are initial states of CommandOnce.
LEMMA InitPromise == Init => Promise!Init
BY DEF Init, Promise!Init, VerdictOf

\* Every step of execute is a step of CommandOnce, or changes nothing that
\* CommandOnce speaks of.
LEMMA StepPromise ==
  IInv /\ IInv' /\ [Next]_vars => [Promise!Next]_(Promise!vars)
<1> SUFFICES ASSUME IInv, IInv', [Next]_vars
             PROVE  [Promise!Next]_(Promise!vars)
  OBVIOUS
<1> USE DEF Promise!Next, Promise!vars
<1>0. TypeOK
  BY DEF IInv
<1>1. CASE UNCHANGED vars \/ Flip
  BY <1>1 DEF vars, Flip
<1>2. ASSUME NEW c \in Callers, Begin(c) PROVE Promise!Begin(c)
  BY <1>0, <1>2 DEF Begin, Promise!Begin, TypeOK, VerdictOf
<1>3. ASSUME NEW c \in Callers, Return(c) PROVE Promise!Finish(c)
  <2>1. Knows(c)
    BY DEF IInv
  <2>2. VerdictOf[OutcomeOf[reply[c]]] \in {"ok", "refused", "unknown"}
    BY <1>0, <1>3, <2>1 DEF Return, VerdictOf, OutcomeOf, Knows, TypeOK, Replies
  <2>3. VerdictOf[OutcomeOf[reply[c]]] = "ok" => executed[c] = 1
    BY <1>0, <1>3, <2>1 DEF Return, VerdictOf, OutcomeOf, Knows, TypeOK, Replies
  <2>4. VerdictOf[OutcomeOf[reply[c]]] = "refused" => executed[c] = 0
    BY <1>0, <1>3, <2>1 DEF Return, VerdictOf, OutcomeOf, Knows, TypeOK, Replies
  <2>5. [d \in Callers |-> VerdictOf[outcome'[d]]]
          = [[d \in Callers |-> VerdictOf[outcome[d]]]
               EXCEPT ![c] = VerdictOf[OutcomeOf[reply[c]]]]
    BY <1>0, <1>3 DEF Return, TypeOK
  <2>6. [d \in Callers |-> IF pc'[d] = "idle" THEN "idle" ELSE "pending"]
          = [[d \in Callers |-> IF pc[d] = "idle" THEN "idle" ELSE "pending"]
               EXCEPT ![c] = "idle"]
    BY <1>0, <1>3 DEF Return, TypeOK
  <2> QED
    BY <1>0, <1>3, <2>2, <2>3, <2>4, <2>5, <2>6
    DEF Return, Promise!Finish, TypeOK
<1>4. ASSUME NEW c \in Callers, Sleep(c) \/ Resend(c)
      PROVE  UNCHANGED Promise!vars
  BY <1>0, <1>4 DEF Sleep, SleepFor, Resend, Wakes, TypeOK
<1>5. ASSUME NEW c \in Callers,
             Undelivered(c) \/ DeviceBusy(c) \/ DeviceRefuses(c)
      PROVE  UNCHANGED Promise!vars
  BY <1>0, <1>5 DEF Undelivered, DeviceBusy, DeviceRefuses, Answer, TypeOK
<1>6. ASSUME NEW c \in Callers, DeviceRuns(c) PROVE Promise!Effect(c)
  <2>1. executed[c] = 0
    BY <1>6 DEF IInv, Knows, DeviceRuns, Answer
  <2>2. executed' = [executed EXCEPT ![c] = 1]
    BY <1>6, <2>1 DEF DeviceRuns
  <2>3. [d \in Callers |-> IF pc'[d] = "idle" THEN "idle" ELSE "pending"]
          = [d \in Callers |-> IF pc[d] = "idle" THEN "idle" ELSE "pending"]
    BY <1>0, <1>6 DEF DeviceRuns, Answer, TypeOK
  <2> QED
    BY <1>0, <1>6, <2>1, <2>2, <2>3
    DEF DeviceRuns, Answer, Promise!Effect, TypeOK
<1> QED
  BY <1>1, <1>2, <1>3, <1>4, <1>5, <1>6 DEF Next, Caller, Device

\* A command sent through execute, over a transport that loses requests and
\* responses, takes effect at most once and is reported as CommandOnce says.
THEOREM Implements == Spec => PromiseKept
BY InitPromise, StepPromise, Invariant, PTL DEF Spec, PromiseKept, Promise!Spec

-----------------------------------------------------------------------------
(* The NV commands.                                                        *)

\* Every step is a step of execute.
LEMMA StepOfExecute == [NvNext]_allVars => [Next]_vars
  BY DEF NvNext, allVars, Next, Caller, Device, Call, Run, Fail, Retry, Finish

\* The inductive invariant: that of execute, the types, and that values are kept
\* for every caller.
NvInv ==
  /\ IInv /\ NvTypeOK
  /\ found = [c \in Callers |-> found[c]]
  /\ returned = [c \in Callers |-> returned[c]]

\* The initial states satisfy the inductive invariant.
LEMMA NvInitInv == NvInit => NvInv
  BY InitIInv DEF NvInit, NvInv, NvTypeOK, Init, IInv

\* Every step preserves the inductive invariant.
LEMMA NvStepInv == NvInv /\ [NvNext]_allVars => NvInv'
  <1> SUFFICES ASSUME NvInv, [NvNext]_allVars PROVE NvInv'
    OBVIOUS
  <1>1. IInv' /\ TypeOK /\ TypeOK'
    BY StepOfExecute, StepIInv DEF NvInv, IInv
  <1>2. /\ request \in [Callers -> Requests \cup {None}] /\ NvTypeOK
        /\ found = [c \in Callers |-> found[c]]
        /\ returned = [c \in Callers |-> returned[c]]
    BY DEF NvInv, NvTypeOK
  <1> USE NvAssumption
  <1>3. CASE UNCHANGED allVars
    BY <1>1, <1>2, <1>3 DEF allVars, vars, nvVars, NvInv, NvTypeOK
  <1>4. CASE Flip /\ UNCHANGED nvVars
    BY <1>1, <1>2, <1>4 DEF Flip, nvVars, NvInv, NvTypeOK
  <1>5. ASSUME NEW c \in Callers, NEW q \in Requests, Call(c, q) PROVE NvInv'
    BY <1>1, <1>2, <1>5 DEF Call, Begin, NvInv, NvTypeOK, TypeOK
  <1>6. ASSUME NEW c \in Callers, Run(c) PROVE NvInv'
    BY <1>1, <1>2, <1>6 DEF Run, DeviceRuns, Answer, NvInv, NvTypeOK, TypeOK
  <1>7. ASSUME NEW c \in Callers, Fail(c) PROVE NvInv'
    BY <1>1, <1>2, <1>7 DEF Fail, Undelivered, DeviceBusy, DeviceRefuses, Answer,
       nvVars, NvInv, NvTypeOK, TypeOK
  <1>8. ASSUME NEW c \in Callers, Retry(c) PROVE NvInv'
    BY <1>1, <1>2, <1>8 DEF Retry, Sleep, Resend, Wakes, nvVars, NvInv, NvTypeOK, TypeOK
  <1>9. ASSUME NEW c \in Callers, Finish(c) PROVE NvInv'
    <2>1. /\ pc' = [pc EXCEPT ![c] = "idle"] /\ request' = [request EXCEPT ![c] = None]
          /\ outcome' = [outcome EXCEPT ![c] = OutcomeOf[reply[c]]]
          /\ returned' = [returned EXCEPT ![c] = IF reply[c] = "success" THEN found[c]
                                                                       ELSE None]
          /\ found' = [found EXCEPT ![c] = None]
      BY <1>9 DEF Finish, Return
    <2>2. reply[c] \in Replies \ {"none"}
      BY <1>1, <1>9 DEF Finish, Return, TypeOK, IInv, Knows, NvInv
    <2>3. OutcomeOf[reply[c]] # "ok" => reply[c] # "success"
      BY <2>2 DEF OutcomeOf
    <2>4. \A d \in Callers : outcome'[d] # "ok" => returned'[d] = None
      BY <2>1, <2>3, <1>1, <1>2 DEF NvTypeOK, TypeOK
    <2>5. \A d \in Callers : request'[d] = None <=> pc'[d] = "idle"
      BY <2>1, <1>1, <1>2 DEF NvTypeOK, TypeOK
    <2>6. request' \in [Callers -> Requests \cup {None}]
          /\ returned' = [d \in Callers |-> returned'[d]]
          /\ found' = [d \in Callers |-> found'[d]]
      BY <2>1, <1>2
    <2> QED
      BY <2>4, <2>5, <2>6, <1>1 DEF NvInv, NvTypeOK
  <1> QED
    BY <1>3, <1>4, <1>5, <1>6, <1>7, <1>8, <1>9 DEF NvNext

\* The types of the NV layer, and that a caller has a value only of a call that
\* succeeded (NvTypeOK).
THEOREM NvTypeCorrect == NvSpec => []NvTypeOK
  <1>1. NvInv => NvTypeOK
    BY DEF NvInv
  <1> QED
    BY <1>1, NvInitInv, NvStepInv, PTL DEF NvSpec

\* Every step is a step of the abstract memory, or none.
LEMMA NvStepMemory ==
  NvInv /\ NvInv' /\ [NvNext]_allVars => [Memory!MemoryNext]_(Memory!memoryVars)
  <1> SUFFICES ASSUME NvInv, NvInv', [NvNext]_allVars
               PROVE  [Memory!MemoryNext]_(Memory!memoryVars)
    OBVIOUS
  <1>1. TypeOK /\ TypeOK' /\ \A c \in Callers : Knows(c) /\ Knows(c)'
    BY DEF NvInv, IInv
  <1>2. /\ request \in [Callers -> Requests \cup {None}] /\ NvTypeOK
        /\ found = [c \in Callers |-> found[c]]
        /\ returned = [c \in Callers |-> returned[c]]
    BY DEF NvInv, NvTypeOK
  <1> DEFINE taken  == [c \in Callers |-> request[c] # None /\ executed[c] = 1]
             result == [c \in Callers |->
                          [verdict |-> VerdictOf[outcome[c]], value |-> returned[c]]]
  <1> USE NvAssumption DEF Memory!MemoryNext, Memory!memoryVars
  <1>3. CASE UNCHANGED allVars \/ (Flip /\ UNCHANGED nvVars)
    BY <1>3 DEF allVars, vars, nvVars, Flip
  <1>4. ASSUME NEW c \in Callers, NEW q \in Requests, Call(c, q)
        PROVE  Memory!Issue(c, q)
    <2>1. taken' = taken
      BY <1>1, <1>2, <1>4 DEF Call, Begin, TypeOK, NvTypeOK
    <2>2. result' = [result EXCEPT ![c] = [verdict |-> "none", value |-> None]]
      BY <1>1, <1>2, <1>4 DEF Call, Begin, TypeOK, NvTypeOK, VerdictOf
    <2>3. request[c] = None
      BY <1>2, <1>4 DEF Call, Begin, NvTypeOK
    <2> QED
      BY <2>1, <2>2, <2>3, <1>4 DEF Call, Memory!Issue, Memory!Told
  <1>5. ASSUME NEW c \in Callers, Run(c) PROVE Memory!TakeEffect(c)
    <2>1. request[c] # None /\ executed[c] = 0 /\ executed'[c] = 1
      BY <1>1, <1>2, <1>5 DEF Run, DeviceRuns, Answer, NvTypeOK, Knows, TypeOK
    <2>2. taken' = [taken EXCEPT ![c] = TRUE]
      BY <1>1, <1>2, <1>5, <2>1 DEF Run, DeviceRuns, Answer, TypeOK
    <2>3. result' = result
      BY <1>5 DEF Run, DeviceRuns, Answer
    <2>4. ~taken[c]
      <3>1. executed[c] # 1
        BY <2>1
      <3> QED
        BY <3>1
    <2>5. request' = request
      BY <1>5 DEF Run
    <2> QED
      BY <2>1, <2>2, <2>3, <2>4, <2>5, <1>5, Zenon DEF Run, Memory!TakeEffect
  <1>6. ASSUME NEW c \in Callers, Fail(c) \/ Retry(c)
        PROVE  UNCHANGED Memory!memoryVars
    BY <1>6 DEF Fail, Retry, Undelivered, DeviceBusy, DeviceRefuses, Answer, Sleep,
       SleepFor, Resend, nvVars
  <1>7. ASSUME NEW c \in Callers, Finish(c) PROVE Memory!Complete(c)
    <2>1. request[c] # None
      BY <1>2, <1>7 DEF Finish, Return, NvTypeOK
    <2>2. taken' = [taken EXCEPT ![c] = FALSE]
      BY <1>1, <1>2, <1>7 DEF Finish, Return, TypeOK
    <2>3. result' = [result EXCEPT ![c] = [verdict |-> VerdictOf[OutcomeOf[reply[c]]],
                                           value |-> returned'[c]]]
      BY <1>1, <1>2, <1>7 DEF Finish, Return, TypeOK
    <2>4. CASE reply[c] = "success"
      <3>1. returned'[c] = found[c] /\ VerdictOf[OutcomeOf[reply[c]]] = "ok"
        BY <1>2, <1>7, <2>4 DEF Finish, VerdictOf, OutcomeOf
      <3>2. executed[c] = 1
        BY <1>1, <1>7, <2>4 DEF Finish, Return, Knows
      <3>3. taken[c]
        BY <2>1, <3>2
      <3> QED
        BY <1>7, <2>1, <2>2, <2>3, <3>1, <3>3 DEF Finish, Memory!Complete, Memory!Told
    <2>5. CASE reply[c] \in {"failure", "retry"}
      <3>1. returned'[c] = None /\ VerdictOf[OutcomeOf[reply[c]]] = "refused"
        BY <1>2, <1>7, <2>5 DEF Finish, VerdictOf, OutcomeOf
      <3>2. executed[c] = 0
        BY <1>1, <1>7, <2>5 DEF Finish, Return, Knows
      <3>4. executed[c] # 1
        BY <3>2
      <3>3. ~taken[c]
        BY <3>4
      <3> QED
        BY <1>7, <2>1, <2>2, <2>3, <3>1, <3>3 DEF Finish, Memory!Complete, Memory!Told
    <2>6. CASE reply[c] \in {"lost", "garbled"}
      <3>1. returned'[c] = None /\ VerdictOf[OutcomeOf[reply[c]]] = "unknown"
        BY <1>1, <1>2, <1>7, <2>6 DEF Finish, Return, VerdictOf, OutcomeOf, NvTypeOK
      <3> QED
        BY <1>7, <2>1, <2>2, <2>3, <3>1 DEF Finish, Memory!Complete, Memory!Told
    <2>7. reply[c] \in {"success", "failure", "retry", "lost", "garbled"}
      BY <1>1, <1>7 DEF Finish, Return, TypeOK, Replies, Knows
    <2> QED
      BY <2>4, <2>5, <2>6, <2>7
  <1> HIDE DEF taken, result
  <1> QED
    BY <1>3, <1>4, <1>5, <1>6, <1>7 DEF NvNext

\* The NV commands are an atomic memory, a command taking effect at most once
\* and not after its call (ImplementsMemory).
THEOREM MemoryRefined == NvSpec => ImplementsMemory
  <1>1. NvInit => Memory!MemoryInit
    <2> SUFFICES ASSUME NvInit PROVE Memory!MemoryInit
      OBVIOUS
    <2>1. /\ request = [c \in Callers |-> None] /\ executed = [c \in Callers |-> 0]
          /\ outcome = [c \in Callers |-> "none"] /\ returned = [c \in Callers |-> None]
          /\ memory = [i \in Indices |-> None] /\ found = [c \in Callers |-> None]
      BY DEF NvInit, Init
    <2>2. [c \in Callers |-> request[c] # None /\ executed[c] = 1]
            = [c \in Callers |-> FALSE]
      <3>1. \A c \in Callers : request[c] = None
        BY <2>1
      <3> QED
        BY <3>1, Zenon
    <2>3. [c \in Callers |-> [verdict |-> VerdictOf[outcome[c]], value |-> returned[c]]]
            = [c \in Callers |-> [verdict |-> "none", value |-> None]]
      <3>1. \A c \in Callers : VerdictOf[outcome[c]] = "none" /\ returned[c] = None
        BY <2>1 DEF VerdictOf
      <3> QED
        BY <3>1
    <2> QED
      BY <2>1, <2>2, <2>3, Zenon DEF Memory!MemoryInit, Memory!Told
  <1> QED
    BY <1>1, NvInitInv, NvStepInv, NvStepMemory, PTL
       DEF NvSpec, ImplementsMemory, Memory!MemorySpec
=============================================================================
