------------------------------ MODULE Execute ------------------------------
(***************************************************************************)
(* The command layer of tpm.go: TPM.execute sends one marshaled command    *)
(* through a common.Transport, reads the response code, and sends the same *)
(* bytes again, after a doubling pause, while the TPM answers TPM_RC_RETRY.*)
(*                                                                         *)
(* A TPM value holds no state, so any number of goroutines may be inside   *)
(* execute at once: each has its own attempt counter, and they share only  *)
(* the device.  The transport and the device are outside the repository;   *)
(* they are modelled from what execute relies on: Send returns a response  *)
(* or an error, an error does not say whether the command ran, and a       *)
(* response with a code other than success means that it did not.          *)
(***************************************************************************)
EXTENDS Integers

CONSTANTS
  Callers,                  \* the goroutines that issue commands
  RetryLimit,               \* retryLimit: the extra attempts a retry earns
  Backoff                   \* retryBackoff: the first pause, in milliseconds

\* time.Sleep(retryBackoff << attempt)
Pause(a) == Backoff * 2^a

ASSUME RetryAssumption == RetryLimit \in Nat /\ Backoff \in Nat

\* The shift is a doubling.  This is arithmetic, named because the prover has
\* no theory of exponents; TLC evaluates it over the attempts a call can make.
ASSUME PauseAssumption ==
  /\ Pause(0) = Backoff
  /\ \A a \in 0..RetryLimit : Pause(a) \in Nat /\ Pause(a + 1) = 2 * Pause(a)

VARIABLES
  pc,                       \* where c is in execute
  attempt,                  \* the loop variable
  reply,                    \* what Send returned
  outcome,                  \* what execute returned to its caller
  busy,                     \* the device answers TPM_RC_RETRY
  executed,                 \* history: how often the device ran the command
  refusals,                 \* history: the TPM_RC_RETRY answers c received
  slept                     \* history: milliseconds c slept in this call

vars == <<pc, attempt, reply, outcome, busy, executed, refusals, slept>>

\* "lost" is an error of Send, "garbled" a response ParseResponse rejects.
Replies  == {"none", "lost", "garbled", "success", "failure", "retry"}
Outcomes == {"none", "sendError", "parseError", "ok", "tpmError", "tpmBusy"}

TypeOK ==
  /\ pc \in [Callers -> {"idle", "sent", "answered", "asleep"}]
  /\ attempt \in [Callers -> 0..RetryLimit]
  /\ reply \in [Callers -> Replies]
  /\ outcome \in [Callers -> Outcomes]
  /\ busy \in BOOLEAN
  /\ executed \in [Callers -> Nat]
  /\ refusals \in [Callers -> Nat]
  /\ slept \in [Callers -> Nat]

Init ==
  /\ pc = [c \in Callers |-> "idle"]
  /\ attempt = [c \in Callers |-> 0]
  /\ reply = [c \in Callers |-> "none"]
  /\ outcome = [c \in Callers |-> "none"]
  /\ busy \in BOOLEAN
  /\ executed = [c \in Callers |-> 0]
  /\ refusals = [c \in Callers |-> 0]
  /\ slept = [c \in Callers |-> 0]
-----------------------------------------------------------------------------
(* The device and the transport.                                           *)

\* The device starts or ends a self-test.
Flip == /\ busy' = ~busy
        /\ UNCHANGED <<pc, attempt, reply, outcome, executed, refusals, slept>>

\* Send returns r to c.
Answer(c, r) == /\ pc[c] = "sent"
                /\ pc' = [pc EXCEPT ![c] = "answered"]
                /\ reply' = [reply EXCEPT ![c] = r]
                /\ UNCHANGED <<attempt, outcome, busy, refusals, slept>>

\* The command does not reach the device.
Undelivered(c) == Answer(c, "lost") /\ UNCHANGED executed

\* The device could not start the command.
DeviceBusy(c) == /\ busy
                 /\ \E r \in {"retry", "lost", "garbled"} : Answer(c, r)
                 /\ UNCHANGED executed

\* The device refuses the command with another response code.
DeviceRefuses(c) == /\ ~busy
                    /\ \E r \in {"failure", "lost", "garbled"} : Answer(c, r)
                    /\ UNCHANGED executed

\* The device runs the command; its response may be lost on the way back.
DeviceRuns(c) == /\ ~busy
                 /\ \E r \in {"success", "lost", "garbled"} : Answer(c, r)
                 /\ executed' = [executed EXCEPT ![c] = @ + 1]

Device(c) ==
  Undelivered(c) \/ DeviceBusy(c) \/ DeviceRefuses(c) \/ DeviceRuns(c)
-----------------------------------------------------------------------------
(* TPM.execute.                                                            *)

Begin(c) ==
  /\ pc[c] = "idle"
  /\ pc' = [pc EXCEPT ![c] = "sent"]
  /\ attempt' = [attempt EXCEPT ![c] = 0]
  /\ reply' = [reply EXCEPT ![c] = "none"]
  /\ outcome' = [outcome EXCEPT ![c] = "none"]
  /\ executed' = [executed EXCEPT ![c] = 0]
  /\ refusals' = [refusals EXCEPT ![c] = 0]
  /\ slept' = [slept EXCEPT ![c] = 0]
  /\ UNCHANGED busy

\* Mutants of Again: one attempt too many; a resend after a transport error.
Again_OneMore(c) == reply[c] = "retry" /\ attempt[c] <= RetryLimit
Again_AfterLoss(c) == reply[c] \in {"retry", "lost"} /\ attempt[c] < RetryLimit

\* The negation of the condition under which a failed command is reported.
Again(c) == reply[c] = "retry" /\ attempt[c] < RetryLimit

\* Mutant of OutcomeOf: a transport error is reported as a refusal.
OutcomeOf_LostIsRefused ==
  [lost |-> "tpmError", garbled |-> "parseError",
   success |-> "ok", failure |-> "tpmError", retry |-> "tpmBusy"]

\* The error, or the parameters, that the answer becomes.
OutcomeOf == [lost |-> "sendError", garbled |-> "parseError",
              success |-> "ok", failure |-> "tpmError", retry |-> "tpmBusy"]

Counted(c) == refusals' = IF reply[c] = "retry"
                          THEN [refusals EXCEPT ![c] = @ + 1] ELSE refusals

Return(c) ==
  /\ pc[c] = "answered"
  /\ ~Again(c)
  /\ pc' = [pc EXCEPT ![c] = "idle"]
  /\ outcome' = [outcome EXCEPT ![c] = OutcomeOf[reply[c]]]
  /\ Counted(c)
  /\ UNCHANGED <<attempt, reply, busy, executed, slept>>

\* Mutant of SleepFor: the shift is left out.
SleepFor_Flat(c) == slept' = [slept EXCEPT ![c] = @ + Pause(0)]

\* The pause is counted as it begins.
SleepFor(c) == slept' = [slept EXCEPT ![c] = @ + Pause(attempt[c])]

Sleep(c) ==
  /\ pc[c] = "answered"
  /\ Again(c)
  /\ pc' = [pc EXCEPT ![c] = "asleep"]
  /\ SleepFor(c)
  /\ Counted(c)
  /\ UNCHANGED <<attempt, reply, outcome, busy, executed>>

\* Mutant of Wakes: the call waits for the device instead of for the timer.
Wakes_WhenReady(c) == pc[c] = "asleep" /\ ~busy

\* The timer fires.
Wakes(c) == pc[c] = "asleep"

\* The same command goes out once more, for the next attempt.
Resend(c) ==
  /\ Wakes(c)
  /\ pc' = [pc EXCEPT ![c] = "sent"]
  /\ attempt' = [attempt EXCEPT ![c] = @ + 1]
  /\ reply' = [reply EXCEPT ![c] = "none"]
  /\ UNCHANGED <<outcome, busy, executed, refusals, slept>>

Caller(c) == Begin(c) \/ Return(c) \/ Sleep(c) \/ Resend(c)

Next == Flip \/ \E c \in Callers : Caller(c) \/ Device(c)

Spec == Init /\ [][Next]_vars

\* Send returns, the runtime schedules the goroutine, and timers fire.
\* Nothing makes a busy device ready.
Fairness == \A c \in Callers : /\ WF_vars(Device(c))
                               /\ WF_vars(Return(c))
                               /\ WF_vars(Sleep(c))
                               /\ WF_vars(Resend(c))

FairSpec == Spec /\ Fairness
-----------------------------------------------------------------------------
(* Properties.                                                             *)

\* No command runs twice, and the error tells the truth about whether it ran:
\* a success means once, a TPMError means not at all.  Only the errors of the
\* transport leave it open (the resend in execute may follow TPM_RC_RETRY and
\* nothing else).
OutcomeTruthful ==
  \A c \in Callers :
    /\ executed[c] \in {0, 1}
    /\ outcome[c] = "ok" => executed[c] = 1
    /\ outcome[c] \in {"tpmError", "tpmBusy"} => executed[c] = 0

\* The time a call spends asleep is fixed by how often it was told to retry:
\* every refusal but the one it gives up on costs one pause of the doubling
\* series, and a call that gives up has been refused RetryLimit + 1 times.
BackoffAccounting ==
  \A c \in Callers :
    /\ pc[c] = "sent" => refusals[c] = attempt[c]
    /\ outcome[c] = "tpmBusy" => refusals[c] = RetryLimit + 1
    /\ outcome[c] \notin {"none", "tpmBusy"} => refusals[c] = attempt[c]
    /\ pc[c] # "asleep" => slept[c] = Pause(attempt[c]) - Backoff

\* A call returns, even if the device stays busy for ever.
EveryCallReturns == \A c \in Callers : pc[c] # "idle" ~> pc[c] = "idle"

\* The comments on retryLimit and in the retry test: a call that gives up has
\* waited "about a quarter of a second in total".
GivesUpAfterAQuarterSecond ==
  \A c \in Callers : outcome[c] = "tpmBusy" => slept[c] \in 200..300

\* What the caller is promised: execute implements CommandOnce.
VerdictOf == [none |-> "none", ok |-> "ok",
              tpmError |-> "refused", tpmBusy |-> "refused",
              sendError |-> "unknown", parseError |-> "unknown"]

Promise == INSTANCE CommandOnce WITH
  phase   <- [c \in Callers |-> IF pc[c] = "idle" THEN "idle" ELSE "pending"],
  effects <- executed,
  verdict <- [c \in Callers |-> VerdictOf[outcome[c]]]

\* Every behaviour of execute over a faulty transport is one of CommandOnce.
PromiseKept == Promise!Spec
=============================================================================
