--------------------------- MODULE CircuitBreaker ---------------------------
(***************************************************************************)
(* One CircuitBreaker object (src/utils/circuit_breaker.py) and the        *)
(* coroutines that go through it.  The program creates four of them, at    *)
(* import time, for the extraction, validation, eligibility and decision   *)
(* subgraphs; each is shared by every request the process serves.          *)
(*                                                                         *)
(* The wrapped function is itself wrapped by @retry_transient              *)
(* (src/utils/retry.py), so one call through the breaker is up to          *)
(* MaxRetries + 1 attempts with a sleep between two of them, and the       *)
(* breaker hears only of the last one.  Everything between two awaits runs *)
(* without interleaving on the event loop; the awaits are the subgraph's   *)
(* own (pc = "running") and the back-off sleep (pc = "backoff").           *)
(***************************************************************************)
EXTENDS Integers, FiniteSets

CONSTANTS
  Callers,           (* requests that may be inside the breaker together    *)
  FailureThreshold,  (* failure_threshold                                   *)
  RecoveryTimeout,   (* recovery_timeout, in ticks of the clock             *)
  MaxRetries,        (* max_retries of @retry_transient                     *)
  HasFallback,       (* the decorator was given a fallback                  *)
  FallbackParams,    (* parameters that fallback requires                   *)
  MaxFailures        (* bound: no failure is recorded at or above it        *)

ASSUME ThresholdAssumption == FailureThreshold \in Nat \ {0}
ASSUME TimeoutAssumption   == RecoveryTimeout \in Nat
ASSUME RetriesAssumption   == MaxRetries \in Nat
ASSUME FallbackAssumption  == HasFallback \in BOOLEAN /\ FallbackParams \in Nat

VARIABLES
  state,         (* _state                                                  *)
  failureCount,  (* _failure_count                                          *)
  elapsed,       (* now - _last_failure_time, up to RecoveryTimeout         *)
  call           (* what each caller's coroutine is doing                   *)

breakerVars == <<state, failureCount, elapsed, call>>

CircuitBreakerState == {"closed", "open", "half_open"}

(* How a caller's previous call ended. *)
Result == {"none", "value", "raised", "cancelled",
           "fallback", "fallback_error", "circuit_open"}

(* `admitted` is the breaker's state when can_attempt() let the call in; it *)
(* is read by properties only.                                             *)
Call == [pc : {"idle", "running", "backoff"},
         attempt : 0..MaxRetries,
         admitted : {"closed", "half_open"},
         result : Result]

Idle(result) ==
  [pc |-> "idle", attempt |-> 0, admitted |-> "closed", result |-> result]

InFlight(c) == call[c].pc # "idle"

BreakerInit ==
  /\ state = "closed"
  /\ failureCount = 0
  /\ elapsed = RecoveryTimeout     \* _last_failure_time starts at the epoch
  /\ call = [c \in Callers |-> Idle("none")]

-----------------------------------------------------------------------------
(* The breaker's methods, each over the breaker's own variables. *)

TimeoutElapsed == elapsed = RecoveryTimeout

(* can_attempt(), the branches that return True: an OPEN breaker becomes    *)
(* HALF_OPEN, a HALF_OPEN one admits every caller.                         *)
CanAttempt ==
  /\ \/ state # "open" /\ UNCHANGED state
     \/ state = "open" /\ TimeoutElapsed /\ state' = "half_open"
  /\ UNCHANGED <<failureCount, elapsed>>

CannotAttempt == state = "open" /\ ~TimeoutElapsed

RecordSuccess_KeepsCount ==
  /\ state' = IF state = "half_open" THEN "closed" ELSE state
  /\ UNCHANGED <<failureCount, elapsed>>

RecordSuccess_ClosesAnyState ==
  /\ state' = "closed"
  /\ failureCount' = IF state = "closed" THEN failureCount ELSE 0
  /\ UNCHANGED elapsed

RecordSuccess ==
  /\ \/ /\ state = "half_open"
        /\ state' = "closed"
        /\ failureCount' = 0
     \/ /\ state # "half_open"
        /\ UNCHANGED <<state, failureCount>>
  /\ UNCHANGED elapsed

RecordFailure_NoReopen ==
  /\ failureCount < MaxFailures
  /\ failureCount' = failureCount + 1
  /\ elapsed' = 0
  /\ state' = IF state = "closed" /\ failureCount + 1 >= FailureThreshold
              THEN "open" ELSE state

RecordFailure ==
  /\ failureCount < MaxFailures
  /\ failureCount' = failureCount + 1
  /\ elapsed' = 0
  /\ state' = IF \/ state = "half_open"
                 \/ state = "closed" /\ failureCount + 1 >= FailureThreshold
              THEN "open" ELSE state

-----------------------------------------------------------------------------
(* A call through the decorated function. *)

(* The wrapper lets the call in and the first attempt starts. *)
Admit(c) ==
  /\ ~InFlight(c)
  /\ CanAttempt
  /\ call' = [call EXCEPT ![c] =
       [pc |-> "running", attempt |-> 0,
        admitted |-> IF state = "closed" THEN "closed" ELSE "half_open",
        result |-> "none"]]

Reject_AsFailure(c) ==
  /\ ~InFlight(c)
  /\ CannotAttempt
  /\ elapsed' = 0
  /\ call' = [call EXCEPT ![c] = Idle("circuit_open")]
  /\ UNCHANGED <<state, failureCount>>

(* Circuit open: the wrapper raises CircuitBreakerOpen when no fallback was *)
(* given, and calls fallback() without arguments when one was, a TypeError *)
(* if it requires any.                                                     *)
RejectedResult ==
  IF ~HasFallback THEN "circuit_open"
  ELSE IF FallbackParams = 0 THEN "fallback" ELSE "fallback_error"

Reject(c) ==
  /\ ~InFlight(c)
  /\ CannotAttempt
  /\ call' = [call EXCEPT ![c] = Idle(RejectedResult)]
  /\ UNCHANGED <<state, failureCount, elapsed>>

AttemptSucceeds(c) ==
  /\ call[c].pc = "running"
  /\ RecordSuccess
  /\ call' = [call EXCEPT ![c] = Idle("value")]

(* A transient error before the last attempt: @retry_transient sleeps. *)
AttemptFailsTransiently_NoLimit(c) ==
  /\ call[c].pc = "running"
  /\ call' = [call EXCEPT ![c].pc = "backoff"]
  /\ UNCHANGED <<state, failureCount, elapsed>>

AttemptFailsTransiently(c) ==
  /\ call[c].pc = "running"
  /\ call[c].attempt < MaxRetries
  /\ call' = [call EXCEPT ![c].pc = "backoff"]
  /\ UNCHANGED <<state, failureCount, elapsed>>

BackoffEnds(c) ==
  /\ call[c].pc = "backoff"
  /\ call' = [call EXCEPT ![c].pc = "running", ![c].attempt = @ + 1]
  /\ UNCHANGED <<state, failureCount, elapsed>>

(* The error leaves @retry_transient: not transient, or the last attempt. *)
AttemptRaises(c) ==
  /\ call[c].pc = "running"
  /\ RecordFailure
  /\ call' = [call EXCEPT ![c] = Idle("raised")]

(* The request's task is cancelled at one of its awaits: CancelledError is  *)
(* not an Exception, so neither record_* runs.                             *)
Cancelled(c) ==
  /\ InFlight(c)
  /\ call' = [call EXCEPT ![c] = Idle("cancelled")]
  /\ UNCHANGED <<state, failureCount, elapsed>>

Reset ==
  /\ state' = "closed"
  /\ failureCount' = 0
  /\ UNCHANGED <<elapsed, call>>

(* The clock; the breaker compares it with RecoveryTimeout and no more. *)
Tick ==
  /\ elapsed < RecoveryTimeout
  /\ elapsed' = elapsed + 1
  /\ UNCHANGED <<state, failureCount, call>>

Enter(c) == Admit(c) \/ Reject(c)

AttemptEnds(c) ==
  AttemptSucceeds(c) \/ AttemptFailsTransiently(c) \/ AttemptRaises(c)

BreakerNext ==
  \/ \E c \in Callers : \/ Admit(c)
                        \/ Reject(c)
                        \/ AttemptSucceeds(c)
                        \/ AttemptFailsTransiently(c)
                        \/ BackoffEnds(c)
                        \/ AttemptRaises(c)
                        \/ Cancelled(c)
  \/ Reset
  \/ Tick

BreakerSpec == BreakerInit /\ [][BreakerNext]_breakerVars

(* The subgraph answers or fails, asyncio.sleep returns and time passes. *)
Progress ==
  /\ \A c \in Callers : WF_breakerVars(AttemptEnds(c)) /\ WF_breakerVars(BackoffEnds(c))
  /\ WF_breakerVars(Tick)

FairSpec == BreakerSpec /\ Progress

(* FairSpec with requests that keep coming. *)
DemandSpec == FairSpec /\ \A c \in Callers : WF_breakerVars(Enter(c))

-----------------------------------------------------------------------------
TypeOK ==
  /\ state \in CircuitBreakerState
  /\ failureCount \in Nat
  /\ elapsed \in 0..RecoveryTimeout
  /\ call \in [Callers -> Call]

(* A sleeping coroutine has an attempt left. *)
BackoffHasRetries ==
  \A c \in Callers : call[c].pc = "backoff" => call[c].attempt < MaxRetries

(* The breaker is CLOSED exactly while fewer failures than the threshold    *)
(* are counted, whatever late results of calls admitted earlier add to the *)
(* count (record_success must clear it, record_failure must trip on it).   *)
ClosedIffBelowThreshold ==
  state = "closed" <=> failureCount < FailureThreshold

(* A HALF_OPEN breaker has seen no failure for a whole recovery_timeout:    *)
(* the first failure of any call, probe or straggler, opens it again and   *)
(* the timeout is waited for anew.                                         *)
HalfOpenWasQuiet == state = "half_open" => TimeoutElapsed

(* The result of a call that was let in before the circuit opened does not  *)
(* unblock it: an OPEN breaker is left only by a new call's can_attempt()  *)
(* or by reset(), so no call in flight ends in that step.                  *)
LateResultsDoNotUnblock ==
  [][state = "open" /\ state' # "open" =>
       \A c \in Callers : InFlight(c) => call'[c] = call[c]]_breakerVars

(* Every call that was let in ends, for the retries are bounded.  While     *)
(* requests keep coming, an OPEN breaker is probed again: stragglers that   *)
(* postpone the recovery (each failure restarts the timeout) run out.  And  *)
(* once the dependency stops failing and calls are no longer cancelled, the *)
(* breaker closes for good.                                                 *)
CircuitRecovers ==
  /\ \A c \in Callers : InFlight(c) ~> ~InFlight(c)
  /\ state = "open" ~> state # "open"
  /\ (<>[][\A c \in Callers : ~AttemptRaises(c) /\ ~Cancelled(c)]_breakerVars)
       => <>[](state = "closed")

-----------------------------------------------------------------------------
(* What the documentation says and the code does not do. *)

(* circuit_breaker.py:11 "HALF_OPEN: Testing recovery, one request allowed  *)
(* through" (and the comment in can_attempt, "allow one attempt").         *)
OneRequestAllowedThrough ==
  state = "half_open" =>
    Cardinality({c \in Callers : InFlight(c) /\ call[c].admitted = "half_open"})
      <= 1

(* circuit_breaker.py:92 "Number of consecutive failures": a success in     *)
(* between starts the count again.                                         *)
SuccessEndsTheStreak ==
  [][\A c \in Callers : AttemptSucceeds(c) => failureCount' = 0]_breakerVars

(* circuit_breaker.py:5 "opens and skips the subgraph, calling fallback     *)
(* immediately": a rejected call answers with the fallback's value.        *)
RejectedCallsFallBack ==
  \A c \in Callers : call[c].result # "fallback_error"
=============================================================================
