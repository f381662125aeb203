--------------------------- MODULE CloudFallback ---------------------------
(***************************************************************************)
(* Retry, fallback chain and circuit breaker (runtime/fallback.py), nested *)
(* the way they are written for: coroutines try the strategies of a chain  *)
(* in order, each is retried with a growing delay, and the strategies that *)
(* need the cloud go through one circuit breaker.  Nothing in the          *)
(* repository uses them yet; what the strategies do is the environment's.  *)
(*                                                                         *)
(* The breaker compares its counter with the threshold and the time since  *)
(* the last failure with the timeout, so the model counts both only as far *)
(* as that.                                                                *)
(***************************************************************************)
EXTENDS Integers

CONSTANTS
    Callers,     \* coroutines
    Strategies,  \* how many strategies the chain has
    Guarded,     \* those that go through the breaker
    MaxRetries, RetryBase, RetryCap, Factor,  \* RetryConfig
    Threshold,   \* failure_threshold
    Reset        \* reset_timeout

ASSUME FallbackAssumption ==
    /\ Strategies \in Nat \ {0} /\ Guarded \subseteq 1..Strategies
    /\ MaxRetries \in Nat
    /\ RetryBase \in Nat /\ RetryCap \in Nat /\ Factor \in Nat \ {0}
    /\ Threshold \in Nat \ {0} /\ Reset \in Nat

VARIABLES
    at,       \* what each coroutine does
    strategy, \* the strategy it is at
    attempt, backoff, \* of retry_async
    left,     \* what is left of its sleep
    failures, \* _failures
    sinceFailure, \* time since _last_failure
    breaker   \* _state

fallbackVars == <<at, strategy, attempt, backoff, left, failures, sinceFailure, breaker>>
retryVars    == <<at, strategy, attempt, backoff, left>>
breakerVars  == <<failures, sinceFailure, breaker>>

AtMost(n, bound) == IF n < bound THEN n ELSE bound

FallbackInit ==
    /\ at = [c \in Callers |-> "idle"]
    /\ strategy = [c \in Callers |-> 1]
    /\ attempt = [c \in Callers |-> 0]
    /\ backoff = [c \in Callers |-> RetryBase]
    /\ left = [c \in Callers |-> 0]
    /\ failures = 0
    /\ sinceFailure = Reset + 1
    /\ breaker = "closed"

\* Strategy s begins: retry_async with its first delay.
Enter(c, s) ==
    /\ at' = [at EXCEPT ![c] = "ready"]
    /\ strategy' = [strategy EXCEPT ![c] = s]
    /\ attempt' = [attempt EXCEPT ![c] = 0]
    /\ backoff' = [backoff EXCEPT ![c] = RetryBase]
    /\ UNCHANGED left

\* The chain has returned or raised, or was cancelled.
Leave(c) ==
    /\ at' = [at EXCEPT ![c] = "idle"]
    /\ UNCHANGED <<strategy, attempt, backoff, left>>

Begin(c) == at[c] = "idle" /\ Enter(c, 1) /\ UNCHANGED breakerVars

\* The strategy has raised: the chain goes on with the next one, if there is one.
Raises(c) == IF strategy[c] < Strategies THEN Enter(c, strategy[c] + 1) ELSE Leave(c)

\* A retryable exception: sleep and try again, except after the last attempt.
Retry(c) ==
    IF attempt[c] < MaxRetries
    THEN /\ at' = [at EXCEPT ![c] = "asleep"]
         /\ left' = [left EXCEPT ![c] = backoff[c]]
         /\ backoff' = [backoff EXCEPT ![c] = AtMost(@ * Factor, RetryCap)]
         /\ attempt' = [attempt EXCEPT ![c] = @ + 1]
         /\ UNCHANGED strategy
    ELSE Raises(c)

\* is_open: the first one to ask after the timeout makes the breaker half-open, in which
\* it lets every call through.
Refuses == breaker = "open" /\ sinceFailure <= Reset

Try(c) ==
    /\ at[c] = "ready"
    /\ ~(strategy[c] \in Guarded /\ Refuses)
    /\ at' = [at EXCEPT ![c] = "running"]
    /\ breaker' = IF strategy[c] \in Guarded /\ breaker = "open" THEN "half-open" ELSE breaker
    /\ UNCHANGED <<strategy, attempt, backoff, left, failures, sinceFailure>>

\* The breaker's ConnectionError is itself one that is retried.
Refused(c) ==
    /\ at[c] = "ready"
    /\ strategy[c] \in Guarded /\ Refuses
    /\ Retry(c)
    /\ UNCHANGED breakerVars

\* Mutant: the counter is not reset.
RecordSuccessCloses == breaker' = "closed" /\ UNCHANGED <<failures, sinceFailure>>

RecordSuccess == breaker' = "closed" /\ failures' = 0 /\ UNCHANGED sinceFailure

RecordFailure ==
    /\ failures' = AtMost(failures + 1, Threshold)
    /\ sinceFailure' = 0
    /\ breaker' = IF failures + 1 >= Threshold THEN "open" ELSE breaker

Succeeds(c) ==
    /\ at[c] = "running"
    /\ Leave(c)
    /\ IF strategy[c] \in Guarded THEN RecordSuccess ELSE UNCHANGED breakerVars

\* The strategy's function raises, an exception that is retried or another one.
Fails(c) ==
    /\ at[c] = "running"
    /\ Retry(c) \/ Raises(c)
    /\ IF strategy[c] \in Guarded THEN RecordFailure ELSE UNCHANGED breakerVars

Wakes(c) ==
    /\ at[c] = "asleep" /\ left[c] = 0
    /\ at' = [at EXCEPT ![c] = "ready"]
    /\ UNCHANGED <<strategy, attempt, backoff, left, breakerVars>>

\* A cancellation is not an Exception: the breaker does not hear of it.
Cancelled(c) == at[c] \in {"running", "asleep"} /\ Leave(c) /\ UNCHANGED breakerVars

FallbackTick ==
    /\ sinceFailure' = AtMost(sinceFailure + 1, Reset + 1)
    /\ left' = [c \in Callers |-> IF left[c] > 0 THEN left[c] - 1 ELSE 0]
    /\ UNCHANGED <<at, strategy, attempt, backoff, failures, breaker>>

CallerStep(c) ==
    \/ Begin(c) \/ Try(c) \/ Refused(c) \/ Succeeds(c) \/ Fails(c) \/ Wakes(c) \/ Cancelled(c)

FallbackNext == (\E c \in Callers : CallerStep(c)) \/ FallbackTick

FallbackSpec == FallbackInit /\ [][FallbackNext]_fallbackVars

-----------------------------------------------------------------------------
(* Properties                                                              *)

\* The state of the breaker agrees with its counter and its clock; CircuitBreaker keeps
\* the three apart.
BreakerAgrees ==
    /\ failures \in 0..Threshold /\ sinceFailure \in 0..(Reset + 1)
    /\ breaker \in {"closed", "open", "half-open"}
    /\ breaker = "closed" <=> failures < Threshold
    /\ breaker = "half-open" => sinceFailure > Reset

\* No retry beyond the last, and no delay above the cap but the first.
FallbackTypeOK ==
    /\ at \in [Callers -> {"idle", "ready", "running", "asleep"}]
    /\ strategy \in [Callers -> 1..Strategies]
    /\ attempt \in [Callers -> 0..MaxRetries]
    /\ backoff \in [Callers -> 0..RetryCap \cup {RetryBase}]
    /\ left \in [Callers -> 0..RetryCap \cup 0..RetryBase]
    /\ BreakerAgrees

\* A call that needs the cloud is let through exactly if fewer than Threshold failures
\* were recorded since the last success, or the last of them is longer ago than the
\* timeout, whatever calls that began earlier do in between.
AdmitsExactly ==
    [][\A c \in Callers :
         /\ at[c] = "ready" /\ strategy[c] \in Guarded
         /\ <<at[c], strategy[c]>>' # <<at[c], strategy[c]>>
         => (at'[c] = "running" <=> failures < Threshold \/ sinceFailure > Reset)]_fallbackVars
=============================================================================
