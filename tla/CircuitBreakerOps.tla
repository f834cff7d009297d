-------------------------- MODULE CircuitBreakerOps --------------------------
(***************************************************************************)
(* The circuit breaker object of common/circuitbreaker.go as a record, and  *)
(* one operator per piece of code that reads or writes it.  The field age   *)
(* stands for time.Since(lastFailureTime): ticks since the last failure,    *)
(* saturating at AgeCap, because the code only compares it with thresholds. *)
(***************************************************************************)
EXTENDS Naturals

CONSTANTS FailureThreshold,  \* consecutive failures that open the circuit
          RecoveryTimeout,   \* ticks an open circuit refuses every call
          HalfOpenMaxCalls,  \* calls let through while half-open
          SuccessThreshold,  \* successes that close a half-open circuit
          AgeCap             \* bound: larger ages are not told apart

ASSUME BreakerConfig == /\ FailureThreshold \in Nat
                        /\ RecoveryTimeout \in Nat
                        /\ HalfOpenMaxCalls \in Nat
                        /\ SuccessThreshold \in Nat
                        /\ AgeCap \in Nat
                        /\ RecoveryTimeout < AgeCap

CircuitBreakerState == {"CLOSED", "OPEN", "HALF_OPEN"}

\* The counters stay within their thresholds; a FailureThreshold of 0 opens
\* the circuit on the first failure, after it has been counted.
MaxFailureCount == IF FailureThreshold = 0 THEN 1 ELSE FailureThreshold

Breaker == [state         : CircuitBreakerState,
            failureCount  : 0..MaxFailureCount,
            successCount  : 0..SuccessThreshold,
            halfOpenCalls : 0..HalfOpenMaxCalls,
            age           : 0..AgeCap]

CB(st, failures, successes, trials, age) ==
    [state |-> st, failureCount |-> failures, successCount |-> successes,
     halfOpenCalls |-> trials, age |-> age]

\* The zero lastFailureTime lies further back than any threshold.
NewCircuitBreaker == CB("CLOSED", 0, 0, 0, AgeCap)

Elapsed(b) == b.age > RecoveryTimeout

CanExecute(b) ==
    CASE b.state = "OPEN"      -> Elapsed(b)
      [] b.state = "HALF_OPEN" -> b.halfOpenCalls < HalfOpenMaxCalls
      [] OTHER                 -> TRUE

\* Mutant: Call leaves the move to half-open to somebody else.
TryHalfOpen_Never(b) == b

\* First test of Call: an open circuit whose timeout elapsed becomes half-open.
TryHalfOpen(b) == IF b.state = "OPEN" /\ Elapsed(b)
                  THEN CB("HALF_OPEN", b.failureCount, 0, 0, b.age)
                  ELSE b

\* Mutants: Call trusts the CanExecute asked before; the last trial is refused.
RefusedOpen_Trusting(b)     == FALSE
RefusedMaxCalls_OffByOne(b) == /\ b.state = "HALF_OPEN"
                               /\ b.halfOpenCalls + 1 >= HalfOpenMaxCalls

\* The two early returns of Call, evaluated after TryHalfOpen.
RefusedOpen(b)     == b.state = "OPEN"
RefusedMaxCalls(b) == /\ b.state = "HALF_OPEN"
                      /\ b.halfOpenCalls >= HalfOpenMaxCalls

\* Call counts the calls it lets through while half-open.
Admit(b) == IF b.state = "HALF_OPEN"
            THEN [b EXCEPT !.halfOpenCalls = @ + 1]
            ELSE b

Reset(b) == CB("CLOSED", 0, 0, 0, b.age)

\* Mutant: a success while closed does not end the run of failures.
onSuccess_KeepsStreak(b) ==
    IF b.state # "HALF_OPEN" THEN b
    ELSE IF b.successCount + 1 >= SuccessThreshold
         THEN Reset(b)
         ELSE [b EXCEPT !.successCount = @ + 1]

\* SuccessThreshold successes close a half-open circuit; a success while
\* closed ends the run of failures.
onSuccess(b) ==
    IF b.state # "HALF_OPEN" THEN [b EXCEPT !.failureCount = 0]
    ELSE IF b.successCount + 1 >= SuccessThreshold
         THEN Reset(b)
         ELSE [b EXCEPT !.successCount = @ + 1]

\* Mutant: one failure more than the threshold is needed.
onFailure_OffByOne(b) ==
    CASE b.state = "CLOSED" ->
           CB(IF b.failureCount >= FailureThreshold THEN "OPEN" ELSE "CLOSED",
              b.failureCount + 1, b.successCount, b.halfOpenCalls, 0)
      [] b.state = "HALF_OPEN" -> CB("OPEN", b.failureCount, 0, 0, 0)
      [] OTHER -> [b EXCEPT !.age = 0]

\* A failure while closed counts towards the threshold; one failed trial
\* reopens a half-open circuit.  lastFailureTime is set in every state.
onFailure(b) ==
    CASE b.state = "CLOSED" ->
           CB(IF b.failureCount + 1 >= FailureThreshold THEN "OPEN" ELSE "CLOSED",
              b.failureCount + 1, b.successCount, b.halfOpenCalls, 0)
      [] b.state = "HALF_OPEN" -> CB("OPEN", b.failureCount, 0, 0, 0)
      [] OTHER -> [b EXCEPT !.age = 0]

\* The clock moves one tick.
Older(b) == IF b.age < AgeCap THEN [b EXCEPT !.age = @ + 1] ELSE b
=============================================================================
