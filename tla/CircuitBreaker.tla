---------------------------- MODULE CircuitBreaker ----------------------------
(***************************************************************************)
(* One circuit breaker shared by the goroutines that call one observer.     *)
(* A caller goes through executeGetRequest / executePostRequest of          *)
(* process/baseProcessor.go: it asks CanExecute under the read lock, lets   *)
(* the lock go, and later enters Call, which keeps the write lock while the *)
(* HTTP request is on the wire.  Between the two steps other callers, the   *)
(* clock and the reset endpoint run.                                        *)
(***************************************************************************)
EXTENDS CircuitBreakerOps

CONSTANTS Requesters,  \* goroutines serving API requests: the callers
          Free,        \* the mutex has no owner
          Answers      \* what an observer that is up answers: subset of {"ok", "error"}

ASSUME RequestersAssumption == /\ Free \notin Requesters
                               /\ Answers \subseteq {"ok", "error"}

VARIABLES
    breaker,  \* the shared CircuitBreaker object
    mutex,    \* the caller holding the write lock, or Free
    pc,       \* where each caller is
    result,   \* what each caller's last request came back with
    up,       \* external: the observer accepts connections
    fails     \* history: failed calls in a row, saturating at FailureThreshold

breakerVars == <<breaker, mutex, pc, result, up, fails>>

\* "blocked": CanExecute said no; "open", "maxCalls": Call refused;
\* "noAnswer", "error": fn failed without, or with, an answer.
Results == {"none", "ok", "error", "noAnswer", "blocked", "open", "maxCalls"}

BreakerInit == /\ breaker = NewCircuitBreaker
               /\ mutex = Free
               /\ pc = [p \in Requesters |-> "idle"]
               /\ result = [p \in Requesters |-> "none"]
               /\ up = TRUE
               /\ fails = 0
-----------------------------------------------------------------------------
Finish(p, r) == /\ pc' = [pc EXCEPT ![p] = "idle"]
                /\ result' = [result EXCEPT ![p] = r]

\* A request for this observer reaches the processor.
Request(p) ==
    /\ pc[p] = "idle"
    /\ pc' = [pc EXCEPT ![p] = "check"]
    /\ result' = [result EXCEPT ![p] = "none"]
    /\ UNCHANGED <<breaker, mutex, up, fails>>

\* The guard before the request; a false answer ends it with status 503.
CheckCanExecute(p) ==
    /\ pc[p] = "check"
    /\ mutex = Free
    /\ \/ /\ CanExecute(breaker)
          /\ pc' = [pc EXCEPT ![p] = "call"]
          /\ UNCHANGED result
       \/ /\ ~CanExecute(breaker)
          /\ Finish(p, "blocked")
    /\ UNCHANGED <<breaker, mutex, up, fails>>

\* Call refuses: the write lock is taken and released without running fn.
RefuseCall(p) ==
    LET b == TryHalfOpen(breaker)
    IN /\ pc[p] = "call"
       /\ mutex = Free
       /\ RefusedOpen(b) \/ RefusedMaxCalls(b)
       /\ Finish(p, IF RefusedOpen(b) THEN "open" ELSE "maxCalls")
       /\ breaker' = b
       /\ UNCHANGED <<mutex, up, fails>>

\* Mutant: the write lock is released before fn runs.
AdmitCall_Unlocked(p) ==
    LET b == TryHalfOpen(breaker)
    IN /\ pc[p] = "call"
       /\ mutex = Free
       /\ ~RefusedOpen(b)
       /\ ~RefusedMaxCalls(b)
       /\ breaker' = Admit(b)
       /\ pc' = [pc EXCEPT ![p] = "wire"]
       /\ UNCHANGED <<mutex, result, up, fails>>

\* Call runs fn: the request goes on the wire with the write lock held.
AdmitCall(p) ==
    LET b == TryHalfOpen(breaker)
    IN /\ pc[p] = "call"
       /\ mutex = Free
       /\ ~RefusedOpen(b)
       /\ ~RefusedMaxCalls(b)
       /\ breaker' = Admit(b)
       /\ mutex' = p
       /\ pc' = [pc EXCEPT ![p] = "wire"]
       /\ UNCHANGED <<result, up, fails>>

\* fn returned nil: status 200 and a body that parses.
SucceedCall(p) ==
    /\ pc[p] = "wire"
    /\ up
    /\ "ok" \in Answers
    /\ breaker' = onSuccess(breaker)
    /\ mutex' = Free
    /\ fails' = 0
    /\ Finish(p, "ok")
    /\ UNCHANGED up

\* fn returned an error: no answer from an observer that is down, or a status
\* other than 200 (or a body that does not parse) from one that is up.
FailCall(p) ==
    /\ pc[p] = "wire"
    /\ \/ ~up /\ Finish(p, "noAnswer")
       \/ up /\ "error" \in Answers /\ Finish(p, "error")
    /\ breaker' = onFailure(breaker)
    /\ mutex' = Free
    /\ fails' = IF fails < FailureThreshold THEN fails + 1 ELSE fails
    /\ UNCHANGED up

\* POST /circuit-breaker/reset/:observer.
ResetBreaker ==
    /\ mutex = Free
    /\ breaker' = Reset(breaker)
    /\ fails' = 0
    /\ UNCHANGED <<mutex, pc, result, up>>

\* External: time passes, the observer goes down and comes back.
Age == /\ breaker' = Older(breaker)
       /\ UNCHANGED <<mutex, pc, result, up, fails>>

Flip == /\ up' = ~up
        /\ UNCHANGED <<breaker, mutex, pc, result, fails>>

Progress(p) == \/ CheckCanExecute(p)
               \/ RefuseCall(p)
               \/ AdmitCall(p)
               \/ SucceedCall(p)
               \/ FailCall(p)

BreakerNext == \/ \E p \in Requesters : Request(p) \/ Progress(p)
               \/ ResetBreaker
               \/ Age
               \/ Flip

BreakerSpec == BreakerInit /\ [][BreakerNext]_breakerVars

\* A goroutine that can run does run, the HTTP client has a timeout, and the
\* clock advances.  Nothing forces requests to arrive.
BreakerFairness == /\ \A p \in Requesters : WF_breakerVars(Progress(p))
                   /\ WF_breakerVars(Age)

BreakerFairSpec == BreakerSpec /\ BreakerFairness
-----------------------------------------------------------------------------
(* Correctness *)

\* Every variable holds a value of its type, and no counter of the breaker
\* exceeds the configured threshold it is compared with.
BreakerTypeOK ==
    /\ breaker \in Breaker
    /\ mutex \in Requesters \cup {Free}
    /\ pc \in [Requesters -> {"idle", "check", "call", "wire"}]
    /\ result \in [Requesters -> Results]
    /\ up \in BOOLEAN
    /\ fails \in 0..FailureThreshold

\* The write lock is held by exactly the caller whose request is on the wire.
LockHeldOnWire == \A p \in Requesters : mutex = p <=> pc[p] = "wire"

\* While half-open, the calls let through are the successes so far plus the
\* one on the wire: Call serialises fn and one failure reopens the circuit.
\* In the other states both trial counters are zero.
HalfOpenAccounting ==
    IF breaker.state = "HALF_OPEN"
    THEN /\ breaker.halfOpenCalls =
                breaker.successCount + (IF mutex = Free THEN 0 ELSE 1)
         /\ breaker.successCount < SuccessThreshold \/ breaker.successCount = 0
    ELSE breaker.halfOpenCalls = 0 /\ breaker.successCount = 0

\* In a closed circuit the failure counter is the run of failures the callers
\* really saw, and it is below the threshold.
ClosedAccounting ==
    breaker.state = "CLOSED" =>
        /\ breaker.failureCount = fails
        /\ fails < FailureThreshold \/ fails = 0

\* A half-open circuit always lets a trial call through, and no request is
\* ever turned away with "half-open max calls exceeded", provided the
\* configuration allows as many trial calls as it asks successes.  (Call
\* never gives a trial slot back, so without that the circuit would wedge.)
NeverWedged ==
    (SuccessThreshold <= HalfOpenMaxCalls /\ 0 < HalfOpenMaxCalls) =>
        /\ breaker.state = "HALF_OPEN" /\ mutex = Free => CanExecute(breaker)
        /\ \A p \in Requesters : result[p] # "maxCalls"

\* A circuit never stays closed over FailureThreshold failures in a row,
\* however the callers' CanExecute and Call steps interleave.
ClosedOnShortStreak ==
    breaker.state = "CLOSED" => fails < FailureThreshold \/ fails = 0

\* A closed circuit opens only on FailureThreshold failures in a row: failures
\* from before a success, a recovery or a reset are never counted again.
OpensOnlyOnStreak ==
    [][breaker.state = "CLOSED" /\ breaker'.state = "OPEN"
           => fails' = FailureThreshold]_breakerVars

\* No request goes on the wire while the circuit is open and its recovery
\* timeout runs, even when CanExecute allowed it before the circuit opened.
StaleAdmissionRefused ==
    [][\A p \in Requesters :
           pc[p] # "wire" /\ pc'[p] = "wire"
               => ~(breaker.state = "OPEN" /\ ~Elapsed(breaker))]_breakerVars

\* If calls no longer fail and requests keep arriving, the circuit is closed
\* from some point on (CIRCUIT_BREAKER_IMPLEMENTATION.md, "Failed observers
\* automatically re-tested and restored"), with no timer of its own and
\* whatever order the callers' checks and calls take.
Arriving       == \E p \in Requesters : pc[p] = "check"
NoMoreFailures == <>[][\A p \in Requesters : ~FailCall(p)]_breakerVars
Recovery       == NoMoreFailures /\ []<>Arriving => <>[](breaker.state = "CLOSED")
=============================================================================
