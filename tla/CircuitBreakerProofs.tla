------------------------ MODULE CircuitBreakerProofs ------------------------
(***************************************************************************)
(* Proofs about the circuit breakers, for every number of callers and       *)
(* observers and every configuration of the thresholds.  The first part is  *)
(* about one breaker and the callers that share it (CircuitBreaker, with    *)
(* variables of its own), the second about the manager's map of breakers    *)
(* with its cleanup and resets (CircuitBreakerManager).                     *)
(***************************************************************************)
EXTENDS CircuitBreaker, CircuitBreakerManager, FiniteSetTheorems,
        FunctionTheorems, TLAPS
-----------------------------------------------------------------------------
(* One breaker *)

\* The inductive invariant.  The types alone are not inductive (the counters are
\* bounded only because of what the accounting parts say), and the accounting
\* parts need to know that the lock is held while a request is on the wire.
BreakerInv == /\ BreakerTypeOK
              /\ LockHeldOnWire
              /\ HalfOpenAccounting
              /\ ClosedAccounting

\* The bound of the failure counter leaves room for one failure.
LEMMA MaxFailureCountLemma ==
    /\ MaxFailureCount \in Nat /\ 1 <= MaxFailureCount
    /\ FailureThreshold <= MaxFailureCount
  BY BreakerConfig DEF MaxFailureCount

\* What resetting a breaker gives.
LEMMA ResetLemma ==
    ASSUME NEW b \in Breaker
    PROVE  /\ Reset(b) \in Breaker
           /\ Reset(b).state = "CLOSED" /\ Reset(b).failureCount = 0
           /\ Reset(b).halfOpenCalls = 0 /\ Reset(b).successCount = 0
  BY BreakerConfig, MaxFailureCountLemma DEF Reset, CB, Breaker, CircuitBreakerState

\* What onSuccess does, by the state it finds.
LEMMA OnSuccessLemma ==
    ASSUME NEW b \in Breaker
    PROVE  /\ b.state # "HALF_OPEN" =>
                 onSuccess(b) = [b EXCEPT !.failureCount = 0]
           /\ b.state = "HALF_OPEN" /\ b.successCount + 1 >= SuccessThreshold =>
                 onSuccess(b) = Reset(b)
           /\ b.state = "HALF_OPEN" /\ ~(b.successCount + 1 >= SuccessThreshold) =>
                 onSuccess(b) = [b EXCEPT !.successCount = @ + 1]
  <1>1. CASE b.state # "HALF_OPEN"
    BY <1>1 DEF onSuccess
  <1>2. CASE b.state = "HALF_OPEN" /\ b.successCount + 1 >= SuccessThreshold
    BY <1>2 DEF onSuccess
  <1>3. CASE b.state = "HALF_OPEN" /\ ~(b.successCount + 1 >= SuccessThreshold)
    BY <1>3 DEF onSuccess
  <1> QED
    BY <1>1, <1>2, <1>3

\* What onFailure does, by the state it finds.
LEMMA OnFailureLemma ==
    ASSUME NEW b \in Breaker
    PROVE  /\ b.state = "CLOSED" /\ b.failureCount + 1 >= FailureThreshold =>
                 onFailure(b) = CB("OPEN", b.failureCount + 1, b.successCount,
                                   b.halfOpenCalls, 0)
           /\ b.state = "CLOSED" /\ ~(b.failureCount + 1 >= FailureThreshold) =>
                 onFailure(b) = CB("CLOSED", b.failureCount + 1, b.successCount,
                                   b.halfOpenCalls, 0)
           /\ b.state = "HALF_OPEN" =>
                 onFailure(b) = CB("OPEN", b.failureCount, 0, 0, 0)
           /\ b.state = "OPEN" => onFailure(b) = [b EXCEPT !.age = 0]
  BY DEF onFailure, Breaker, CircuitBreakerState

\* TryHalfOpen keeps the breaker well formed when no call is on the wire.
LEMMA TryHalfOpenLemma ==
    ASSUME BreakerInv, mutex = Free, NEW b, b = TryHalfOpen(breaker)
    PROVE  /\ b \in Breaker
           /\ b.state = "CLOSED" => b = breaker
           /\ b.state = "HALF_OPEN" =>
                 /\ b.halfOpenCalls = b.successCount
                 /\ b.successCount < SuccessThreshold \/ b.successCount = 0
           /\ b.state # "HALF_OPEN" =>
                 b.halfOpenCalls = 0 /\ b.successCount = 0
  <1>1. CASE breaker.state = "OPEN" /\ Elapsed(breaker)
    <2>1. b = CB("HALF_OPEN", breaker.failureCount, 0, 0, breaker.age)
      BY <1>1 DEF TryHalfOpen
    <2> QED
      BY <2>1, BreakerConfig DEF CB, BreakerInv, BreakerTypeOK, Breaker, CircuitBreakerState
  <1>2. CASE ~(breaker.state = "OPEN" /\ Elapsed(breaker))
    <2>1. b = breaker
      BY <1>2 DEF TryHalfOpen
    <2> QED
      BY <2>1, BreakerConfig
         DEF BreakerInv, BreakerTypeOK, HalfOpenAccounting, Breaker, CircuitBreakerState
  <1> QED
    BY <1>1, <1>2

\* Initially the invariant holds.
LEMMA InitBreakerInv == BreakerInit => BreakerInv
  BY BreakerConfig, RequestersAssumption
     DEF BreakerInit, BreakerInv, BreakerTypeOK, LockHeldOnWire, HalfOpenAccounting,
         ClosedAccounting, NewCircuitBreaker, CB, Breaker, CircuitBreakerState,
         Results, MaxFailureCount

\* Every step keeps the invariant.
LEMMA NextBreakerInv == BreakerInv /\ [BreakerNext]_breakerVars => BreakerInv'
  <1> SUFFICES ASSUME BreakerInv, [BreakerNext]_breakerVars PROVE BreakerInv'
    OBVIOUS
  <1> USE BreakerConfig, RequestersAssumption
  <1>1. ASSUME NEW p \in Requesters, Request(p) PROVE BreakerInv'
    BY <1>1 DEF Request, BreakerInv, BreakerTypeOK, LockHeldOnWire, HalfOpenAccounting,
                ClosedAccounting, Results
  <1>2. ASSUME NEW p \in Requesters, CheckCanExecute(p) PROVE BreakerInv'
    BY <1>2 DEF CheckCanExecute, Finish, BreakerInv, BreakerTypeOK, LockHeldOnWire,
                HalfOpenAccounting, ClosedAccounting, Results
  <1>3. ASSUME NEW p \in Requesters, RefuseCall(p) PROVE BreakerInv'
    <2> DEFINE b == TryHalfOpen(breaker)
    <2>1. /\ mutex = Free /\ breaker' = b /\ pc[p] = "call"
          /\ UNCHANGED <<mutex, up, fails>>
          /\ pc' = [pc EXCEPT ![p] = "idle"]
          /\ result' \in [Requesters -> Results]
      BY <1>3 DEF RefuseCall, Finish, BreakerInv, BreakerTypeOK, Results
    <2>2. /\ b \in Breaker
          /\ b.state = "CLOSED" => b = breaker
          /\ b.state = "HALF_OPEN" =>
                /\ b.halfOpenCalls = b.successCount
                /\ b.successCount < SuccessThreshold \/ b.successCount = 0
          /\ b.state # "HALF_OPEN" => b.halfOpenCalls = 0 /\ b.successCount = 0
      BY <2>1, TryHalfOpenLemma
    <2> HIDE DEF b
    <2> QED
      BY <2>1, <2>2 DEF BreakerInv, BreakerTypeOK, LockHeldOnWire, HalfOpenAccounting,
                        ClosedAccounting, Breaker
  <1>4. ASSUME NEW p \in Requesters, AdmitCall(p) PROVE BreakerInv'
    <2> DEFINE b == TryHalfOpen(breaker)
    <2>1. /\ mutex = Free /\ breaker' = Admit(b) /\ mutex' = p
          /\ pc' = [pc EXCEPT ![p] = "wire"]
          /\ ~RefusedMaxCalls(b)
          /\ UNCHANGED <<result, up, fails>>
      BY <1>4 DEF AdmitCall
    <2>2. /\ b \in Breaker
          /\ b.state = "CLOSED" => b = breaker
          /\ b.state = "HALF_OPEN" =>
                /\ b.halfOpenCalls = b.successCount
                /\ b.successCount < SuccessThreshold \/ b.successCount = 0
          /\ b.state # "HALF_OPEN" => b.halfOpenCalls = 0 /\ b.successCount = 0
      BY <2>1, TryHalfOpenLemma
    <2> HIDE DEF b
    <2>3. BreakerTypeOK' /\ HalfOpenAccounting' /\ ClosedAccounting'
      BY <2>1, <2>2 DEF BreakerInv, BreakerTypeOK, HalfOpenAccounting, ClosedAccounting,
                        Admit, RefusedMaxCalls, Breaker
    <2>4. LockHeldOnWire'
      BY <2>1 DEF BreakerInv, BreakerTypeOK, LockHeldOnWire
    <2> QED
      BY <2>3, <2>4 DEF BreakerInv
  <1>5. ASSUME NEW p \in Requesters, SucceedCall(p) PROVE BreakerInv'
    <2>1. /\ mutex = p /\ mutex' = Free /\ fails' = 0 /\ up' = up
          /\ pc' = [pc EXCEPT ![p] = "idle"]
          /\ result' = [result EXCEPT ![p] = "ok"]
          /\ breaker' = onSuccess(breaker) /\ breaker \in Breaker
      BY <1>5 DEF SucceedCall, Finish, BreakerInv, LockHeldOnWire, BreakerTypeOK
    <2>2. /\ breaker' \in Breaker /\ HalfOpenAccounting' /\ ClosedAccounting'
      <3>1. CASE breaker.state # "HALF_OPEN"
        <4>1. breaker' = [breaker EXCEPT !.failureCount = 0]
          BY <2>1, <3>1, OnSuccessLemma
        <4> QED
          BY <2>1, <3>1, <4>1, MaxFailureCountLemma
             DEF BreakerInv, BreakerTypeOK, Breaker, HalfOpenAccounting, ClosedAccounting
      <3>2. CASE /\ breaker.state = "HALF_OPEN"
                 /\ breaker.successCount + 1 >= SuccessThreshold
        <4>1. breaker' = Reset(breaker)
          BY <2>1, <3>2, OnSuccessLemma
        <4> QED
          BY <2>1, <4>1, ResetLemma DEF HalfOpenAccounting, ClosedAccounting
      <3>3. CASE /\ breaker.state = "HALF_OPEN"
                 /\ ~(breaker.successCount + 1 >= SuccessThreshold)
        <4>1. breaker' = [breaker EXCEPT !.successCount = @ + 1]
          BY <2>1, <3>3, OnSuccessLemma
        <4> QED
          BY <2>1, <3>3, <4>1
             DEF BreakerInv, BreakerTypeOK, Breaker, HalfOpenAccounting, ClosedAccounting
      <3> QED
        BY <3>1, <3>2, <3>3
    <2>3. BreakerTypeOK' /\ LockHeldOnWire'
      BY <2>1, <2>2 DEF BreakerInv, BreakerTypeOK, LockHeldOnWire, Results
    <2> QED
      BY <2>2, <2>3 DEF BreakerInv
  <1>6. ASSUME NEW p \in Requesters, FailCall(p) PROVE BreakerInv'
    <2>1. /\ mutex = p /\ mutex' = Free /\ up' = up
          /\ fails' = IF fails < FailureThreshold THEN fails + 1 ELSE fails
          /\ pc' = [pc EXCEPT ![p] = "idle"]
          /\ result' \in [Requesters -> Results]
          /\ breaker' = onFailure(breaker) /\ breaker \in Breaker
      BY <1>6 DEF FailCall, Finish, BreakerInv, LockHeldOnWire, BreakerTypeOK, Results
    <2>2. /\ breaker' \in Breaker /\ HalfOpenAccounting' /\ ClosedAccounting'
      <3>1. CASE /\ breaker.state = "CLOSED"
                 /\ breaker.failureCount + 1 >= FailureThreshold
        <4>1. breaker' = CB("OPEN", breaker.failureCount + 1,
                           breaker.successCount, breaker.halfOpenCalls, 0)
          BY <2>1, <3>1, OnFailureLemma
        <4> QED
          BY <2>1, <3>1, <4>1, MaxFailureCountLemma
             DEF CB, BreakerInv, BreakerTypeOK, Breaker, CircuitBreakerState,
                 HalfOpenAccounting, ClosedAccounting
      <3>2. CASE /\ breaker.state = "CLOSED"
                 /\ ~(breaker.failureCount + 1 >= FailureThreshold)
        <4>1. breaker' = CB("CLOSED", breaker.failureCount + 1,
                           breaker.successCount, breaker.halfOpenCalls, 0)
          BY <2>1, <3>2, OnFailureLemma
        <4> QED
          BY <2>1, <3>2, <4>1, MaxFailureCountLemma
             DEF CB, BreakerInv, BreakerTypeOK, Breaker, HalfOpenAccounting, ClosedAccounting
      <3>3. CASE breaker.state = "HALF_OPEN"
        <4>1. breaker' = CB("OPEN", breaker.failureCount, 0, 0, 0)
          BY <2>1, <3>3, OnFailureLemma
        <4> QED
          BY <2>1, <4>1 DEF CB, BreakerInv, BreakerTypeOK, Breaker, CircuitBreakerState,
                            HalfOpenAccounting, ClosedAccounting
      <3>4. CASE breaker.state = "OPEN"
        <4>1. breaker' = [breaker EXCEPT !.age = 0]
          BY <2>1, <3>4, OnFailureLemma
        <4> QED
          BY <2>1, <3>4, <4>1
             DEF CB, BreakerInv, BreakerTypeOK, Breaker, HalfOpenAccounting, ClosedAccounting
      <3> QED
        BY <2>1, <3>1, <3>2, <3>3, <3>4 DEF Breaker, CircuitBreakerState
    <2>3. BreakerTypeOK' /\ LockHeldOnWire'
      BY <2>1, <2>2 DEF BreakerInv, BreakerTypeOK, LockHeldOnWire
    <2> QED
      BY <2>2, <2>3 DEF BreakerInv
  <1>7. CASE ResetBreaker
    <2>1. /\ mutex = Free /\ breaker' = Reset(breaker) /\ fails' = 0
          /\ UNCHANGED <<mutex, pc, result, up>> /\ breaker \in Breaker
      BY <1>7 DEF ResetBreaker, BreakerInv, BreakerTypeOK
    <2> QED
      BY <2>1, ResetLemma DEF BreakerInv, BreakerTypeOK, LockHeldOnWire,
         HalfOpenAccounting, ClosedAccounting
  <1>8. CASE Age
    BY <1>8 DEF Age, Older, BreakerInv, BreakerTypeOK, LockHeldOnWire,
       HalfOpenAccounting, ClosedAccounting, Breaker
  <1>9. CASE Flip
    BY <1>9 DEF Flip, BreakerInv, BreakerTypeOK, LockHeldOnWire, HalfOpenAccounting,
       ClosedAccounting
  <1>10. CASE UNCHANGED breakerVars
    BY <1>10 DEF breakerVars, BreakerInv, BreakerTypeOK, LockHeldOnWire, HalfOpenAccounting,
       ClosedAccounting
  <1> QED
    BY <1>1, <1>2, <1>3, <1>4, <1>5, <1>6, <1>7, <1>8, <1>9, <1>10
       DEF BreakerNext, Progress

\* The invariant holds in every reachable state.
THEOREM BreakerInvariance == BreakerSpec => []BreakerInv
  BY InitBreakerInv, NextBreakerInv, PTL DEF BreakerSpec

\* The trial calls of a half-open circuit are its successes and the call on the
\* wire, so no trial is lost or counted twice, for any number of callers.
THEOREM TrialsAreAccountedFor == BreakerSpec => []HalfOpenAccounting
  <1>1. BreakerInv => HalfOpenAccounting
    BY DEF BreakerInv
  <1> QED
    BY BreakerInvariance, <1>1, PTL

\* The breaker and its callers keep their types, and no counter passes the
\* threshold it is compared with.
THEOREM BreakerTypeCorrect == BreakerSpec => []BreakerTypeOK
  <1>1. BreakerInv => BreakerTypeOK
    BY DEF BreakerInv
  <1> QED
    BY BreakerInvariance, <1>1, PTL

\* With as many trials allowed as successes asked for, Call never answers that
\* the trial budget is spent.
TrialsSuffice == SuccessThreshold <= HalfOpenMaxCalls /\ 0 < HalfOpenMaxCalls
NoMaxCalls == \A p \in Requesters : result[p] # "maxCalls"

LEMMA NoMaxCallsStep ==
    ASSUME TrialsSuffice, BreakerInv, NoMaxCalls, [BreakerNext]_breakerVars
    PROVE  NoMaxCalls'
  <1> USE DEF NoMaxCalls
  <1>1. ASSUME NEW p \in Requesters, Request(p) PROVE NoMaxCalls'
    BY <1>1 DEF Request, BreakerInv, BreakerTypeOK
  <1>2. ASSUME NEW p \in Requesters, CheckCanExecute(p) PROVE NoMaxCalls'
    BY <1>2 DEF CheckCanExecute, Finish, BreakerInv, BreakerTypeOK
  <1>3. ASSUME NEW p \in Requesters, RefuseCall(p) PROVE NoMaxCalls'
    <2> DEFINE b == TryHalfOpen(breaker)
    <2>1. mutex = Free
      BY <1>3 DEF RefuseCall
    <2>2. /\ b \in Breaker
          /\ b.state = "HALF_OPEN" =>
                /\ b.halfOpenCalls = b.successCount
                /\ b.successCount < SuccessThreshold \/ b.successCount = 0
      BY <2>1, TryHalfOpenLemma
    <2> HIDE DEF b
    <2>3. ~RefusedMaxCalls(b)
      BY <2>2, BreakerConfig DEF RefusedMaxCalls, TrialsSuffice, Breaker
    <2>4. result' = [result EXCEPT ![p] = "open"]
      BY <1>3, <2>3 DEF RefuseCall, Finish, b
    <2> QED
      BY <2>4 DEF BreakerInv, BreakerTypeOK
  <1>4. ASSUME NEW p \in Requesters, AdmitCall(p) PROVE NoMaxCalls'
    BY <1>4 DEF AdmitCall
  <1>5. ASSUME NEW p \in Requesters, SucceedCall(p) PROVE NoMaxCalls'
    BY <1>5 DEF SucceedCall, Finish, BreakerInv, BreakerTypeOK
  <1>6. ASSUME NEW p \in Requesters, FailCall(p) PROVE NoMaxCalls'
    BY <1>6 DEF FailCall, Finish, BreakerInv, BreakerTypeOK
  <1>7. CASE ResetBreaker \/ Age \/ Flip \/ UNCHANGED breakerVars
    BY <1>7 DEF ResetBreaker, Age, Flip, breakerVars
  <1> QED
    BY <1>1, <1>2, <1>3, <1>4, <1>5, <1>6, <1>7 DEF BreakerNext, Progress

\* A half-open circuit never runs out of trial calls, whatever the number of
\* callers: NeverWedged holds in every reachable state.
THEOREM BreakerNeverWedges == BreakerSpec => []NeverWedged
  <1>1. CASE TrialsSuffice
    <2>1. BreakerInit => NoMaxCalls
      BY DEF BreakerInit, NoMaxCalls
    <2>2. BreakerInv /\ NoMaxCalls /\ [BreakerNext]_breakerVars => NoMaxCalls'
      BY <1>1, NoMaxCallsStep
    <2>3. BreakerInv /\ NoMaxCalls => NeverWedged
      BY <1>1, BreakerConfig
         DEF BreakerInv, BreakerTypeOK, HalfOpenAccounting, NoMaxCalls, NeverWedged,
             CanExecute, Breaker, TrialsSuffice
    <2> QED
      BY <2>1, <2>2, <2>3, BreakerInvariance, PTL DEF BreakerSpec
  <1>2. CASE ~TrialsSuffice
    <2>1. NeverWedged
      BY <1>2 DEF NeverWedged, TrialsSuffice
    <2> QED
      BY <2>1, PTL
  <1> QED
    BY <1>1, <1>2

\* A circuit is never left closed after FailureThreshold failures in a row.
THEOREM StreakOpensCircuit == BreakerSpec => []ClosedOnShortStreak
  <1>1. BreakerInv => ClosedOnShortStreak
    BY DEF BreakerInv, ClosedAccounting, ClosedOnShortStreak
  <1> QED
    BY BreakerInvariance, <1>1, PTL

\* A closed circuit opens only after FailureThreshold failures in a row.
THEOREM OpeningNeedsStreak == BreakerSpec => OpensOnlyOnStreak
  <1> DEFINE A == breaker.state = "CLOSED" /\ breaker'.state = "OPEN"
                      => fails' = FailureThreshold
  <1>1. ASSUME BreakerInv, [BreakerNext]_breakerVars, breaker.state = "CLOSED",
               breaker'.state = "OPEN"
        PROVE  fails' = FailureThreshold
    <2>1. ASSUME NEW p \in Requesters, FailCall(p)
          PROVE  fails' = FailureThreshold
      <3>1. /\ breaker' = onFailure(breaker) /\ breaker \in Breaker
            /\ fails' = IF fails < FailureThreshold THEN fails + 1 ELSE fails
            /\ fails \in 0..FailureThreshold /\ breaker.failureCount = fails
        BY <1>1, <2>1 DEF FailCall, BreakerInv, BreakerTypeOK, ClosedAccounting
      <3>2. breaker.failureCount + 1 >= FailureThreshold
        BY <1>1, <3>1, OnFailureLemma DEF CB
      <3> QED
        BY <3>1, <3>2, BreakerConfig
    <2>2. ASSUME NEW p \in Requesters, SucceedCall(p) PROVE FALSE
      BY <1>1, <2>2, OnSuccessLemma DEF SucceedCall, BreakerInv, BreakerTypeOK, Breaker
    <2>3. ASSUME NEW p \in Requesters, RefuseCall(p) \/ AdmitCall(p) PROVE FALSE
      BY <1>1, <2>3 DEF RefuseCall, AdmitCall, TryHalfOpen, Admit
    <2>4. CASE ResetBreaker
      BY <1>1, <2>4 DEF ResetBreaker, Reset, CB
    <2>5. CASE Age
      BY <1>1, <2>5 DEF Age, Older, BreakerInv, BreakerTypeOK, Breaker
    <2>6. ASSUME NEW p \in Requesters, Request(p) \/ CheckCanExecute(p) PROVE FALSE
      BY <1>1, <2>6 DEF Request, CheckCanExecute
    <2>7. CASE Flip \/ UNCHANGED breakerVars
      BY <1>1, <2>7 DEF Flip, breakerVars
    <2> QED
      BY <1>1, <2>1, <2>2, <2>3, <2>4, <2>5, <2>6, <2>7 DEF BreakerNext, Progress
  <1>2. BreakerInv /\ [BreakerNext]_breakerVars => [A]_breakerVars
    BY <1>1
  <1> QED
    BY BreakerInvariance, <1>2, PTL DEF BreakerSpec, OpensOnlyOnStreak

\* No request reaches an observer whose circuit is open and still timing out.
THEOREM StaleAdmissionsAreRefused == BreakerSpec => StaleAdmissionRefused
  <1> DEFINE A == \A p \in Requesters :
                      pc[p] # "wire" /\ pc'[p] = "wire"
                          => ~(breaker.state = "OPEN" /\ ~Elapsed(breaker))
  <1>1. ASSUME BreakerTypeOK, [BreakerNext]_breakerVars, NEW q \in Requesters, pc[q] # "wire",
               pc'[q] = "wire", breaker.state = "OPEN", ~Elapsed(breaker)
        PROVE  FALSE
    <2>1. ASSUME NEW p \in Requesters, AdmitCall(p) PROVE FALSE
      BY <1>1, <2>1 DEF AdmitCall, TryHalfOpen, RefusedOpen
    <2>2. ASSUME NEW p \in Requesters,
                 \/ Request(p) \/ CheckCanExecute(p) \/ RefuseCall(p)
                 \/ SucceedCall(p) \/ FailCall(p)
          PROVE FALSE
      BY <1>1, <2>2 DEF Request, CheckCanExecute, RefuseCall, SucceedCall,
                        FailCall, Finish, BreakerTypeOK
    <2>3. CASE ResetBreaker \/ Age \/ Flip \/ UNCHANGED breakerVars
      BY <1>1, <2>3 DEF ResetBreaker, Age, Flip, breakerVars
    <2> QED
      BY <1>1, <2>1, <2>2, <2>3 DEF BreakerNext, Progress
  <1>2. BreakerTypeOK /\ [BreakerNext]_breakerVars => [A]_breakerVars
    BY <1>1
  <1> QED
    BY BreakerTypeCorrect, <1>2, PTL DEF BreakerSpec, StaleAdmissionRefused
-----------------------------------------------------------------------------
(* The manager *)

\* A breaker whose counter leaves room for one failure while it is closed.
Sane == {b \in Breaker : b.state = "CLOSED" => b.failureCount < MaxFailureCount}

\* The cleaner holds the map's write lock while it works, and nobody else then
\* loops over the map.
Locks == /\ cleaner.pc = "idle" <=> ~mgrWriter
         /\ MgrReader => ~mgrWriter

\* Every observer has a breaker of its own; a dropped one is not in the map, and
\* is remembered only while somebody holds it.
Map == /\ \A a, b \in Observers : breakers[a] = breakers[b] /\ breakers[a] # None => a = b
       /\ \A a \in Observers : breakers[a] \notin removed
       /\ removed \subseteq Referenced

\* A caller holds a breaker from its lookup on, and a reset while it lasts.
References ==
    /\ \A p \in Callers : /\ caller[p].pc # "idle" => caller[p].at \in Observers
                          /\ caller[p].ref # None <=>
                                caller[p].pc \in {"check", "call", "wire", "report"}
    /\ OneBreakerPerObserver
    /\ admin.kind = "resetOne" <=> admin.ref # None

\* The loops over the map meet only entries that exist.
Loops ==
    /\ MgrReader => \A a \in admin.todo : breakers[a] # None
    /\ cleaner.pc # "idle" => \A a \in cleaner.todo : breakers[a] # None
    /\ cleaner.pc \in {"count", "time", "delete"} =>
          cleaner.at \in Observers \ cleaner.todo /\ breakers[cleaner.at] # None

\* What the cleaner read of a breaker that had been without failure for long is
\* still true of it.
Reads ==
    cleaner.pc \in {"count", "time"} /\ breakers[cleaner.at] \in cleaner.stale =>
        /\ obj[breakers[cleaner.at]].state = "CLOSED"
        /\ cleaner.pc = "time" => obj[breakers[cleaner.at]].failureCount = 0

\* A closed breaker has counted every failure of the running streak.
Counts ==
    \A a \in Observers :
        /\ breakers[a] = None => streak[a] = 0
        /\ breakers[a] # None /\ obj[breakers[a]].state = "CLOSED" =>
              streak[a] <= obj[breakers[a]].failureCount

IndInv == /\ TypeOK
          /\ \A i \in Ids : obj[i] \in Sane
          /\ Locks /\ Map /\ References /\ Loops /\ Reads /\ Counts
-----------------------------------------------------------------------------
LEMMA NewFacts ==
    /\ NewCircuitBreaker \in Sane
    /\ NewCircuitBreaker.state = "CLOSED" /\ NewCircuitBreaker.failureCount = 0
  BY BreakerConfig, MaxFailureCountLemma
     DEF NewCircuitBreaker, CB, Breaker, CircuitBreakerState, Sane

LEMMA ResetFacts ==
    ASSUME NEW b \in Sane
    PROVE  Reset(b) \in Sane /\ Reset(b).state = "CLOSED" /\ Reset(b).failureCount = 0
  BY BreakerConfig, MaxFailureCountLemma DEF Reset, CB, Breaker, CircuitBreakerState, Sane

LEMMA OlderFacts ==
    ASSUME NEW b \in Sane
    PROVE  /\ Older(b) \in Sane
           /\ Older(b).state = b.state /\ Older(b).failureCount = b.failureCount
  BY BreakerConfig DEF Older, Breaker, Sane

\* Entering Call never closes a circuit, and leaves a closed one alone.
LEMMA EnterFacts ==
    ASSUME NEW b \in Sane
    PROVE  /\ TryHalfOpen(b) \in Sane
           /\ b.state = "CLOSED" => TryHalfOpen(b) = b
           /\ TryHalfOpen(b).state = "CLOSED" => b.state = "CLOSED"
           /\ ~RefusedMaxCalls(b) => Admit(b) \in Sane
           /\ b.state = "CLOSED" => Admit(b) = b
           /\ Admit(b).state = b.state
  BY BreakerConfig, MaxFailureCountLemma
     DEF TryHalfOpen, Admit, RefusedMaxCalls, CB, Breaker, CircuitBreakerState, Sane

LEMMA SuccessFacts ==
    ASSUME NEW b \in Sane
    PROVE  /\ onSuccess(b) \in Sane
           /\ b.state = "CLOSED" => onSuccess(b).state = "CLOSED"
           /\ onSuccess(b).state = "CLOSED" => onSuccess(b).failureCount = 0
<1>1. CASE b.state # "HALF_OPEN"
  BY <1>1, BreakerConfig, MaxFailureCountLemma DEF onSuccess, Breaker, CircuitBreakerState, Sane
<1>2. CASE b.state = "HALF_OPEN" /\ b.successCount + 1 >= SuccessThreshold
  BY <1>2, ResetFacts DEF onSuccess
<1>3. CASE b.state = "HALF_OPEN" /\ ~(b.successCount + 1 >= SuccessThreshold)
  BY <1>3, BreakerConfig, MaxFailureCountLemma DEF onSuccess, Breaker, CircuitBreakerState, Sane
<1> QED
  BY <1>1, <1>2, <1>3

LEMMA FailureFacts ==
    ASSUME NEW b \in Sane
    PROVE  /\ onFailure(b) \in Sane
           /\ onFailure(b).state = "CLOSED" =>
                 b.state = "CLOSED" /\ onFailure(b).failureCount = b.failureCount + 1
<1>1. CASE b.state = "CLOSED"
  BY <1>1, BreakerConfig, MaxFailureCountLemma
     DEF onFailure, CB, Breaker, CircuitBreakerState, Sane, MaxFailureCount
<1>2. CASE b.state = "HALF_OPEN"
  BY <1>2, BreakerConfig, MaxFailureCountLemma DEF onFailure, CB, Breaker, CircuitBreakerState, Sane
<1>3. CASE b.state = "OPEN"
  BY <1>3, BreakerConfig, MaxFailureCountLemma DEF onFailure, Breaker, CircuitBreakerState, Sane
<1> QED
  BY <1>1, <1>2, <1>3 DEF Sane, Breaker, CircuitBreakerState

\* The image of a finite set under a function is no larger.
LEMMA ImageBound ==
    ASSUME NEW S, IsFiniteSet(S), NEW f, S \subseteq DOMAIN f
    PROVE  /\ IsFiniteSet({f[x] : x \in S})
           /\ Cardinality({f[x] : x \in S}) <= Cardinality(S)
<1> DEFINE T == {f[x] : x \in S}
           g == [x \in S |-> f[x]]
<1>1. g \in Surjection(S, T)
  BY Zenon DEF Surjection
<1> HIDE DEF g, T
<1>2. IsFiniteSet(T) /\ Cardinality(T) <= Cardinality(S)
  BY <1>1, FS_Surjection
<1> QED
  BY <1>2 DEF T

\* A caller that has to create a breaker finds an identity nobody uses: there
\* are fewer entries and references than identities.
LEMMA FreshIdentity ==
    ASSUME TypeOK, NEW p \in Callers, caller[p].ref = None,
           NEW a \in Observers, breakers[a] = None
    PROVE  NewId \in Unused
<1> DEFINE O == Observers \ {a}
           C == Callers \ {p}
           M == {breakers[b] : b \in O}
           refs == [q \in Callers |-> caller[q].ref]
           R == {refs[q] : q \in C}
<1>1. /\ IsFiniteSet(O) /\ Cardinality(O) = Cardinality(Observers) - 1
      /\ IsFiniteSet(C) /\ Cardinality(C) = Cardinality(Callers) - 1
      /\ Cardinality(Observers) \in Nat /\ Cardinality(Callers) \in Nat
      /\ Cardinality(O) \in Nat /\ Cardinality(C) \in Nat
      /\ Cardinality(Ids) \in Nat
  <2>1. IsFiniteSet(Observers) /\ IsFiniteSet(Callers) /\ IsFiniteSet(Ids)
    BY ManagerConfig
  <2>2. IsFiniteSet(O) /\ Cardinality(O) = Cardinality(Observers) - 1
    BY <2>1, FS_RemoveElement
  <2>3. IsFiniteSet(C) /\ Cardinality(C) = Cardinality(Callers) - 1
    BY <2>1, FS_RemoveElement
  <2> HIDE DEF O, C
  <2> QED BY <2>1, <2>2, <2>3, FS_CardinalityType
<1>2. IsFiniteSet(M) /\ Cardinality(M) <= Cardinality(O) /\ Cardinality(M) \in Nat
  <2>1. O \subseteq DOMAIN breakers
    BY DEF TypeOK
  <2>2. IsFiniteSet(M) /\ Cardinality(M) <= Cardinality(O)
    <3> HIDE DEF O
    <3> QED BY <1>1, <2>1, ImageBound
  <2> QED BY <2>2, FS_CardinalityType
<1>3. IsFiniteSet(R) /\ Cardinality(R) <= Cardinality(C) /\ Cardinality(R) \in Nat
  <2>1. C \subseteq DOMAIN refs
    OBVIOUS
  <2> HIDE DEF refs
  <2> QED BY <1>1, <2>1, ImageBound, FS_CardinalityType
<1>4. IsFiniteSet(R \cup {admin.ref}) /\ Cardinality(R \cup {admin.ref}) <= Cardinality(Callers)
      /\ Cardinality(R \cup {admin.ref}) \in Nat
  <2> HIDE DEF R, C
  <2>1. /\ IsFiniteSet(R \cup {admin.ref})
        /\ Cardinality(R \cup {admin.ref}) <= Cardinality(R) + 1
    BY <1>3, FS_AddElement
  <2>2. Cardinality(R \cup {admin.ref}) \in Nat
    BY <2>1, FS_CardinalityType
  <2> QED BY <1>1, <1>3, <2>1, <2>2
<1> DEFINE U == M \cup (R \cup {admin.ref})
<1>5. IsFiniteSet(U) /\ Cardinality(U) < Cardinality(Ids)
  <2>1. Cardinality(M \cap (R \cup {admin.ref})) \in Nat
    BY <1>2, FS_Intersection, FS_CardinalityType
  <2> DEFINE S == R \cup {admin.ref}
  <2>2. /\ IsFiniteSet(M \cup S)
        /\ Cardinality(M \cup S) = Cardinality(M) + Cardinality(S) - Cardinality(M \cap S)
    <3> HIDE DEF M, S
    <3> QED BY <1>2, <1>4, FS_Union DEF S
  <2>3. Cardinality(Ids) >= Cardinality(Observers) + Cardinality(Callers)
    BY ManagerConfig
  <2> HIDE DEF M, R, O, C
  <2> QED BY <1>1, <1>2, <1>4, <2>1, <2>2, <2>3
<1>6. Mapped \cup Referenced \subseteq U
  BY DEF Mapped, Referenced
<1>7. \E i \in Ids : i \notin U
  <2> HIDE DEF U
  <2>1. SUFFICES ASSUME Ids \subseteq U PROVE FALSE
    OBVIOUS
  <2>2. Cardinality(Ids) <= Cardinality(U)
    BY <1>5, <2>1, FS_Subset
  <2>3. Cardinality(U) \in Nat
    BY <1>5, FS_CardinalityType
  <2> QED BY <1>1, <1>5, <2>2, <2>3
<1>8. \E i : i \in Unused
  BY <1>6, <1>7 DEF Unused
<1> QED
  BY <1>8 DEF NewId
-----------------------------------------------------------------------------
Stages == {"idle", "find", "create", "check", "findAgain", "createAgain",
           "call", "wire", "report"}
CallerRecord == [pc : Stages, at : Observers \cup {None}, ref : Ids \cup {None}]
CleanerRecord == [pc : {"idle", "state", "count", "time", "delete"},
                  todo : SUBSET Observers, at : Observers \cup {None},
                  stale : SUBSET Ids, late : SUBSET Callers]

LEMMA InitIndInv == Init => IndInv
<1> SUFFICES ASSUME Init PROVE IndInv
  OBVIOUS
<1> USE DEF Init
<1>1. TypeOK
  <2>1. obj \in [Ids -> Breaker] /\ streak \in [Observers -> 0..MaxFailureCount]
    BY MaxFailureCountLemma, NewFacts DEF Sane
  <2>2. /\ caller \in [Callers -> [pc : {"idle", "find", "create", "check", "findAgain",
                                     "createAgain", "call", "wire", "report"},
                               at : Observers \cup {None},
                               ref : Ids \cup {None}]]
        /\ \A p \in Callers : caller[p].pc = "idle"
    BY DEF IdleCaller
  <2>3. /\ cleaner \in CleanerRecord
        /\ admin \in [kind : {"idle", "resetOne", "resetAll", "stats"},
                      todo : SUBSET Observers, ref : Ids \cup {None}]
    BY DEF IdleCleaner, IdleAdmin, CleanerRecord
  <2> QED BY <2>1, <2>2, <2>3 DEF TypeOK, CleanerRecord
<1>2. \A i \in Ids : obj[i] \in Sane
  BY NewFacts
<1>3. Locks /\ Map /\ References /\ Loops /\ Reads /\ Counts
  BY DEF Locks, Map, References, OneBreakerPerObserver, Loops, Reads, Counts,
         MgrReader, IdleCaller, IdleCleaner, IdleAdmin
<1> QED BY <1>1, <1>2, <1>3 DEF IndInv

\* A caller's program counter and breaker change; the record keeps its type.
LEMMA CallerMoves ==
    ASSUME NEW c \in [Callers -> CallerRecord], NEW p \in Callers,
           NEW l \in Stages, NEW r \in Ids \cup {None}
    PROVE  [c EXCEPT ![p].pc = l, ![p].ref = r] \in [Callers -> CallerRecord]
  <1>1. [c[p] EXCEPT !.pc = l, !.ref = r] \in CallerRecord
    BY DEF CallerRecord
  <1>2. [c EXCEPT ![p].pc = l, ![p].ref = r] = [c EXCEPT ![p] = [c[p] EXCEPT !.pc = l, !.ref = r]]
    OBVIOUS
  <1> QED BY <1>1, <1>2

LEMMA ArriveStep ==
    ASSUME IndInv, NEW p \in Callers, NEW a \in Observers, Arrive(p, a)
    PROVE  IndInv'
<1> USE DEF IndInv, Arrive
<1>1. TypeOK'
  BY DEF TypeOK
<1>2. References'
  BY DEF References, OneBreakerPerObserver, TypeOK
<1>3. Map'
  BY DEF Map, Referenced, References, TypeOK
<1> QED
  BY <1>1, <1>2, <1>3 DEF Locks, MgrReader, Loops, Reads, Counts

LEMMA FindStep ==
    ASSUME IndInv, NEW p \in Callers, Find(p)
    PROVE  IndInv'
<1> USE DEF IndInv
<1> DEFINE i == breakers[caller[p].at]
           l == IF i # None THEN AfterLookup(caller[p].pc)
                ELSE IF caller[p].pc = "find" THEN "create" ELSE "createAgain"
<1>0. /\ caller[p].pc \in {"find", "findAgain"} /\ caller[p].at \in Observers
      /\ i \in Ids \cup {None} /\ caller[p].ref = None
      /\ l \in {"check", "call", "create", "createAgain"}
      /\ l \in {"check", "call"} <=> i # None
      /\ caller' = [caller EXCEPT ![p].pc = l, ![p].ref = i]
      /\ UNCHANGED <<breakers, obj, owner, mgrWriter, cleaner, admin, removed, streak>>
  BY DEF Find, AfterLookup, TypeOK, References
<1>9. None \notin Ids
  BY ManagerConfig
<1> HIDE DEF l
<1> USE <1>0, <1>9
<1>1. TypeOK'
  <2>1. caller' \in [Callers -> CallerRecord]
    <3>1. caller \in [Callers -> CallerRecord] /\ l \in Stages
      BY DEF TypeOK, CallerRecord, Stages
    <3> HIDE DEF i
    <3> QED BY <3>1, CallerMoves
  <2>2. \A q \in Callers : caller'[q].pc \in {"check", "call", "wire", "report"}
                              => caller'[q].ref \in Ids
    BY DEF TypeOK
  <2> QED
    BY <2>1, <2>2 DEF TypeOK, CallerRecord, Stages
<1>2. References'
  BY DEF References, OneBreakerPerObserver, TypeOK
<1>3. Map'
  BY DEF Map, Referenced, References, TypeOK
<1> QED
  BY <1>1, <1>2, <1>3 DEF Locks, MgrReader, Loops, Reads, Counts

LEMMA CreateStep ==
    ASSUME IndInv, NEW p \in Callers, Create(p)
    PROVE  IndInv'
<1> USE DEF IndInv
<1> DEFINE a == caller[p].at
<1>0. a \in Observers /\ caller[p].ref = None
  BY DEF Create, References, TypeOK
<1>1. CASE breakers[a] # None
  <2> USE <1>0, <1>1 DEF Create, AfterLookup
  <2>1. TypeOK'
    BY DEF TypeOK, References
  <2>2. References'
    BY DEF References, OneBreakerPerObserver, TypeOK
  <2>3. Map'
    BY DEF Map, Referenced, References, TypeOK
  <2> QED
    BY <2>1, <2>2, <2>3 DEF Locks, MgrReader, Loops, Reads, Counts
<1>2. CASE breakers[a] = None
  <2> DEFINE i == NewId
  <2>1. i \in Ids /\ i \notin Mapped /\ i \notin Referenced /\ i # None
    BY <1>0, <1>2, FreshIdentity, ManagerConfig DEF Unused
  <2> HIDE DEF i
  <2>2. /\ caller[p].pc \in {"create", "createAgain"} /\ ~mgrWriter /\ ~MgrReader
        /\ breakers' = [breakers EXCEPT ![a] = i]
        /\ obj' = [obj EXCEPT ![i] = NewCircuitBreaker]
        /\ caller' = [caller EXCEPT ![p].ref = i, ![p].pc = AfterLookup(@)]
        /\ UNCHANGED <<owner, mgrWriter, cleaner, admin, removed, streak>>
    BY <1>2 DEF Create, i
  <2>3. \A b \in Observers : breakers[b] # i
    BY <2>1 DEF Mapped
  <2>4. i \notin removed
    BY <2>1 DEF Map
  <2> USE <1>0, <1>2, <2>1, <2>2
  <2>5. TypeOK' /\ \A j \in Ids : obj'[j] \in Sane
    BY NewFacts DEF TypeOK, Sane, AfterLookup
  <2>6. Map'
    <3>1. removed \subseteq Referenced'
      BY DEF Map, Referenced, TypeOK
    <3> QED BY <2>3, <2>4, <3>1 DEF Map, TypeOK
  <2>7. References'
    BY <2>3 DEF References, OneBreakerPerObserver, TypeOK, AfterLookup
  <2>8. Locks' /\ Loops' /\ Reads'
    BY DEF Locks, Loops, Reads, MgrReader
  <2>9. Counts'
    BY <2>3, NewFacts DEF Counts, TypeOK
  <2> QED
    BY <2>5, <2>6, <2>7, <2>8, <2>9
<1> QED
  BY <1>1, <1>2

\* Caller p lets its breaker go, the objects being o: the map's breakers are
\* those of o, and whoever else holds a dropped one still finds it.
LEMMA ForgetStep ==
    ASSUME IndInv, NEW p \in Callers, NEW o \in [Ids -> Sane], Forget(p, o),
           UNCHANGED <<breakers, admin>>,
           caller' \in [Callers -> CallerRecord],
           \A q \in Callers : q # p => caller'[q] = caller[q],
           caller'[p].ref = None, caller'[p].pc \in {"idle", "findAgain"},
           caller'[p].pc # "idle" => caller'[p].at \in Observers
    PROVE  /\ Map' /\ References'
           /\ obj' \in [Ids -> Breaker] /\ \A i \in Ids : obj'[i] \in Sane
           /\ removed' \subseteq Ids
           /\ \A a \in Observers : breakers[a] # None => obj'[breakers[a]] = o[breakers[a]]
           /\ \A q \in Callers : caller'[q].pc \in {"check", "call", "wire", "report"}
                                    => caller'[q].ref \in Ids
<1> USE DEF IndInv
<1>1. /\ removed' = removed \cap HeldByOthers(p)
      /\ obj' = Collect(o, Mapped \cup {caller[q].ref : q \in Callers \ {p}})
  BY DEF Forget
<1>2. obj' \in [Ids -> Breaker] /\ \A i \in Ids : obj'[i] \in Sane
  BY <1>1, NewFacts DEF Collect, Sane
<1>3. \A a \in Observers : breakers[a] # None => obj'[breakers[a]] = o[breakers[a]]
  BY <1>1 DEF Collect, Mapped, TypeOK
<1>4. removed' \subseteq Ids /\ removed' \subseteq removed
  BY <1>1 DEF TypeOK
<1>5. removed' \subseteq Referenced'
  BY <1>1 DEF Referenced, HeldByOthers, TypeOK, Map
<1>6. Map'
  BY <1>4, <1>5 DEF Map
<1>7. \A q \in Callers : q # p /\ caller[q].ref \in removed => caller[q].ref \in removed'
  BY <1>1 DEF HeldByOthers
<1>8. References'
  BY <1>7 DEF References, OneBreakerPerObserver
<1> QED
  BY <1>2, <1>3, <1>4, <1>6, <1>8 DEF TypeOK

LEMMA CheckStep ==
    ASSUME IndInv, NEW p \in Callers, Check(p)
    PROVE  IndInv'
<1> USE DEF IndInv
<1>1. /\ Forget(p, obj)
      /\ UNCHANGED <<breakers, owner, mgrWriter, cleaner, admin, streak>>
      /\ \/ caller' = [caller EXCEPT ![p].pc = "findAgain", ![p].ref = None]
         \/ caller' = [caller EXCEPT ![p] = IdleCaller]
  BY DEF Check, Return
<1>2. caller \in [Callers -> CallerRecord] /\ caller[p].at \in Observers
  BY DEF Check, References, TypeOK, CallerRecord, Stages
<1>3. /\ caller' \in [Callers -> CallerRecord]
      /\ \A q \in Callers : q # p => caller'[q] = caller[q]
      /\ caller'[p].ref = None /\ caller'[p].pc \in {"idle", "findAgain"}
      /\ caller'[p].pc # "idle" => caller'[p].at \in Observers
  BY <1>1, <1>2 DEF IdleCaller, CallerRecord, Stages
<1>4. obj \in [Ids -> Sane]
  BY DEF TypeOK
<1> HIDE DEF IndInv
<1>5. /\ Map' /\ References'
      /\ obj' \in [Ids -> Breaker] /\ \A i \in Ids : obj'[i] \in Sane
      /\ removed' \subseteq Ids
      /\ \A a \in Observers : breakers[a] # None => obj'[breakers[a]] = obj[breakers[a]]
      /\ \A q \in Callers : caller'[q].pc \in {"check", "call", "wire", "report"}
                                    => caller'[q].ref \in Ids
  BY <1>1, <1>3, <1>4, ForgetStep
<1> USE DEF IndInv
<1>6. TypeOK'
  BY <1>1, <1>3, <1>5 DEF TypeOK, CallerRecord, Stages
<1>7. Locks' /\ Loops'
  BY <1>1 DEF Locks, Loops, MgrReader
<1>8. Reads' /\ Counts'
  BY <1>1, <1>5 DEF Reads, Counts, Loops
<1> QED BY <1>5, <1>6, <1>7, <1>8

LEMMA ReportStep ==
    ASSUME IndInv, NEW p \in Callers, Report(p)
    PROVE  IndInv'
<1> USE DEF IndInv
<1>1. /\ Forget(p, obj)
      /\ UNCHANGED <<breakers, owner, mgrWriter, cleaner, admin, streak>>
      /\ caller' = [caller EXCEPT ![p] = IdleCaller]
  BY DEF Report, Return
<1>2. caller \in [Callers -> CallerRecord] /\ obj \in [Ids -> Sane]
  BY DEF TypeOK, CallerRecord, Stages
<1>3. /\ caller' \in [Callers -> CallerRecord]
      /\ \A q \in Callers : q # p => caller'[q] = caller[q]
      /\ caller'[p].ref = None /\ caller'[p].pc = "idle"
  BY <1>1, <1>2 DEF IdleCaller, CallerRecord, Stages
<1> HIDE DEF IndInv
<1>5. /\ Map' /\ References'
      /\ obj' \in [Ids -> Breaker] /\ \A i \in Ids : obj'[i] \in Sane
      /\ removed' \subseteq Ids
      /\ \A a \in Observers : breakers[a] # None => obj'[breakers[a]] = obj[breakers[a]]
      /\ \A q \in Callers : caller'[q].pc \in {"check", "call", "wire", "report"}
                                    => caller'[q].ref \in Ids
  BY <1>1, <1>2, <1>3, ForgetStep
<1> USE DEF IndInv
<1>6. TypeOK'
  BY <1>1, <1>3, <1>5 DEF TypeOK, CallerRecord, Stages
<1>7. Locks' /\ Loops'
  BY <1>1 DEF Locks, Loops, MgrReader
<1>8. Reads' /\ Counts'
  BY <1>1, <1>5 DEF Reads, Counts, Loops
<1> QED BY <1>5, <1>6, <1>7, <1>8

\* Whose breaker a caller holds: if it is in the map at all, its observer's.
LEMMA HeldEntry ==
    ASSUME IndInv, NEW p \in Callers, caller[p].ref # None,
           NEW a \in Observers, breakers[a] = caller[p].ref
    PROVE  caller[p].at = a
BY DEF IndInv, References, OneBreakerPerObserver, Map

LEMMA SuccessStep ==
    ASSUME IndInv, NEW p \in Callers, CallSucceeds(p)
    PROVE  IndInv'
<1> USE DEF IndInv
<1> DEFINE i == caller[p].ref
           o == [obj EXCEPT ![i] = onSuccess(@)]
<1>0. i \in Ids /\ i # None /\ caller[p].at \in Observers
  BY DEF CallSucceeds, TypeOK, References
<1>1. /\ Forget(p, o)
      /\ owner' = [owner EXCEPT ![i] = None]
      /\ streak' = [streak EXCEPT ![caller[p].at] = IF breakers[caller[p].at] = i THEN 0 ELSE @]
      /\ UNCHANGED <<breakers, mgrWriter, cleaner, admin>>
      /\ caller' = [caller EXCEPT ![p] = IdleCaller]
  BY DEF CallSucceeds, Return
<1>2. caller \in [Callers -> CallerRecord] /\ obj \in [Ids -> Sane]
  BY DEF TypeOK, CallerRecord, Stages
<1>3. /\ caller' \in [Callers -> CallerRecord]
      /\ \A q \in Callers : q # p => caller'[q] = caller[q]
      /\ caller'[p].ref = None /\ caller'[p].pc = "idle"
  BY <1>1, <1>2 DEF IdleCaller, CallerRecord, Stages
<1>4. o \in [Ids -> Sane]
  BY <1>0, <1>2, SuccessFacts
<1> HIDE DEF IndInv, o
<1>5. /\ Map' /\ References'
      /\ obj' \in [Ids -> Breaker] /\ \A j \in Ids : obj'[j] \in Sane
      /\ removed' \subseteq Ids
      /\ \A a \in Observers : breakers[a] # None => obj'[breakers[a]] = o[breakers[a]]
      /\ \A q \in Callers : caller'[q].pc \in {"check", "call", "wire", "report"}
                                    => caller'[q].ref \in Ids
  BY <1>1, <1>3, <1>4, ForgetStep
<1> USE DEF IndInv
<1>6. TypeOK'
  <2>1. streak' \in [Observers -> 0..MaxFailureCount] /\ owner' \in [Ids -> Callers \cup {None}]
    <3>1. streak \in [Observers -> 0..MaxFailureCount] /\ 0 \in 0..MaxFailureCount
      BY MaxFailureCountLemma DEF TypeOK
    <3>2. owner' \in [Ids -> Callers \cup {None}]
      BY <1>1 DEF TypeOK
    <3> HIDE DEF IndInv
    <3> QED BY <1>1, <3>1, <3>2
  <2> QED BY <1>1, <1>3, <1>5, <2>1 DEF TypeOK, CallerRecord, Stages
<1>7. Locks' /\ Loops'
  BY <1>1 DEF Locks, Loops, MgrReader
<1>8. \A j \in Ids : /\ j # i => o[j] = obj[j]
                     /\ j = i => o[j] = onSuccess(obj[i])
  BY <1>0, <1>2 DEF o
<1>9. Reads'
  BY <1>0, <1>1, <1>2, <1>5, <1>8, SuccessFacts DEF Reads, Loops, TypeOK
<1>10. Counts'
  <2> SUFFICES ASSUME NEW a \in Observers
               PROVE  /\ breakers[a] = None => streak'[a] = 0
                      /\ breakers[a] # None /\ o[breakers[a]].state = "CLOSED" =>
                            streak'[a] <= o[breakers[a]].failureCount
    BY <1>1, <1>5 DEF Counts
  <2>1. CASE breakers[a] = i
    <3>1. caller[p].at = a
      BY <1>0, <2>1, HeldEntry
    <3>2. streak'[a] = 0
      BY <1>1, <2>1, <3>1 DEF TypeOK
    <3>3. o[i].state = "CLOSED" => o[i].failureCount = 0
      BY <1>0, <1>2, <1>8, SuccessFacts
    <3> QED BY <1>0, <2>1, <3>2, <3>3
  <2>2. CASE breakers[a] # i
    BY <1>0, <1>1, <1>8, <2>2 DEF Counts, TypeOK
  <2> QED BY <2>1, <2>2
<1> QED BY <1>5, <1>6, <1>7, <1>9, <1>10

\* Entering Call: the breaker that is called moves to b, which is closed only if
\* it was closed before and then is the same.
LEMMA EnterStep ==
    ASSUME IndInv, NEW p \in Callers, caller[p].pc = "call", NEW b \in Sane,
           LET i == caller[p].ref
           IN  /\ b.state = "CLOSED" => b = obj[i]
               /\ obj[i].state = "CLOSED" => b = obj[i]
               /\ obj' = [obj EXCEPT ![i] = b],
           NEW l \in {"wire", "report"}, GoTo(p, l),
           owner' \in [Ids -> Callers \cup {None}],
           UNCHANGED <<breakers, mgrWriter, cleaner, admin, removed, streak>>
    PROVE  IndInv'
<1> USE DEF IndInv
<1>1. caller[p].ref \in Ids /\ caller' = [caller EXCEPT ![p].pc = l]
  BY DEF TypeOK, GoTo
<1>2. obj' \in [Ids -> Breaker] /\ \A j \in Ids : obj'[j] \in Sane
  BY <1>1 DEF TypeOK, Sane
<1>3. TypeOK'
  BY <1>1, <1>2 DEF TypeOK
<1>4. References'
  BY <1>1 DEF References, OneBreakerPerObserver, TypeOK
<1>5. Map'
  BY <1>1 DEF Map, Referenced, TypeOK
<1>6. Locks' /\ Loops'
  BY DEF Locks, Loops, MgrReader
<1>7. \A j \in Ids : \/ obj'[j] = obj[j]
                     \/ obj[j].state # "CLOSED" /\ obj'[j].state # "CLOSED"
  BY <1>1 DEF TypeOK
<1>8. Reads' /\ Counts'
  BY <1>7 DEF Reads, Counts, Loops, TypeOK
<1> QED BY <1>2, <1>3, <1>4, <1>5, <1>6, <1>8

LEMMA RefusedStep ==
    ASSUME IndInv, NEW p \in Callers, CallRefused(p)
    PROVE  IndInv'
<1> DEFINE i == caller[p].ref
           b == TryHalfOpen(obj[i])
<1>1. /\ caller[p].pc = "call" /\ obj' = [obj EXCEPT ![i] = b] /\ GoTo(p, "report")
      /\ UNCHANGED <<breakers, owner, mgrWriter, cleaner, admin, removed, streak>>
  BY DEF CallRefused
<1>2. i \in Ids /\ obj[i] \in Sane /\ owner \in [Ids -> Callers \cup {None}]
  BY <1>1 DEF IndInv, TypeOK
<1>3. /\ b \in Sane
      /\ b.state = "CLOSED" => b = obj[i]
      /\ obj[i].state = "CLOSED" => b = obj[i]
  BY <1>2, EnterFacts
<1> HIDE DEF b
<1> QED BY <1>1, <1>2, <1>3, EnterStep

LEMMA AdmittedStep ==
    ASSUME IndInv, NEW p \in Callers, CallAdmitted(p)
    PROVE  IndInv'
<1> DEFINE i == caller[p].ref
           c == TryHalfOpen(obj[i])
           b == Admit(c)
<1>1. /\ caller[p].pc = "call" /\ obj' = [obj EXCEPT ![i] = b] /\ GoTo(p, "wire")
      /\ owner' = [owner EXCEPT ![i] = p] /\ ~RefusedMaxCalls(c)
      /\ UNCHANGED <<breakers, mgrWriter, cleaner, admin, removed, streak>>
  BY DEF CallAdmitted
<1>2. i \in Ids /\ obj[i] \in Sane /\ owner' \in [Ids -> Callers \cup {None}]
  BY <1>1 DEF IndInv, TypeOK
<1>3. /\ c \in Sane
      /\ c.state = "CLOSED" => c = obj[i]
      /\ obj[i].state = "CLOSED" => c = obj[i]
  BY <1>2, EnterFacts
<1> HIDE DEF c
<1>4. /\ b \in Sane
      /\ b.state = "CLOSED" => b = obj[i]
      /\ obj[i].state = "CLOSED" => b = obj[i]
  BY <1>1, <1>3, EnterFacts
<1> HIDE DEF b
<1> QED BY <1>1, <1>2, <1>4, EnterStep

LEMMA FailureStep ==
    ASSUME IndInv, NEW p \in Callers, CallFails(p)
    PROVE  IndInv'
<1> USE DEF IndInv
<1> DEFINE i == caller[p].ref
<1>0. i \in Ids /\ i # None /\ caller[p].at \in Observers /\ obj \in [Ids -> Sane]
  BY DEF CallFails, TypeOK, References
<1>1. /\ obj' = [obj EXCEPT ![i] = onFailure(@)]
      /\ owner' = [owner EXCEPT ![i] = None]
      /\ streak' = [streak EXCEPT ![caller[p].at] =
                       IF breakers[caller[p].at] = i /\ @ < MaxFailureCount THEN @ + 1 ELSE @]
      /\ cleaner' = [cleaner EXCEPT
            !.stale = @ \ {i},
            !.late = IF cleaner.pc = "delete" /\ breakers[cleaner.at] = i THEN @ \cup {p} ELSE @]
      /\ caller' = [caller EXCEPT ![p].pc = "report"]
      /\ UNCHANGED <<breakers, mgrWriter, admin, removed>>
      /\ caller[p].pc = "wire"
  BY DEF CallFails, GoTo
<1>2. /\ \A j \in Ids : j # i => obj'[j] = obj[j]
      /\ obj'[i] = onFailure(obj[i]) /\ obj' \in [Ids -> Sane]
  BY <1>0, <1>1, FailureFacts
<1>3. TypeOK'
  <2>1. streak' \in [Observers -> 0..MaxFailureCount]
    <3>1. streak \in [Observers -> 0..MaxFailureCount]
      BY DEF TypeOK
    <3>2. \A k \in 0..MaxFailureCount : k < MaxFailureCount => k + 1 \in 0..MaxFailureCount
      BY MaxFailureCountLemma
    <3> HIDE DEF IndInv
    <3> QED BY <1>0, <1>1, <3>1, <3>2
  <2>2. obj' \in [Ids -> Breaker] /\ owner' \in [Ids -> Callers \cup {None}]
    BY <1>1, <1>2 DEF TypeOK, Sane
  <2>3. cleaner' \in CleanerRecord
    BY <1>1 DEF TypeOK, CleanerRecord
  <2> QED BY <1>0, <1>1, <2>1, <2>2, <2>3 DEF TypeOK, CleanerRecord
<1>4. References'
  BY <1>1 DEF References, OneBreakerPerObserver, TypeOK
<1>5. Map'
  BY <1>1 DEF Map, Referenced, TypeOK
<1>6. /\ cleaner'.pc = cleaner.pc /\ cleaner'.todo = cleaner.todo /\ cleaner'.at = cleaner.at
      /\ cleaner'.stale = cleaner.stale \ {i}
  BY <1>1 DEF TypeOK
<1>7. Locks' /\ Loops'
  BY <1>1, <1>6 DEF Locks, Loops, MgrReader
<1>8. Reads'
  BY <1>1, <1>2, <1>6 DEF Reads, Loops, TypeOK
<1>9. Counts'
  <2> SUFFICES ASSUME NEW a \in Observers
               PROVE  /\ breakers[a] = None => streak'[a] = 0
                      /\ breakers[a] # None /\ obj'[breakers[a]].state = "CLOSED" =>
                            streak'[a] <= obj'[breakers[a]].failureCount
    BY <1>1 DEF Counts
  <2>1. CASE breakers[a] = i
    <3>1. obj'[i].state = "CLOSED" => /\ obj[i].state = "CLOSED"
                                      /\ obj'[i].failureCount = obj[i].failureCount + 1
      BY <1>0, <1>2, FailureFacts
    <3>2. streak'[a] <= streak[a] + 1
      BY <1>1, MaxFailureCountLemma DEF TypeOK
    <3>3. /\ streak[a] \in Nat /\ streak'[a] \in Nat /\ obj[i].failureCount \in Nat
          /\ obj[i].state = "CLOSED" => streak[a] <= obj[i].failureCount
      BY <1>0, <1>3, <2>1, MaxFailureCountLemma DEF TypeOK, Counts, Sane, Breaker
    <3> QED BY <1>0, <2>1, <3>1, <3>2, <3>3
  <2>2. CASE breakers[a] # i
    BY <1>0, <1>1, <1>2, <2>2 DEF Counts, TypeOK
  <2> QED BY <2>1, <2>2
<1> QED BY <1>2, <1>3, <1>4, <1>5, <1>7, <1>8, <1>9
-----------------------------------------------------------------------------
\* A step of the cleanup that only reads.
LEMMA CleanerReads ==
    ASSUME IndInv, cleaner' \in CleanerRecord, cleaner.pc # "idle", cleaner'.pc # "idle",
           cleaner'.todo \subseteq cleaner.todo, cleaner'.stale = cleaner.stale,
           cleaner'.pc \in {"count", "time", "delete"} =>
              cleaner'.at \in Observers \ cleaner'.todo /\ breakers[cleaner'.at] # None,
           cleaner'.pc \in {"count", "time"} =>
              /\ obj[breakers[cleaner'.at]].state = "CLOSED"
                 \/ breakers[cleaner'.at] \notin cleaner.stale
              /\ cleaner'.pc = "time" => obj[breakers[cleaner'.at]].failureCount = 0,
           UNCHANGED <<breakers, obj, owner, mgrWriter, caller, admin, removed, streak>>
    PROVE  IndInv'
<1> USE DEF IndInv
<1>1. TypeOK'
  BY DEF TypeOK, CleanerRecord
<1>2. Locks' /\ Map' /\ References' /\ Counts'
  BY DEF Locks, Map, References, Counts, MgrReader, Referenced, OneBreakerPerObserver
<1>3. Loops' /\ Reads'
  BY DEF Loops, Reads, MgrReader
<1> QED BY <1>1, <1>2, <1>3

LEMMA CleanupStartStep == ASSUME IndInv, CleanupStart PROVE IndInv'
<1> USE DEF IndInv
<1>1. /\ cleaner'.pc = "state" /\ cleaner'.todo = {a \in Observers : breakers[a] # None}
      /\ cleaner' \in CleanerRecord /\ mgrWriter' = TRUE /\ ~MgrReader
      /\ UNCHANGED <<breakers, obj, owner, caller, admin, removed, streak>>
  BY DEF CleanupStart, CleanerRecord, Mapped, TypeOK
<1>2. TypeOK'
  BY <1>1 DEF TypeOK, CleanerRecord
<1>3. Locks' /\ Loops' /\ Reads'
  BY <1>1 DEF Locks, Loops, Reads, MgrReader
<1>4. Map' /\ References' /\ Counts'
  BY <1>1 DEF Map, References, Counts, Referenced, OneBreakerPerObserver
<1> QED BY <1>1, <1>2, <1>3, <1>4

LEMMA CleanupReadStateStep == ASSUME IndInv, CleanupReadState PROVE IndInv'
<1>1. PICK a \in cleaner.todo :
         cleaner' = [cleaner EXCEPT
                            !.todo = @ \ {a},
                            !.pc = IF obj[breakers[a]].state = "CLOSED"
                                   THEN "count" ELSE "state",
                            !.at = IF obj[breakers[a]].state = "CLOSED"
                                   THEN a ELSE None]
  BY DEF CleanupReadState
<1>2. cleaner \in CleanerRecord /\ cleaner.pc = "state" /\ a \in Observers /\ breakers[a] # None
  BY DEF CleanupReadState, IndInv, TypeOK, CleanerRecord, Loops
<1>3. /\ cleaner' \in CleanerRecord
      /\ cleaner'.todo = cleaner.todo \ {a} /\ cleaner'.stale = cleaner.stale
      /\ cleaner'.pc \in {"count", "state"}
      /\ cleaner'.pc = "count" => cleaner'.at = a /\ obj[breakers[a]].state = "CLOSED"
  BY <1>1, <1>2 DEF CleanerRecord
<1>4. UNCHANGED <<breakers, obj, owner, mgrWriter, caller, admin, removed, streak>>
  BY DEF CleanupReadState
<1> QED BY <1>2, <1>3, <1>4, CleanerReads

LEMMA CleanupReadCountStep == ASSUME IndInv, CleanupReadCount PROVE IndInv'
<1> DEFINE i == breakers[cleaner.at]
<1>1. /\ cleaner \in CleanerRecord /\ cleaner.pc = "count"
      /\ cleaner.at \in Observers \ cleaner.todo /\ i # None
      /\ obj[i].state = "CLOSED" \/ i \notin cleaner.stale
  BY DEF CleanupReadCount, IndInv, TypeOK, CleanerRecord, Loops, Reads
<1>2. UNCHANGED <<breakers, obj, owner, mgrWriter, caller, admin, removed, streak>>
  BY DEF CleanupReadCount
<1>3. CASE obj[i].failureCount = 0
  <2>1. cleaner' = [cleaner EXCEPT !.pc = "time"]
    BY <1>3 DEF CleanupReadCount
  <2>2. /\ cleaner' \in CleanerRecord /\ cleaner'.pc = "time" /\ cleaner'.at = cleaner.at
        /\ cleaner'.todo = cleaner.todo /\ cleaner'.stale = cleaner.stale
    BY <1>1, <2>1 DEF CleanerRecord
  <2> QED BY <1>1, <1>2, <1>3, <2>2, CleanerReads
<1>4. CASE obj[i].failureCount # 0
  <2>1. cleaner' = [cleaner EXCEPT !.pc = "state", !.at = None, !.late = {}]
    BY <1>4 DEF CleanupReadCount, NextEntry
  <2>2. /\ cleaner' \in CleanerRecord /\ cleaner'.pc = "state"
        /\ cleaner'.todo = cleaner.todo /\ cleaner'.stale = cleaner.stale
    BY <1>1, <2>1 DEF CleanerRecord
  <2> QED BY <1>1, <1>2, <2>2, CleanerReads
<1> QED BY <1>3, <1>4

LEMMA CleanupReadTimeStep == ASSUME IndInv, CleanupReadTime PROVE IndInv'
<1>1. /\ cleaner \in CleanerRecord /\ cleaner.pc = "time"
      /\ cleaner.at \in Observers \ cleaner.todo /\ breakers[cleaner.at] # None
  BY DEF CleanupReadTime, IndInv, TypeOK, CleanerRecord, Loops
<1>2. \/ cleaner' = [cleaner EXCEPT !.pc = "delete"]
      \/ cleaner' = [cleaner EXCEPT !.pc = "state", !.at = None, !.late = {}]
  BY DEF CleanupReadTime, NextEntry
<1>3. /\ cleaner' \in CleanerRecord /\ cleaner'.pc \in {"state", "delete"}
      /\ cleaner'.pc = "delete" => cleaner'.at = cleaner.at
      /\ cleaner'.todo = cleaner.todo /\ cleaner'.stale = cleaner.stale
  BY <1>1, <1>2 DEF CleanerRecord
<1>4. UNCHANGED <<breakers, obj, owner, mgrWriter, caller, admin, removed, streak>>
  BY DEF CleanupReadTime
<1> QED BY <1>1, <1>3, <1>4, CleanerReads

LEMMA CleanupDeleteStep == ASSUME IndInv, CleanupDelete PROVE IndInv'
<1> DEFINE a == cleaner.at
           i == breakers[a]
           held == {caller[q].ref : q \in Callers}
<1>1. /\ cleaner \in CleanerRecord /\ cleaner.pc = "delete" /\ a \in Observers \ cleaner.todo
      /\ i # None /\ i \in Ids /\ mgrWriter /\ ~MgrReader
  BY DEF CleanupDelete, IndInv, TypeOK, CleanerRecord, Loops, Locks
<1>2. /\ cleaner' = [cleaner EXCEPT !.pc = "state", !.at = None, !.late = {}]
      /\ streak' = [streak EXCEPT ![a] = 0]
      /\ breakers' = [breakers EXCEPT ![a] = None]
      /\ removed' = removed \cup ({i} \cap Referenced)
      /\ obj' = Collect(obj, (Mapped \ {i}) \cup held)
      /\ UNCHANGED <<owner, mgrWriter, caller, admin>>
  BY DEF CleanupDelete, NextEntry
<1>3. /\ cleaner' \in CleanerRecord /\ cleaner'.pc = "state"
      /\ cleaner'.todo = cleaner.todo /\ cleaner'.stale = cleaner.stale
  BY <1>1, <1>2 DEF CleanerRecord
<1>4. /\ streak' \in [Observers -> 0..MaxFailureCount] /\ streak'[a] = 0
      /\ \A b \in Observers : b # a => streak'[b] = streak[b]
  <2>1. streak \in [Observers -> 0..MaxFailureCount] /\ 0 \in 0..MaxFailureCount
    BY MaxFailureCountLemma DEF IndInv, TypeOK
  <2> QED BY <1>1, <1>2, <2>1
<1> USE DEF IndInv
<1>5. obj' \in [Ids -> Breaker] /\ \A j \in Ids : obj'[j] \in Sane
  BY <1>2, NewFacts DEF Collect, Sane, TypeOK
<1>6. /\ \A b \in Observers : b # a => breakers'[b] = breakers[b]
      /\ breakers'[a] = None
      /\ breakers' \in [Observers -> Ids \cup {None}]
  BY <1>1, <1>2 DEF TypeOK
<1>7. \A b \in Observers \ {a} : breakers[b] # None => breakers[b] # i
  BY <1>1 DEF Map
<1>8. \A b \in Observers : breakers'[b] # None => obj'[breakers'[b]] = obj[breakers[b]]
  BY <1>1, <1>2, <1>6, <1>7 DEF Collect, Mapped, TypeOK
<1>9. TypeOK'
  BY <1>1, <1>2, <1>3, <1>4, <1>5, <1>6 DEF TypeOK, CleanerRecord
<1>10. Map'
  <2>1. removed' \subseteq Referenced'
    BY <1>2 DEF Map, Referenced
  <2>2. None \notin removed /\ None # i
    BY <1>1, ManagerConfig DEF TypeOK
  <2> QED BY <1>1, <1>2, <1>6, <1>7, <2>1, <2>2 DEF Map
<1>11. References'
  <2>1. \A q \in Callers : caller[q].ref = i => i \in removed'
    BY <1>1, <1>2 DEF Referenced
  <2> QED BY <1>1, <1>2, <1>6, <2>1 DEF References, OneBreakerPerObserver
<1>12. Locks'
  BY <1>1, <1>2, <1>3 DEF Locks, MgrReader
<1>13. Loops' /\ Reads'
  BY <1>1, <1>2, <1>3, <1>6 DEF Loops, Reads, MgrReader, TypeOK
<1>14. Counts'
  BY <1>4, <1>6, <1>8 DEF Counts
<1> QED BY <1>5, <1>9, <1>10, <1>11, <1>12, <1>13, <1>14

LEMMA CleanupEndStep == ASSUME IndInv, CleanupEnd PROVE IndInv'
<1> USE DEF IndInv
<1>1. /\ cleaner'.pc = "idle" /\ cleaner' \in CleanerRecord /\ mgrWriter' = FALSE
      /\ UNCHANGED <<breakers, obj, owner, caller, admin, removed, streak>>
  BY DEF CleanupEnd, IdleCleaner, CleanerRecord
<1>2. TypeOK'
  BY <1>1 DEF TypeOK, CleanerRecord
<1>3. Locks' /\ Loops' /\ Reads'
  BY <1>1 DEF Locks, Loops, Reads, MgrReader
<1>4. Map' /\ References' /\ Counts'
  BY <1>1 DEF Map, References, Counts, Referenced, OneBreakerPerObserver
<1> QED BY <1>1, <1>2, <1>3, <1>4
-----------------------------------------------------------------------------
AdminRecord == [kind : {"idle", "resetOne", "resetAll", "stats"},
                todo : SUBSET Observers, ref : Ids \cup {None}]

\* A reset or statistics request begins or goes on without touching a breaker.
LEMMA AdminOnly ==
    ASSUME IndInv, admin' \in AdminRecord,
           admin'.kind \in {"resetAll", "stats"} =>
               ~mgrWriter /\ \A a \in admin'.todo : breakers[a] # None,
           admin'.kind = "resetOne" <=> admin'.ref # None,
           admin.ref # None => admin'.ref = admin.ref,
           UNCHANGED <<breakers, obj, owner, mgrWriter, caller, cleaner, removed, streak>>
    PROVE  IndInv'
<1> USE DEF IndInv
<1>1. TypeOK'
  BY DEF TypeOK, AdminRecord
<1>2. Map'
  BY DEF Map, Referenced
<1>3. Locks' /\ References' /\ Loops' /\ Reads' /\ Counts'
  BY DEF Locks, References, Loops, Reads, Counts, MgrReader, OneBreakerPerObserver
<1> QED BY <1>1, <1>2, <1>3

LEMMA ResetOneStartStep ==
    ASSUME IndInv, NEW a \in Observers, ResetOneStart(a) PROVE IndInv'
<1>1. /\ admin'.kind = "resetOne" /\ admin'.ref # None /\ admin' \in AdminRecord
      /\ admin.ref = None
      /\ UNCHANGED <<breakers, obj, owner, mgrWriter, caller, cleaner, removed, streak>>
  BY DEF ResetOneStart, IndInv, TypeOK, AdminRecord, References
<1> QED BY <1>1, AdminOnly

LEMMA LoopStartStep ==
    ASSUME IndInv, NEW k \in {"resetAll", "stats"}, LoopStart(k) PROVE IndInv'
<1>1. /\ admin'.kind = k /\ admin'.ref = None /\ admin' \in AdminRecord
      /\ admin'.todo = {a \in Observers : breakers[a] # None}
      /\ admin.ref = None /\ ~mgrWriter
      /\ UNCHANGED <<breakers, obj, owner, mgrWriter, caller, cleaner, removed, streak>>
  BY DEF LoopStart, IndInv, TypeOK, AdminRecord, References
<1> QED BY <1>1, AdminOnly

LEMMA LoopEndStep == ASSUME IndInv, LoopEnd PROVE IndInv'
<1>1. /\ admin'.kind = "idle" /\ admin'.ref = None /\ admin' \in AdminRecord
      /\ admin.ref = None
      /\ UNCHANGED <<breakers, obj, owner, mgrWriter, caller, cleaner, removed, streak>>
  BY DEF LoopEnd, MgrReader, IdleAdmin, IndInv, TypeOK, AdminRecord, References
<1> QED BY <1>1, AdminOnly

LEMMA LoopStepStep == ASSUME IndInv, LoopStep PROVE IndInv'
<1> USE DEF IndInv
<1>1. PICK a \in admin.todo :
         /\ admin' = [admin EXCEPT !.todo = @ \ {a}]
         /\ \/ /\ obj' = [obj EXCEPT ![breakers[a]] = Reset(@)]
               /\ streak' = [streak EXCEPT ![a] = 0]
            \/ UNCHANGED <<obj, streak>>
  BY DEF LoopStep
<1>2. /\ UNCHANGED <<breakers, owner, mgrWriter, caller, cleaner, removed>>
      /\ MgrReader /\ admin \in AdminRecord /\ admin.ref = None /\ ~mgrWriter
      /\ a \in Observers /\ breakers[a] # None /\ breakers[a] \in Ids
  BY DEF LoopStep, MgrReader, TypeOK, AdminRecord, References, Loops, Locks
<1>3. /\ admin' \in AdminRecord /\ admin'.kind = admin.kind /\ admin'.ref = None
      /\ admin'.todo = admin.todo \ {a}
  BY <1>1, <1>2 DEF AdminRecord
<1>4. CASE UNCHANGED <<obj, streak>>
  <2> HIDE DEF IndInv
  <2>1. \A b \in admin'.todo : breakers[b] # None
    BY <1>2, <1>3 DEF IndInv, Loops
  <2>2. admin.kind # "resetOne"
    BY <1>2 DEF MgrReader
  <2> QED BY <1>2, <1>3, <1>4, <2>1, <2>2, AdminOnly
<1>5. CASE /\ obj' = [obj EXCEPT ![breakers[a]] = Reset(@)]
           /\ streak' = [streak EXCEPT ![a] = 0]
  <2>1. /\ \A j \in Ids : j # breakers[a] => obj'[j] = obj[j]
        /\ obj'[breakers[a]] = Reset(obj[breakers[a]])
        /\ obj' \in [Ids -> Sane]
    BY <1>2, <1>5, ResetFacts DEF TypeOK
  <2>2. streak' \in [Observers -> 0..MaxFailureCount]
    <3>1. streak \in [Observers -> 0..MaxFailureCount] /\ 0 \in 0..MaxFailureCount
      BY MaxFailureCountLemma DEF TypeOK
    <3> HIDE DEF IndInv
    <3> QED BY <1>5, <3>1
  <2>3. TypeOK'
    BY <1>2, <1>3, <2>1, <2>2 DEF TypeOK, AdminRecord, Sane
  <2>4. Map' /\ References' /\ Locks' /\ Loops'
    BY <1>2, <1>3 DEF Map, Referenced, References, OneBreakerPerObserver, Locks, Loops, MgrReader
  <2>5. Reads'
    BY <1>2, <2>1, ResetFacts DEF Reads, Loops, Locks
  <2>6. Counts'
    <3> SUFFICES ASSUME NEW b \in Observers
                 PROVE  /\ breakers[b] = None => streak'[b] = 0
                        /\ breakers[b] # None /\ obj'[breakers[b]].state = "CLOSED" =>
                              streak'[b] <= obj'[breakers[b]].failureCount
      BY <1>2 DEF Counts
    <3>1. CASE b = a
      <4>1. streak'[a] = 0
        BY <1>2, <1>5 DEF TypeOK
      <4>2. obj'[breakers[a]].failureCount = 0
        BY <1>2, <2>1, ResetFacts
      <4> QED BY <1>2, <3>1, <4>1, <4>2
    <3>2. CASE b # a
      <4>1. breakers[b] # None => breakers[b] # breakers[a]
        BY <1>2, <3>2 DEF Map
      <4>2. streak'[b] = streak[b]
        BY <1>2, <1>5, <3>2 DEF TypeOK
      <4> QED BY <2>1, <4>1, <4>2 DEF Counts, TypeOK
    <3> QED BY <3>1, <3>2
  <2> QED BY <2>1, <2>3, <2>4, <2>5, <2>6
<1> QED BY <1>1, <1>4, <1>5

LEMMA ResetOneStep == ASSUME IndInv, ResetOne PROVE IndInv'
<1> USE DEF IndInv
<1> DEFINE i == admin.ref
           o == [obj EXCEPT ![i] = Reset(@)]
           held == {caller[q].ref : q \in Callers}
<1>1. /\ obj' = Collect(o, Mapped \cup held)
      /\ streak' = [a \in Observers |-> IF breakers[a] = i THEN 0 ELSE streak[a]]
      /\ removed' = removed \cap held
      /\ admin'.kind = "idle" /\ admin'.ref = None /\ admin' \in AdminRecord
      /\ UNCHANGED <<breakers, owner, mgrWriter, caller, cleaner>>
      /\ i \in Ids
  BY DEF ResetOne, IdleAdmin, AdminRecord, References, TypeOK
<1>2. /\ \A j \in Ids : j # i => o[j] = obj[j]
      /\ o[i] = Reset(obj[i]) /\ o \in [Ids -> Sane]
  BY <1>1, ResetFacts DEF TypeOK
<1> HIDE DEF o
<1>3. obj' \in [Ids -> Breaker] /\ \A j \in Ids : obj'[j] \in Sane
  BY <1>1, <1>2, NewFacts DEF Collect, Sane
<1>4. \A a \in Observers : breakers[a] # None => obj'[breakers[a]] = o[breakers[a]]
  BY <1>1 DEF Collect, Mapped, TypeOK
<1>5. streak' \in [Observers -> 0..MaxFailureCount]
  <2>1. streak \in [Observers -> 0..MaxFailureCount] /\ 0 \in 0..MaxFailureCount
    BY MaxFailureCountLemma DEF TypeOK
  <2> HIDE DEF IndInv
  <2> QED BY <1>1, <2>1
<1>6. TypeOK'
  BY <1>1, <1>3, <1>5 DEF TypeOK, AdminRecord
<1>7. Map'
  <2>1. removed' \subseteq Referenced'
    BY <1>1, ManagerConfig DEF Referenced, TypeOK
  <2> QED BY <1>1, <2>1 DEF Map
<1>8. References'
  BY <1>1 DEF References, OneBreakerPerObserver
<1>9. Locks' /\ Loops'
  BY <1>1 DEF Locks, Loops, MgrReader
<1>10. Reads'
  BY <1>1, <1>2, <1>4, ResetFacts DEF Reads, Loops, TypeOK
<1>11. Counts'
  <2> SUFFICES ASSUME NEW a \in Observers
               PROVE  /\ breakers[a] = None => streak'[a] = 0
                      /\ breakers[a] # None /\ o[breakers[a]].state = "CLOSED" =>
                            streak'[a] <= o[breakers[a]].failureCount
    BY <1>1, <1>4 DEF Counts
  <2>1. CASE breakers[a] = i
    <3>1. streak'[a] = 0
      BY <1>1, <2>1
    <3>2. o[i].failureCount = 0
      BY <1>1, <1>2, ResetFacts
    <3> QED BY <2>1, <3>1, <3>2
  <2>2. CASE breakers[a] # i
    <3>1. streak'[a] = streak[a]
      BY <1>1, <2>2
    <3> QED BY <1>2, <2>2, <3>1 DEF Counts, TypeOK
  <2> QED BY <2>1, <2>2
<1> QED BY <1>3, <1>6, <1>7, <1>8, <1>9, <1>10, <1>11

LEMMA TickStep == ASSUME IndInv, Tick PROVE IndInv'
<1> USE DEF IndInv
<1>1. /\ \A i \in Ids : obj'[i] = Older(obj[i])
      /\ UNCHANGED <<breakers, owner, mgrWriter, caller, cleaner, admin, removed, streak>>
  BY DEF Tick
<1>2. /\ \A i \in Ids : obj'[i] \in Sane /\ obj'[i].state = obj[i].state
                                        /\ obj'[i].failureCount = obj[i].failureCount
      /\ obj' \in [Ids -> Breaker]
  BY <1>1, OlderFacts DEF Tick, Sane
<1>3. TypeOK'
  BY <1>1, <1>2 DEF TypeOK
<1>4. Locks' /\ Map' /\ References' /\ Loops'
  BY <1>1 DEF Locks, Map, Referenced, References, OneBreakerPerObserver, Loops, MgrReader
<1>5. Reads' /\ Counts'
  BY <1>1, <1>2 DEF Reads, Counts, Loops, TypeOK
<1> QED BY <1>2, <1>3, <1>4, <1>5
-----------------------------------------------------------------------------
LEMMA NextIndInv == IndInv /\ [Next]_vars => IndInv'
<1> SUFFICES ASSUME IndInv, [Next]_vars PROVE IndInv'
  OBVIOUS
<1>1. ASSUME NEW p \in Callers, NEW a \in Observers, Arrive(p, a) PROVE IndInv'
  BY <1>1, ArriveStep
<1>2. ASSUME NEW p \in Callers, Step(p) PROVE IndInv'
  BY <1>2, FindStep, CreateStep, CheckStep, RefusedStep, AdmittedStep,
     SuccessStep, FailureStep, ReportStep DEF Step
<1>3. CASE Cleanup
  BY <1>3, CleanupStartStep, CleanupReadStateStep, CleanupReadCountStep,
     CleanupReadTimeStep, CleanupDeleteStep, CleanupEndStep DEF Cleanup
<1>4. ASSUME NEW a \in Observers, ResetOneStart(a) PROVE IndInv'
  BY <1>4, ResetOneStartStep
<1>5. ASSUME NEW k \in {"resetAll", "stats"}, LoopStart(k) PROVE IndInv'
  BY <1>5, LoopStartStep
<1>6. CASE AdminStep
  BY <1>6, ResetOneStep, LoopStepStep, LoopEndStep DEF AdminStep
<1>7. CASE Tick
  BY <1>7, TickStep
<1>8. CASE UNCHANGED vars
  BY <1>8 DEF vars, IndInv, TypeOK, Locks, Map, Referenced, References,
     OneBreakerPerObserver, Loops, Reads, Counts, MgrReader
<1> QED
  BY <1>1, <1>2, <1>3, <1>4, <1>5, <1>6, <1>7, <1>8 DEF Next

LEMMA Invariance == Spec => []IndInv
BY InitIndInv, NextIndInv, PTL DEF Spec

\* The manager's variables keep their types, and a caller that uses a breaker
\* holds one, for any number of observers and callers.
THEOREM TypeCorrect == Spec => []TypeOK
<1>1. IndInv => TypeOK
  BY DEF IndInv
<1> QED BY <1>1, Invariance, PTL

\* However lookups, creations and the cleanup interleave, a caller's breaker is
\* its observer's in the map, or one that the cleanup dropped.
THEOREM BreakersAreShared == Spec => []OneBreakerPerObserver
<1>1. IndInv => OneBreakerPerObserver
  BY DEF IndInv, References
<1> QED BY <1>1, Invariance, PTL

\* No failure on a mapped breaker is lost: enough of them in a row leave it open
\* or half-open, for every threshold, 0 included.
THEOREM NoFailureIsLost == Spec => []FailuresAreCounted
<1>1. ASSUME IndInv PROVE FailuresAreCounted
  <2> SUFFICES ASSUME NEW a \in Observers, streak[a] = MaxFailureCount
               PROVE  breakers[a] # None /\ obj[breakers[a]].state # "CLOSED"
    BY DEF FailuresAreCounted
  <2>1. breakers[a] # None
    BY <1>1, MaxFailureCountLemma DEF IndInv, Counts
  <2>2. breakers[a] \in Ids /\ obj[breakers[a]] \in Sane
    BY <1>1, <2>1 DEF IndInv, TypeOK
  <2> QED BY <1>1, <2>1, <2>2, MaxFailureCountLemma DEF IndInv, Counts, Sane, Breaker
<1> QED BY <1>1, Invariance, PTL

\* What happened to the breaker the cleaner is about to drop: the callers that
\* failed on it since the time was read are all different, because none of them
\* can look it up again while the cleaner holds the map.
Late ==
    /\ cleaner.pc # "delete" => cleaner.late = {}
    /\ cleaner.pc = "delete" =>
          /\ \A p \in cleaner.late : caller[p].pc \in {"report", "idle", "find"}
          /\ obj[breakers[cleaner.at]].failureCount <= Cardinality(cleaner.late)
          /\ obj[breakers[cleaner.at]].state # "CLOSED" =>
                MaxFailureCount <= Cardinality(cleaner.late)

\* The breaker about to be dropped, and how many callers failed on it meanwhile.
LEMMA LateTypes ==
    ASSUME IndInv
    PROVE  /\ cleaner \in CleanerRecord
           /\ IsFiniteSet(cleaner.late) /\ Cardinality(cleaner.late) \in Nat
           /\ cleaner.pc = "delete" =>
                 /\ cleaner.at \in Observers /\ breakers[cleaner.at] \in Ids
                 /\ breakers[cleaner.at] # None
                 /\ obj[breakers[cleaner.at]] \in Sane
                 /\ obj[breakers[cleaner.at]].failureCount \in Nat
<1>1. cleaner \in CleanerRecord /\ cleaner.late \subseteq Callers
  BY DEF IndInv, TypeOK, CleanerRecord
<1>2. IsFiniteSet(cleaner.late) /\ Cardinality(cleaner.late) \in Nat
  BY <1>1, ManagerConfig, FS_Subset, FS_CardinalityType
<1>3. ASSUME cleaner.pc = "delete"
      PROVE  /\ cleaner.at \in Observers /\ breakers[cleaner.at] \in Ids
             /\ breakers[cleaner.at] # None
             /\ obj[breakers[cleaner.at]] \in Sane
  BY <1>3 DEF IndInv, TypeOK, Loops
<1>4. \A b \in Sane : b.failureCount \in Nat
  BY MaxFailureCountLemma DEF Sane, Breaker
<1> QED BY <1>1, <1>2, <1>3, <1>4

\* Steps that count no failure: the breaker does not open by them.
LEMMA LateKept ==
    ASSUME IndInv, Late, UNCHANGED <<breakers, cleaner>>,
           cleaner.pc = "delete" =>
               LET b == obj[breakers[cleaner.at]]
                   c == obj'[breakers[cleaner.at]]
               IN  /\ c \in Sane
                   /\ c.failureCount <= b.failureCount
                   /\ c.state # "CLOSED" => b.state # "CLOSED"
                   /\ \A q \in Callers : caller[q].pc \in {"report", "idle", "find"}
                                      => caller'[q].pc \in {"report", "idle", "find"}
    PROVE  Late'
<1>1. CASE cleaner.pc # "delete"
  BY <1>1 DEF Late
<1>2. CASE cleaner.pc = "delete"
  <2>1. /\ obj'[breakers[cleaner.at]].failureCount <= obj[breakers[cleaner.at]].failureCount
        /\ obj'[breakers[cleaner.at]].failureCount \in Nat
    BY <1>2, MaxFailureCountLemma DEF Sane, Breaker
  <2>2. cleaner.late \subseteq Callers
    BY LateTypes DEF CleanerRecord
  <2> QED BY <1>2, <2>1, <2>2, LateTypes DEF Late
<1> QED BY <1>1, <1>2

\* Nothing about the breakers changes.
LEMMA LateIdle ==
    ASSUME IndInv, Late, UNCHANGED <<breakers, cleaner, obj>>,
           cleaner.pc = "delete" =>
               \A q \in Callers : caller[q].pc \in {"report", "idle", "find"}
                                      => caller'[q].pc \in {"report", "idle", "find"}
    PROVE  Late'
<1>1. cleaner.pc = "delete" => /\ obj[breakers[cleaner.at]] \in Sane
                               /\ obj[breakers[cleaner.at]].failureCount \in Nat
  BY LateTypes
<1> QED BY <1>1, LateKept

\* No operation but onFailure raises the count or leaves the closed state, and
\* onFailure raises the count by one and opens the circuit at the threshold.
LEMMA LateFacts ==
    ASSUME NEW b \in Sane
    PROVE  /\ LET c == TryHalfOpen(b) IN
                 c.failureCount = b.failureCount /\ (c.state # "CLOSED" => b.state # "CLOSED")
           /\ LET c == Admit(b) IN
                 c.failureCount = b.failureCount /\ (c.state # "CLOSED" => b.state # "CLOSED")
           /\ LET c == onSuccess(b) IN
                 c.failureCount <= b.failureCount /\ (c.state # "CLOSED" => b.state # "CLOSED")
           /\ LET c == onFailure(b) IN
                 /\ b.state = "CLOSED" => /\ c.failureCount = b.failureCount + 1
                                          /\ c.state # "CLOSED" =>
                                                MaxFailureCount <= b.failureCount + 1
                 /\ b.state # "CLOSED" => c.failureCount = b.failureCount
<1>1. b \in Breaker /\ b.failureCount \in Nat /\ b.state \in CircuitBreakerState
  BY MaxFailureCountLemma DEF Sane, Breaker
<1>2. LET c == TryHalfOpen(b) IN
         c.failureCount = b.failureCount /\ (c.state # "CLOSED" => b.state # "CLOSED")
  BY <1>1 DEF TryHalfOpen, CB, Breaker
<1>3. LET c == Admit(b) IN
         c.failureCount = b.failureCount /\ (c.state # "CLOSED" => b.state # "CLOSED")
  BY <1>1 DEF Admit, Breaker
<1>4. LET c == onSuccess(b) IN
         c.failureCount <= b.failureCount /\ (c.state # "CLOSED" => b.state # "CLOSED")
  BY <1>1 DEF onSuccess, Reset, CB, Breaker
<1>5. CASE b.state = "CLOSED"
  <2>1. LET c == onFailure(b) IN
           /\ c.failureCount = b.failureCount + 1
           /\ c.state # "CLOSED" => MaxFailureCount <= b.failureCount + 1
    BY <1>1, <1>5, BreakerConfig DEF onFailure, CB, MaxFailureCount
  <2> QED BY <1>2, <1>3, <1>4, <1>5, <2>1
<1>6. CASE b.state # "CLOSED"
  <2>1. onFailure(b).failureCount = b.failureCount
    BY <1>1, <1>6 DEF onFailure, CB, Breaker, CircuitBreakerState
  <2> QED BY <1>2, <1>3, <1>4, <1>6, <2>1
<1> QED BY <1>5, <1>6

\* A call in flight fails on the breaker about to be dropped: the caller was not
\* among the late ones yet, so they and the count grow together.
LEMMA LateFailure ==
    ASSUME IndInv, Late, NEW p \in Callers, CallFails(p)
    PROVE  Late'
<1> DEFINE i == caller[p].ref
           d == breakers[cleaner.at]
<1>1. /\ obj' = [obj EXCEPT ![i] = onFailure(@)]
      /\ cleaner' = [cleaner EXCEPT
            !.stale = @ \ {i},
            !.late = IF cleaner.pc = "delete" /\ d = i THEN @ \cup {p} ELSE @]
      /\ caller' = [caller EXCEPT ![p].pc = "report"]
      /\ caller[p].pc = "wire" /\ UNCHANGED breakers
  BY DEF CallFails, GoTo
<1>2. /\ i \in Ids /\ obj \in [Ids -> Sane]
      /\ \A q \in Callers : caller'[q].pc = IF q = p THEN "report" ELSE caller[q].pc
  BY <1>1 DEF IndInv, TypeOK
<1>3. /\ cleaner'.pc = cleaner.pc /\ cleaner'.at = cleaner.at
      /\ cleaner'.late = IF cleaner.pc = "delete" /\ d = i THEN cleaner.late \cup {p} ELSE cleaner.late
      /\ cleaner.late \subseteq Callers
  BY <1>1, LateTypes DEF CleanerRecord
<1>4. CASE cleaner.pc = "delete" /\ d = i
  <2>1. p \notin cleaner.late
    BY <1>1, <1>4 DEF Late
  <2>2. Cardinality(cleaner'.late) = Cardinality(cleaner.late) + 1
    BY <1>3, <1>4, <2>1, LateTypes, FS_AddElement
  <2>3. obj'[d] = onFailure(obj[d]) /\ obj[d] \in Sane
    BY <1>1, <1>2, <1>4
  <2>4. obj[d].failureCount \in Nat /\ Cardinality(cleaner.late) \in Nat /\ MaxFailureCount \in Nat
    BY <1>4, LateTypes, MaxFailureCountLemma
  <2>5. /\ obj[d].failureCount <= Cardinality(cleaner.late)
        /\ obj[d].state # "CLOSED" => MaxFailureCount <= Cardinality(cleaner.late)
        /\ \A q \in cleaner.late : caller[q].pc \in {"report", "idle", "find"}
    BY <1>4 DEF Late
  <2>6. /\ obj'[d].failureCount <= Cardinality(cleaner.late) + 1
        /\ obj'[d].state # "CLOSED" => MaxFailureCount <= Cardinality(cleaner.late) + 1
    <3>1. CASE obj[d].state = "CLOSED"
      BY <2>3, <2>4, <2>5, <3>1, LateFacts
    <3>2. CASE obj[d].state # "CLOSED"
      BY <2>3, <2>4, <2>5, <3>2, LateFacts
    <3> QED BY <3>1, <3>2
  <2>7. \A q \in cleaner'.late : caller'[q].pc \in {"report", "idle", "find"}
    BY <1>2, <1>3, <1>4, <2>5
  <2> QED BY <1>1, <1>3, <1>4, <2>2, <2>6, <2>7 DEF Late
<1>5. CASE ~(cleaner.pc = "delete" /\ d = i)
  <2>1. cleaner.pc = "delete" => obj'[d] = obj[d]
    BY <1>1, <1>2, <1>5, LateTypes
  <2> QED BY <1>1, <1>2, <1>3, <1>5, <2>1 DEF Late
<1> QED BY <1>4, <1>5

LEMMA LateStep == IndInv /\ Late /\ [Next]_vars => Late'
<1> SUFFICES ASSUME IndInv, Late, [Next]_vars PROVE Late'
  OBVIOUS
<1> DEFINE d == breakers[cleaner.at]
           S == {"report", "idle", "find"}
<1>0. /\ obj \in [Ids -> Sane] /\ cleaner \in CleanerRecord
      /\ cleaner.pc = "delete" => /\ mgrWriter /\ ~MgrReader /\ d \in Mapped /\ d \in Ids
                                  /\ obj[d].failureCount \in Nat
      /\ caller \in [Callers -> CallerRecord]
  <2>1. cleaner.pc = "delete" => d \in Mapped /\ d \in Ids /\ obj[d].failureCount \in Nat
    BY LateTypes DEF Mapped
  <2>2. cleaner.pc = "delete" => mgrWriter /\ ~MgrReader
    BY DEF IndInv, Locks
  <2> QED BY <2>1, <2>2, LateTypes DEF IndInv, TypeOK, CallerRecord, Stages
<1>1. ASSUME NEW p \in Callers, NEW a \in Observers, Arrive(p, a) PROVE Late'
  <2>1. \A q \in Callers : caller[q].pc \in S => caller'[q].pc \in S
    BY <1>0, <1>1 DEF Arrive
  <2> QED BY <1>1, <2>1, LateIdle DEF Arrive
<1>2. ASSUME NEW p \in Callers, Find(p) \/ Create(p) PROVE Late'
  <2>1. cleaner.pc # "delete"
    BY <1>0, <1>2 DEF Find, Create
  <2> QED BY <1>2, <2>1 DEF Late, Find, Create
<1>3. ASSUME NEW p \in Callers, Check(p) \/ Report(p) PROVE Late'
  <2>1. /\ Forget(p, obj) /\ UNCHANGED <<breakers, cleaner>>
        /\ \A q \in Callers : caller[q].pc \in S => caller'[q].pc \in S
    BY <1>0, <1>3 DEF Check, Report, Return, IdleCaller
  <2>2. cleaner.pc = "delete" => obj'[d] = obj[d]
    BY <1>0, <2>1 DEF Forget, Collect
  <2> QED BY <1>0, <2>1, <2>2, LateKept
<1>4. ASSUME NEW p \in Callers, CallRefused(p) \/ CallAdmitted(p) PROVE Late'
  <2> DEFINE i == caller[p].ref
             b == TryHalfOpen(obj[i])
  <2>1. /\ UNCHANGED <<breakers, cleaner>> /\ caller[p].pc = "call"
        /\ i \in Ids
        /\ \A q \in Callers : caller[q].pc \in S => caller'[q].pc \in S
    BY <1>0, <1>4 DEF CallRefused, CallAdmitted, GoTo, IndInv, TypeOK
  <2>2. b \in Sane
    BY <1>0, <2>1, EnterFacts
  <2>3. \/ obj' = [obj EXCEPT ![i] = b]
        \/ obj' = [obj EXCEPT ![i] = Admit(b)] /\ ~RefusedMaxCalls(b)
    BY <1>4 DEF CallRefused, CallAdmitted
  <2>4. /\ obj'[i] \in Sane /\ obj'[i].failureCount = obj[i].failureCount
        /\ obj'[i].state # "CLOSED" => obj[i].state # "CLOSED"
        /\ \A j \in Ids : j # i => obj'[j] = obj[j]
    <3>1. /\ b.failureCount = obj[i].failureCount
          /\ b.state # "CLOSED" => obj[i].state # "CLOSED"
      BY <1>0, <2>1, LateFacts
    <3> HIDE DEF b
    <3>2. /\ Admit(b).failureCount = b.failureCount
          /\ Admit(b).state # "CLOSED" => b.state # "CLOSED"
          /\ ~RefusedMaxCalls(b) => Admit(b) \in Sane
      BY <2>2, LateFacts, EnterFacts
    <3> QED BY <1>0, <2>1, <2>2, <2>3, <3>1, <3>2
  <2>5. cleaner.pc = "delete" => /\ obj'[d] \in Sane
                                 /\ obj'[d].failureCount <= obj[d].failureCount
                                 /\ obj'[d].state # "CLOSED" => obj[d].state # "CLOSED"
    BY <1>0, <2>1, <2>4
  <2> QED BY <2>1, <2>5, LateKept
<1>5. ASSUME NEW p \in Callers, CallSucceeds(p) PROVE Late'
  <2> DEFINE i == caller[p].ref
             o == [obj EXCEPT ![i] = onSuccess(@)]
  <2>1. /\ Forget(p, o) /\ UNCHANGED <<breakers, cleaner>> /\ i \in Ids
        /\ \A q \in Callers : caller[q].pc \in S => caller'[q].pc \in S
    BY <1>0, <1>5 DEF CallSucceeds, Return, IdleCaller, IndInv, TypeOK
  <2>2. /\ \A j \in Ids : j # i => o[j] = obj[j]
        /\ o[i] = onSuccess(obj[i])
    BY <1>0, <2>1
  <2> HIDE DEF o
  <2>3. cleaner.pc = "delete" => obj'[d] = o[d]
    BY <1>0, <2>1 DEF Forget, Collect
  <2>4. /\ o[i] \in Sane /\ o[i].failureCount <= obj[i].failureCount
        /\ o[i].state # "CLOSED" => obj[i].state # "CLOSED"
    BY <1>0, <2>1, <2>2, SuccessFacts, LateFacts
  <2>5. cleaner.pc = "delete" => /\ obj'[d] \in Sane
                                 /\ obj'[d].failureCount <= obj[d].failureCount
                                 /\ obj'[d].state # "CLOSED" => obj[d].state # "CLOSED"
    BY <1>0, <2>1, <2>2, <2>3, <2>4
  <2> QED BY <2>1, <2>5, LateKept
<1>6. ASSUME NEW p \in Callers, CallFails(p) PROVE Late'
  BY <1>6, LateFailure
<1>7. CASE CleanupStart \/ CleanupReadState \/ CleanupReadCount \/ CleanupDelete \/ CleanupEnd
  <2>1. cleaner'.pc # "delete" /\ cleaner'.late = {}
    <3>1. CASE CleanupStart \/ CleanupEnd
      BY <3>1 DEF CleanupStart, CleanupEnd, IdleCleaner
    <3>2. CASE CleanupReadState
      <4>1. cleaner.late = {}
        BY <3>2 DEF CleanupReadState, Late
      <4>2. PICK a \in cleaner.todo :
               cleaner' = [cleaner EXCEPT
                              !.todo = @ \ {a},
                              !.pc = IF obj[breakers[a]].state = "CLOSED"
                                     THEN "count" ELSE "state",
                              !.at = IF obj[breakers[a]].state = "CLOSED"
                                     THEN a ELSE None]
        BY <3>2 DEF CleanupReadState
      <4> QED BY <1>0, <4>1, <4>2 DEF CleanerRecord
    <3>3. CASE CleanupReadCount
      <4>1. cleaner.late = {}
        BY <3>3 DEF CleanupReadCount, Late
      <4> QED BY <1>0, <3>3, <4>1 DEF CleanupReadCount, NextEntry, CleanerRecord
    <3>4. CASE CleanupDelete
      BY <1>0, <3>4 DEF CleanupDelete, NextEntry, CleanerRecord
    <3> QED BY <1>7, <3>1, <3>2, <3>3, <3>4
  <2> QED BY <2>1 DEF Late
<1>8. CASE CleanupReadTime
  <2>1. cleaner.late = {} /\ cleaner'.late = {} /\ UNCHANGED <<breakers, obj>>
    BY <1>0, <1>8 DEF CleanupReadTime, NextEntry, Late, CleanerRecord
  <2>2. cleaner'.pc = "delete" =>
           /\ cleaner'.at = cleaner.at /\ d \in cleaner.stale
           /\ obj[d].state = "CLOSED" /\ obj[d].failureCount = 0
    BY <1>0, <1>8 DEF CleanupReadTime, NextEntry, IndInv, Reads, CleanerRecord
  <2>3. Cardinality({}) = 0
    BY FS_EmptySet
  <2> QED BY <2>1, <2>2, <2>3 DEF Late
<1>9. ASSUME NEW a \in Observers, ResetOneStart(a) PROVE Late'
  BY <1>9, LateIdle DEF ResetOneStart
<1>10. ASSUME NEW k \in {"resetAll", "stats"}, LoopStart(k) PROVE Late'
  BY <1>10, LateIdle DEF LoopStart
<1>11. CASE LoopStep \/ LoopEnd
  <2>1. cleaner.pc # "delete"
    BY <1>0, <1>11 DEF LoopStep, LoopEnd
  <2> QED BY <1>11, <2>1 DEF Late, LoopStep, LoopEnd
<1>12. CASE ResetOne
  <2> DEFINE i == admin.ref
             o == [obj EXCEPT ![i] = Reset(@)]
  <2>1. /\ obj' = Collect(o, Mapped \cup {caller[q].ref : q \in Callers})
        /\ UNCHANGED <<breakers, cleaner, caller>> /\ i \in Ids
    BY <1>12 DEF ResetOne, IndInv, References, TypeOK
  <2>2. /\ \A j \in Ids : j # i => o[j] = obj[j]
        /\ o[i] = Reset(obj[i])
    BY <1>0, <2>1
  <2> HIDE DEF o
  <2>3. cleaner.pc = "delete" => obj'[d] = o[d]
    BY <1>0, <2>1 DEF Collect
  <2>4. Reset(obj[i]) \in Sane /\ Reset(obj[i]).state = "CLOSED" /\ Reset(obj[i]).failureCount = 0
    BY <1>0, <2>1, ResetFacts
  <2>5. cleaner.pc = "delete" => /\ obj'[d] \in Sane
                                 /\ obj'[d].failureCount <= obj[d].failureCount
                                 /\ obj'[d].state # "CLOSED" => obj[d].state # "CLOSED"
    BY <1>0, <2>1, <2>2, <2>3, <2>4
  <2> QED BY <2>1, <2>5, LateKept
<1>13. CASE Tick
  <2>1. UNCHANGED <<breakers, cleaner, caller>> /\ \A j \in Ids : obj'[j] = Older(obj[j])
    BY <1>13 DEF Tick
  <2>2. cleaner.pc = "delete" => /\ obj'[d] \in Sane
                                 /\ obj'[d].failureCount <= obj[d].failureCount
                                 /\ obj'[d].state # "CLOSED" => obj[d].state # "CLOSED"
    BY <1>0, <2>1, OlderFacts
  <2> QED BY <2>1, <2>2, LateKept
<1>14. CASE UNCHANGED vars
  BY <1>14, LateIdle DEF vars
<1> QED
  BY <1>1, <1>2, <1>3, <1>4, <1>5, <1>6, <1>7, <1>8, <1>9, <1>10, <1>11, <1>12, <1>13, <1>14
     DEF Next, Step, Cleanup, AdminStep

\* Between reading the time of a breaker's last failure and dropping it, the
\* cleanup can lose at most one failure of each request that already held the
\* breaker, and an open circuit only if those alone opened it.
THEOREM CleanupLosesLittle == Spec => CleanupForgetsOnlyLate
<1> DEFINE A == \A a \in Observers :
                   breakers[a] # None /\ breakers'[a] = None =>
                       /\ obj[breakers[a]].failureCount <= Cardinality(cleaner.late)
                       /\ obj[breakers[a]].state # "CLOSED"
                             => MaxFailureCount <= Cardinality(cleaner.late)
<1>1. ASSUME IndInv, Late, [Next]_vars, NEW a \in Observers, breakers[a] # None,
             breakers'[a] = None
      PROVE  /\ obj[breakers[a]].failureCount <= Cardinality(cleaner.late)
             /\ obj[breakers[a]].state # "CLOSED"
                   => MaxFailureCount <= Cardinality(cleaner.late)
  <2>1. CASE CleanupDelete
    <3>1. cleaner.pc = "delete" /\ breakers' = [breakers EXCEPT ![cleaner.at] = None]
      BY <2>1 DEF CleanupDelete
    <3>2. cleaner.at = a
      BY <1>1, <3>1 DEF IndInv, TypeOK
    <3> QED BY <1>1, <3>1, <3>2 DEF Late
  <2>2. ASSUME NEW p \in Callers, Create(p) PROVE FALSE
    <3>1. breakers' # breakers
      BY <1>1
    <3>2. /\ breakers[caller[p].at] = None
          /\ breakers' = [breakers EXCEPT ![caller[p].at] = NewId]
      BY <2>2, <3>1 DEF Create
    <3>3. caller[p].at = a
      BY <1>1, <3>2 DEF IndInv, TypeOK
    <3> QED BY <1>1, <3>2, <3>3
  <2>3. ASSUME UNCHANGED breakers PROVE FALSE
    BY <1>1, <2>3
  <2>4. ASSUME NEW p \in Callers, Step(p), ~Create(p) PROVE UNCHANGED breakers
    BY <2>4 DEF Step, Find, Check, CallRefused, CallAdmitted, CallSucceeds, CallFails, Report
  <2>5. ASSUME Cleanup, ~CleanupDelete PROVE UNCHANGED breakers
    BY <2>5 DEF Cleanup, CleanupStart, CleanupReadState, CleanupReadCount, CleanupReadTime,
                CleanupEnd
  <2>6. CASE \/ \E p \in Callers, b \in Observers : Arrive(p, b)
             \/ \E b \in Observers : ResetOneStart(b)
             \/ \E k \in {"resetAll", "stats"} : LoopStart(k)
             \/ AdminStep \/ Tick \/ UNCHANGED vars
    <3>1. UNCHANGED breakers
      BY <2>6 DEF Arrive, ResetOneStart, LoopStart, AdminStep, ResetOne, LoopStep,
                  LoopEnd, Tick, vars
    <3> QED BY <2>3, <3>1
  <2> QED BY <1>1, <2>1, <2>2, <2>3, <2>4, <2>5, <2>6 DEF Next
<1>2. IndInv /\ Late /\ [Next]_vars => [A]_vars
  BY <1>1
<1>3. Init => Late
  BY DEF Init, IdleCleaner, Late
<1>4. Spec => []Late
  BY <1>3, LateStep, Invariance, PTL DEF Spec
<1> QED BY <1>2, <1>4, Invariance, PTL DEF Spec, CleanupForgetsOnlyLate
=============================================================================
