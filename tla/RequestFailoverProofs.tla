------------------------- MODULE RequestFailoverProofs -------------------------
(***************************************************************************)
(* Proofs about RequestFailover: for any number of requests and observers,  *)
(* any lists and any thresholds of the breakers.                            *)
(***************************************************************************)
EXTENDS RequestFailover, SequenceTheorems, TLAPS

Attempt == [at : Observers, outcome : Outcome]

Request == [pc : {"idle", "check", "call", "ok", "fail"}, kind : LoopKinds \cup {"none"},
            good : BOOLEAN, left : Seq(Observers), tried : Seq(Attempt)]

AtWork(r) == r.pc \in {"check", "call"}

\* What the loop made of the i-th attempt.
Decision(r, i) == Decide(r.kind, Status(r.kind, r.tried[i].outcome))

\* A request is still at work, or ended, because of what its attempts came to:
\* all but the last one said "next", and the last one says why it ended.
LoopOK(r) ==
    /\ r \in Request
    /\ AtWork(r) => r.left # <<>> /\ r.kind \in LoopKinds
    /\ r.tried # <<>> => r.kind \in LoopKinds
    /\ \A i \in 1 .. Len(r.tried) :
          i < Len(r.tried) \/ AtWork(r) => Decision(r, i) = "next"
    /\ r.pc = "ok" => r.tried # <<>> /\ Decision(r, Len(r.tried)) = "ok"
    /\ r.pc = "fail" => r.tried # <<>> /\ (Decision(r, Len(r.tried)) = "fail" \/ r.left = <<>>)

Loops == req \in [Callers -> Request] /\ \A p \in Callers : LoopOK(req[p])

\* A breaker whose counter leaves room for one failure while it is closed.
Sane == {b \in Breaker : b.state = "CLOSED" => b.failureCount < MaxFailureCount}

Breakers == world \in Worlds /\ enabled \in BOOLEAN /\ up \subseteq Observers
            /\ breaker \in [Observers -> Sane]

Steady == Observers \ world.flaky

\* In a calm world a steady observer stays up, its breaker stays closed, and no
\* request at work has passed one.
CalmOK ==
    Calm => /\ Steady \subseteq up
            /\ \A o \in Steady : breaker[o].state = "CLOSED"
            /\ \A p \in Callers :
                  /\ req[p].pc # "fail"
                  /\ AtWork(req[p]) =>
                        /\ req[p].good /\ req[p].kind \in {"key", "block"}
                        /\ \E i \in 1 .. Len(req[p].left) : req[p].left[i] \in Steady

IndInv == Breakers /\ Loops /\ CalmOK
-----------------------------------------------------------------------------
(* The breakers *)

LEMMA MaxFailures == MaxFailureCount \in Nat /\ 1 <= MaxFailureCount
                     /\ FailureThreshold <= MaxFailureCount
  BY BreakerConfig DEF MaxFailureCount

LEMMA NewIsSane == NewCircuitBreaker \in Sane /\ NewCircuitBreaker.state = "CLOSED"
  BY BreakerConfig, MaxFailures DEF NewCircuitBreaker, CB, Breaker, CircuitBreakerState, Sane

LEMMA TryHalfOpenIsSane ==
    ASSUME NEW b \in Sane
    PROVE  TryHalfOpen(b) \in Sane /\ (b.state = "CLOSED" => TryHalfOpen(b) = b)
  BY BreakerConfig, MaxFailures DEF TryHalfOpen, CB, Breaker, CircuitBreakerState, Sane

LEMMA OlderIsSane ==
    ASSUME NEW b \in Sane
    PROVE  Older(b) \in Sane /\ (b.state = "CLOSED" => Older(b).state = "CLOSED")
  BY BreakerConfig, MaxFailures DEF Older, Breaker, Sane

LEMMA AdmitIsSane ==
    ASSUME NEW b \in Sane, ~RefusedOpen(b), ~RefusedMaxCalls(b)
    PROVE  /\ Admit(b) \in Sane /\ Admit(b).state \in {"CLOSED", "HALF_OPEN"}
           /\ b.state = "CLOSED" => Admit(b) = b
  BY BreakerConfig, MaxFailures
     DEF Admit, RefusedOpen, RefusedMaxCalls, Breaker, CircuitBreakerState, Sane

LEMMA SuccessIsSane ==
    ASSUME NEW b \in Sane
    PROVE  onSuccess(b) \in Sane /\ (b.state = "CLOSED" => onSuccess(b).state = "CLOSED")
<1>1. CASE b.state # "HALF_OPEN"
  BY <1>1, BreakerConfig, MaxFailures DEF onSuccess, Breaker, CircuitBreakerState, Sane
<1>2. CASE b.state = "HALF_OPEN" /\ b.successCount + 1 >= SuccessThreshold
  BY <1>2, BreakerConfig, MaxFailures
     DEF onSuccess, Reset, CB, Breaker, CircuitBreakerState, Sane
<1>3. CASE b.state = "HALF_OPEN" /\ ~(b.successCount + 1 >= SuccessThreshold)
  BY <1>3, BreakerConfig, MaxFailures DEF onSuccess, Breaker, CircuitBreakerState, Sane
<1> QED
  BY <1>1, <1>2, <1>3

LEMMA FailureIsSane ==
    ASSUME NEW b \in Sane
    PROVE  onFailure(b) \in Sane
<1>1. CASE b.state = "CLOSED"
  BY <1>1, BreakerConfig, MaxFailures
     DEF onFailure, CB, Breaker, CircuitBreakerState, Sane, MaxFailureCount
<1>2. CASE b.state = "HALF_OPEN"
  BY <1>2, BreakerConfig, MaxFailures DEF onFailure, CB, Breaker, CircuitBreakerState, Sane
<1>3. CASE b.state = "OPEN"
  BY <1>3, BreakerConfig, MaxFailures DEF onFailure, Breaker, CircuitBreakerState, Sane
<1> QED
  BY <1>1, <1>2, <1>3 DEF Sane, Breaker, CircuitBreakerState
-----------------------------------------------------------------------------
(* The loops *)

Nobody == {"down", "silent", "refused"}

\* What each kind of loop does with each outcome.
LEMMA SendTable ==
    ASSUME NEW x \in Outcome
    PROVE  Decide("send", Status("send", x)) =
             IF x = "200" THEN "ok" ELSE IF x \in Nobody \cup {"404"} THEN "next" ELSE "fail"
  BY DEF Outcome, AllAnswers, Nobody, Decide, DecideSend, Status, IsPost

LEMMA QueryTable ==
    ASSUME NEW x \in Outcome
    PROVE  Decide("query", Status("query", x)) =
             IF x \in Nobody \cup {"404"} THEN "next"
             ELSE IF x \in {"200", "200bad"} THEN "ok" ELSE "fail"
  BY DEF Outcome, AllAnswers, Nobody, Decide, DecideQuery, Status, IsPost

LEMMA KeyTable ==
    ASSUME NEW x \in Outcome
    PROVE  Decide("key", Status("key", x)) =
             IF x \in {"200", "400", "500"} THEN "ok" ELSE "next"
  BY DEF Outcome, AllAnswers, Nobody, Decide, DecideKey, Status, IsPost

LEMMA BlockTable ==
    ASSUME NEW x \in Outcome
    PROVE  Decide("block", Status("block", x)) = IF x = "200" THEN "ok" ELSE "next"
  BY DEF Outcome, AllAnswers, Nobody, Decide, DecideBlock, Status, IsPost

LEMMA DecisionType ==
    ASSUME NEW k \in LoopKinds, NEW x \in Outcome
    PROVE  Decide(k, Status(k, x)) \in {"ok", "next", "fail"}
  BY SendTable, QueryTable, KeyTable, BlockTable DEF LoopKinds

\* The request after an attempt that came to x.
After(r, x) ==
    LET d == Decide(r.kind, Status(r.kind, x))
    IN [r EXCEPT !.tried = Append(@, [at |-> Head(r.left), outcome |-> x]),
                 !.left = Tail(@),
                 !.pc = IF d # "next" THEN d
                        ELSE IF Tail(r.left) = <<>> THEN "fail" ELSE "check"]

\* The fields of After.
LEMMA AfterFields ==
    ASSUME NEW r \in Request, AtWork(r), r.left # <<>>, r.kind \in LoopKinds, NEW x \in Outcome
    PROVE  LET d == Decide(r.kind, Status(r.kind, x))
               n == After(r, x)
           IN /\ n \in Request
              /\ n.kind = r.kind /\ n.good = r.good
              /\ n.left = Tail(r.left)
              /\ n.tried = Append(r.tried, [at |-> Head(r.left), outcome |-> x])
              /\ n.pc = IF d # "next" THEN d
                        ELSE IF Tail(r.left) = <<>> THEN "fail" ELSE "check"
<1> DEFINE d == Decide(r.kind, Status(r.kind, x))
           a == [at |-> Head(r.left), outcome |-> x]
           c == IF d # "next" THEN d ELSE IF Tail(r.left) = <<>> THEN "fail" ELSE "check"
<1>1. d \in {"ok", "next", "fail"}
  BY DecisionType
<1>2. r.left \in Seq(Observers) /\ r.tried \in Seq(Attempt)
  BY DEF Request
<1>3. Head(r.left) \in Observers /\ Tail(r.left) \in Seq(Observers)
  BY <1>2, HeadTailProperties
<1>4. a \in Attempt
  BY <1>3 DEF Attempt
<1>5. Append(r.tried, a) \in Seq(Attempt)
  BY <1>2, <1>4, AppendProperties
<1>6. c \in {"idle", "check", "call", "ok", "fail"}
  BY <1>1
<1>7. After(r, x) = [r EXCEPT !.tried = Append(@, a), !.left = Tail(@), !.pc = c]
  BY DEF After
<1> HIDE DEF d, a, c
<1>8. /\ After(r, x) \in Request
      /\ After(r, x).kind = r.kind /\ After(r, x).good = r.good
      /\ After(r, x).left = Tail(r.left)
      /\ After(r, x).tried = Append(r.tried, a)
      /\ After(r, x).pc = c
  BY <1>3, <1>5, <1>6, <1>7 DEF Request
<1> QED
  BY <1>8 DEF d, a, c

\* An attempt keeps the loop's account.
LEMMA AfterIsOK ==
    ASSUME NEW r, LoopOK(r), AtWork(r), NEW x \in Outcome
    PROVE  LoopOK(After(r, x))
<1> DEFINE n == After(r, x)
           d == Decide(r.kind, Status(r.kind, x))
           a == [at |-> Head(r.left), outcome |-> x]
<1>1. r \in Request /\ r.left # <<>> /\ r.kind \in LoopKinds
  BY DEF LoopOK
<1>2. /\ n \in Request /\ n.kind = r.kind
      /\ n.left = Tail(r.left) /\ n.tried = Append(r.tried, a)
      /\ n.pc = IF d # "next" THEN d ELSE IF Tail(r.left) = <<>> THEN "fail" ELSE "check"
  BY <1>1, AfterFields
<1>3. d \in {"ok", "next", "fail"}
  BY <1>1, DecisionType
<1>4. r.tried \in Seq(Attempt) /\ Len(r.tried) \in Nat
  BY <1>1, LenProperties DEF Request
<1>5. /\ Len(n.tried) = Len(r.tried) + 1 /\ n.tried # <<>>
      /\ \A i \in 1 .. Len(r.tried) : n.tried[i] = r.tried[i]
      /\ n.tried[Len(n.tried)] = a
  <2>1. n.tried = Append(r.tried, a)
    BY <1>2
  <2> HIDE DEF n, a
  <2> QED
    BY <1>4, <2>1
<1>6. Decision(n, Len(n.tried)) = d
  BY <1>2, <1>5 DEF Decision
<1>7. \A i \in 1 .. Len(r.tried) : Decision(n, i) = "next"
  <2>1. \A i \in 1 .. Len(r.tried) : Decision(r, i) = "next"
    BY <1>4 DEF LoopOK
  <2>2. \A i \in 1 .. Len(r.tried) : Decision(n, i) = Decision(r, i)
    BY <1>2, <1>5 DEF Decision
  <2> QED
    BY <2>1, <2>2
<1>8. AtWork(n) => d = "next" /\ n.left # <<>>
  BY <1>2, <1>3 DEF AtWork
<1> HIDE DEF n, d, a
<1>9. \A i \in 1 .. Len(n.tried) : i < Len(n.tried) \/ AtWork(n) => Decision(n, i) = "next"
  <2> SUFFICES ASSUME NEW i \in 1 .. Len(n.tried), i < Len(n.tried) \/ AtWork(n)
               PROVE  Decision(n, i) = "next"
    OBVIOUS
  <2>1. CASE i \in 1 .. Len(r.tried)
    BY <2>1, <1>7
  <2>2. CASE i \notin 1 .. Len(r.tried)
    <3>1. i = Len(n.tried)
      BY <2>2, <1>4, <1>5
    <3>2. AtWork(n)
      BY <3>1, <1>4, <1>5
    <3> QED
      BY <3>1, <3>2, <1>6, <1>8
  <2> QED
    BY <2>1, <2>2
<1>10. n.pc = "ok" => d = "ok"
  BY <1>2, <1>3
<1>11. n.pc = "fail" => d = "fail" \/ n.left = <<>>
  BY <1>2, <1>3
<1>12. n.kind \in LoopKinds
  BY <1>1, <1>2
<1> QED
  BY <1>2, <1>5, <1>6, <1>8, <1>9, <1>10, <1>11, <1>12 DEF LoopOK, n
-----------------------------------------------------------------------------
(* The steps *)

LEMMA InitIndInv == Init => IndInv
<1> SUFFICES ASSUME Init PROVE IndInv
  OBVIOUS
<1>1. Breakers
  BY NewIsSane DEF Init, Breakers
<1>2. IdleRequest \in Request
  BY DEF IdleRequest, Request
<1>3. LoopOK(IdleRequest)
  BY <1>2 DEF IdleRequest, LoopOK, AtWork
<1>4. Loops
  BY <1>2, <1>3 DEF Init, Loops
<1>5. CalmOK
  BY NewIsSane DEF Init, CalmOK, Steady, IdleRequest, AtWork
<1> QED
  BY <1>1, <1>4, <1>5 DEF IndInv

\* An attempt that comes to x, with the breaker of its observer changed to b.
LEMMA AttemptStep ==
    ASSUME IndInv, NEW p \in Callers, AtWork(req[p]), NEW x \in Outcome, Conclude(p, x),
           UNCHANGED <<world, enabled, up>>,
           breaker' \in [Observers -> Sane],
           Calm => /\ \A o \in Steady : breaker'[o].state = "CLOSED"
                   /\ Head(req[p].left) \in Steady => x = "200"
    PROVE  IndInv'
<1> DEFINE r == req[p]
           n == After(r, x)
<1> USE DEF IndInv
<1>1. req' = [req EXCEPT ![p] = n] /\ req \in [Callers -> Request]
  BY DEF Conclude, After, Loops
<1>2. LoopOK(r) /\ LoopOK(n)
  BY AfterIsOK DEF Loops
<1>3. Breakers'
  BY DEF Breakers
<1>4. Loops'
  <2>1. n \in Request
    BY <1>2 DEF LoopOK
  <2> HIDE DEF n
  <2>2. req' \in [Callers -> Request] /\ \A q \in Callers : req'[q] = IF q = p THEN n ELSE req[q]
    BY <1>1, <2>1
  <2> QED
    BY <1>2, <2>2 DEF Loops
<1>5. CalmOK'
  <2> SUFFICES ASSUME Calm' PROVE /\ Steady' \subseteq up'
                                  /\ \A o \in Steady' : breaker'[o].state = "CLOSED"
                                  /\ \A q \in Callers :
                                       /\ req'[q].pc # "fail"
                                       /\ AtWork(req'[q]) =>
                                            /\ req'[q].good /\ req'[q].kind \in {"key", "block"}
                                            /\ \E i \in 1 .. Len(req'[q].left) :
                                                  req'[q].left[i] \in Steady'
    BY DEF CalmOK
  <2>1. Calm /\ Steady' = Steady
    BY DEF Calm, Steady
  <2>2. /\ r.good /\ r.kind \in {"key", "block"}
        /\ \E i \in 1 .. Len(r.left) : r.left[i] \in Steady
    BY <2>1 DEF CalmOK
  <2>3. r \in Request /\ r.left # <<>> /\ r.left \in Seq(Observers) /\ r.kind \in LoopKinds
    BY <1>2 DEF LoopOK, Request
  <2> DEFINE d == Decide(r.kind, Status(r.kind, x))
  <2>4. /\ n.kind = r.kind /\ n.good = r.good /\ n.left = Tail(r.left)
        /\ n.pc = IF d # "next" THEN d ELSE IF Tail(r.left) = <<>> THEN "fail" ELSE "check"
    BY <2>3, AfterFields
  <2>5. d \in {"ok", "next"} /\ (x = "200" => d = "ok")
    BY <2>2, KeyTable, BlockTable
  <2>6. CASE d = "ok"
    <3>1. n.pc = "ok"
      BY <2>4, <2>6
    <3> HIDE DEF n
    <3>2. \A q \in Callers : req'[q] = IF q = p THEN n ELSE req[q]
      BY <1>1
    <3> QED
      BY <2>1, <3>1, <3>2 DEF CalmOK, AtWork
  <2>7. CASE d = "next"
    <3>1. Head(r.left) \notin Steady
      BY <2>1, <2>5, <2>7
    <3>2. PICK i \in 1 .. Len(r.left) : r.left[i] \in Steady
      BY <2>2
    <3>3. /\ Tail(r.left) \in Seq(Observers) /\ Len(Tail(r.left)) = Len(r.left) - 1
          /\ \A j \in 1 .. Len(Tail(r.left)) : Tail(r.left)[j] = r.left[j + 1]
      BY <2>3, HeadTailProperties
    <3>4. Head(r.left) = r.left[1] /\ Len(r.left) \in Nat
      BY <2>3
    <3>5. i # 1
      BY <3>1, <3>2, <3>4
    <3>6. i - 1 \in 1 .. Len(Tail(r.left)) /\ Tail(r.left)[i - 1] = r.left[i]
      BY <3>3, <3>4, <3>5
    <3>7. Tail(r.left) # <<>>
      <4>1. SUFFICES ASSUME Tail(r.left) = <<>> PROVE FALSE
        OBVIOUS
      <4>2. Len(Tail(r.left)) = 0
        BY <4>1, EmptySeq
      <4> QED
        BY <3>6, <4>2
    <3>8. n.pc = "check"
      BY <2>4, <2>7, <3>7
    <3>9. \E j \in 1 .. Len(n.left) : n.left[j] \in Steady
      BY <2>4, <3>2, <3>6
    <3> HIDE DEF n
    <3>10. \A q \in Callers : req'[q] = IF q = p THEN n ELSE req[q]
      BY <1>1
    <3>11. n.good /\ n.kind \in {"key", "block"} /\ n.pc # "fail"
      BY <2>2, <2>4, <3>8 DEF n
    <3>12. ASSUME NEW q \in Callers
           PROVE  /\ req'[q].pc # "fail"
                  /\ AtWork(req'[q]) =>
                       /\ req'[q].good /\ req'[q].kind \in {"key", "block"}
                       /\ \E j \in 1 .. Len(req'[q].left) : req'[q].left[j] \in Steady
      <4>1. CASE q = p
        BY <3>9, <3>10, <3>11, <4>1
      <4>2. CASE q # p
        BY <2>1, <3>10, <4>2 DEF CalmOK
      <4> QED
        BY <4>1, <4>2
    <3> QED
      BY <2>1, <3>12 DEF CalmOK
  <2> QED
    BY <2>5, <2>6, <2>7
<1> QED
  BY <1>3, <1>4, <1>5

LEMMA NextIndInv == IndInv /\ [Next]_vars => IndInv'
<1> SUFFICES ASSUME IndInv, [Next]_vars PROVE IndInv'
  OBVIOUS
<1> USE DEF IndInv
<1>1. ASSUME NEW p \in Callers, NEW kind \in world.kinds, NEW good \in BOOLEAN,
             NEW l \in Lists, Arrive(p, kind, good, l)
      PROVE  IndInv'
  <2> DEFINE n == [pc |-> "check", kind |-> kind, good |-> good, left |-> l, tried |-> <<>>]
  <2>1. kind \in LoopKinds /\ l \in Seq(Observers) /\ l # <<>>
    BY FailoverConfig DEF Breakers
  <2>2. n \in Request
    BY <2>1 DEF Request
  <2>3. LoopOK(n)
    BY <2>1, <2>2 DEF LoopOK, AtWork
  <2>4. req' = [req EXCEPT ![p] = n] /\ UNCHANGED <<world, enabled, breaker, up>>
    BY <1>1 DEF Arrive
  <2>5. Calm => good /\ kind \in {"key", "block"} /\ \E i \in 1 .. Len(l) : l[i] \in Steady
    <3> SUFFICES ASSUME Calm PROVE good /\ kind \in {"key", "block"}
                                   /\ \E i \in 1 .. Len(l) : l[i] \in Steady
      OBVIOUS
    <3>1. PICK i \in DOMAIN l : l[i] \notin world.flaky
      BY DEF Calm
    <3>2. DOMAIN l = 1 .. Len(l) /\ l[i] \in Observers
      BY <2>1, <3>1
    <3> QED
      BY <1>1, <3>1, <3>2 DEF Calm, Arrive, Steady
  <2>6. n.pc = "check" /\ n.good = good /\ n.kind = kind /\ n.left = l
    OBVIOUS
  <2> HIDE DEF n
  <2>7. \A q \in Callers : req'[q] = IF q = p THEN n ELSE req[q]
    BY <2>4 DEF Loops
  <2>8. Loops'
    BY <2>2, <2>3, <2>4, <2>7 DEF Loops
  <2>9. Breakers'
    BY <2>4 DEF Breakers
  <2>10. CalmOK'
    <3>1. Calm' = Calm /\ Steady' = Steady
      BY <2>4 DEF Calm, Steady
    <3>2. ASSUME Calm, NEW q \in Callers
          PROVE  /\ req'[q].pc # "fail"
                 /\ AtWork(req'[q]) =>
                      /\ req'[q].good /\ req'[q].kind \in {"key", "block"}
                      /\ \E i \in 1 .. Len(req'[q].left) : req'[q].left[i] \in Steady
      <4>1. CASE q = p
        BY <2>5, <2>6, <2>7, <3>2, <4>1
      <4>2. CASE q # p
        BY <2>7, <3>2, <4>2 DEF CalmOK
      <4> QED
        BY <4>1, <4>2
    <3> QED
      BY <2>4, <3>1, <3>2 DEF CalmOK
  <2> QED
    BY <2>8, <2>9, <2>10
<1>2. ASSUME NEW p \in Callers, Check(p) PROVE IndInv'
  <2> DEFINE o == Head(req[p].left)
  <2>1. AtWork(req[p]) /\ o \in Observers /\ UNCHANGED <<world, enabled, breaker, up>>
    <3>1. AtWork(req[p]) /\ UNCHANGED <<world, enabled, breaker, up>>
      BY <1>2 DEF Check, AtWork
    <3>2. req[p].left \in Seq(Observers) /\ req[p].left # <<>>
      BY <3>1 DEF Loops, LoopOK, Request
    <3> QED
      BY <3>1, <3>2, HeadTailProperties
  <2>2. CASE ~CanExecute(breaker[o]) /\ Conclude(p, "503")
    <3>1. breaker' \in [Observers -> Sane]
      BY <2>1 DEF Breakers
    <3>2. Calm => o \notin Steady
      BY <2>1, <2>2 DEF CalmOK, CanExecute
    <3>3. Calm => \A v \in Steady : breaker'[v].state = "CLOSED"
      BY <2>1 DEF CalmOK
    <3>4. "503" \in Outcome
      BY DEF Outcome
    <3> QED
      BY <2>1, <2>2, <3>1, <3>2, <3>3, <3>4, AttemptStep
  <2>3. CASE req' = [req EXCEPT ![p].pc = "call"]
    <3> DEFINE n == [req[p] EXCEPT !.pc = "call"]
    <3>1. LoopOK(req[p])
      BY DEF Loops
    <3>2. /\ n \in Request /\ n.pc = "call" /\ n.kind = req[p].kind /\ n.good = req[p].good
          /\ n.left = req[p].left /\ n.tried = req[p].tried
      BY <3>1 DEF LoopOK, Request
    <3>3. AtWork(n) /\ \A i : Decision(n, i) = Decision(req[p], i)
      BY <3>2 DEF AtWork, Decision
    <3>4. LoopOK(n)
      BY <2>1, <3>1, <3>2, <3>3 DEF LoopOK
    <3>5. req' = [req EXCEPT ![p] = n]
      BY <2>3
    <3> HIDE DEF n
    <3>6. \A q \in Callers : req'[q] = IF q = p THEN n ELSE req[q]
      BY <3>5 DEF Loops
    <3>7. Loops'
      BY <3>2, <3>4, <3>5, <3>6 DEF Loops
    <3>8. Breakers'
      BY <2>1 DEF Breakers
    <3>9. CalmOK'
      <4>1. Calm' = Calm /\ Steady' = Steady
        BY <2>1 DEF Calm, Steady
      <4> QED
        BY <2>1, <3>2, <3>6, <4>1 DEF CalmOK
    <3> QED
      BY <3>7, <3>8, <3>9
  <2> QED
    BY <1>2, <2>2, <2>3 DEF Check
<1>3. ASSUME NEW p \in Callers, Called(p) \/ Refused(p) PROVE IndInv'
  <2> DEFINE o == Head(req[p].left)
             b == TryHalfOpen(breaker[o])
  <2>1. AtWork(req[p]) /\ o \in Observers /\ UNCHANGED <<world, enabled, up>>
    <3>1. AtWork(req[p]) /\ UNCHANGED <<world, enabled, up>>
      BY <1>3 DEF Called, Refused, AtWork
    <3>2. req[p].left \in Seq(Observers) /\ req[p].left # <<>>
      BY <3>1 DEF Loops, LoopOK, Request
    <3> QED
      BY <3>1, <3>2, HeadTailProperties
  <2>2. breaker[o] \in Sane /\ b \in Sane /\ (breaker[o].state = "CLOSED" => b = breaker[o])
    BY <2>1, TryHalfOpenIsSane DEF Breakers
  <2>3. CASE Refused(p)
    <3>1. breaker' = [breaker EXCEPT ![o] = b] /\ Conclude(p, "refused")
          /\ (RefusedOpen(b) \/ RefusedMaxCalls(b))
      BY <2>3 DEF Refused
    <3>2. breaker[o].state # "CLOSED"
      BY <2>2, <3>1 DEF RefusedOpen, RefusedMaxCalls
    <3> HIDE DEF b, o
    <3>3. breaker' \in [Observers -> Sane]
      BY <2>2, <3>1 DEF Breakers
    <3>4. Calm => o \notin Steady /\ \A v \in Steady : breaker'[v].state = "CLOSED"
      BY <2>1, <3>1, <3>2 DEF CalmOK, Breakers, Steady
    <3>5. "refused" \in Outcome
      BY DEF Outcome
    <3> QED
      BY <2>1, <3>1, <3>3, <3>4, <3>5, AttemptStep DEF o
  <2>4. CASE Called(p)
    <3>1. PICK x \in Outcomes(p) :
             /\ breaker' = IF ~enabled THEN breaker
                           ELSE [breaker EXCEPT ![o] = IF x = "200"
                                                       THEN onSuccess(Admit(b))
                                                       ELSE onFailure(Admit(b))]
             /\ Conclude(p, x)
      BY <2>4 DEF Called
    <3>2. x \in Outcome
      BY <3>1, FailoverConfig DEF Outcomes, Outcome, Breakers
    <3>3. Calm /\ o \in Steady => x = "200"
      BY <2>1, <3>1 DEF CalmOK, Calm, Outcomes, Steady
    <3>4. breaker' \in [Observers -> Sane]
          /\ (Calm => \A v \in Steady : breaker'[v].state = "CLOSED")
      <4>1. CASE ~enabled
        BY <3>1, <4>1 DEF Breakers, CalmOK
      <4>2. CASE enabled
        <5>1. ~RefusedOpen(b) /\ ~RefusedMaxCalls(b)
          BY <2>4, <4>2 DEF Called
        <5>2. Admit(b) \in Sane /\ (b.state = "CLOSED" => Admit(b) = b)
          BY <2>2, <5>1, AdmitIsSane
        <5>3. onSuccess(Admit(b)) \in Sane /\ onFailure(Admit(b)) \in Sane
              /\ (b.state = "CLOSED" => onSuccess(Admit(b)).state = "CLOSED")
          BY <5>2, SuccessIsSane, FailureIsSane
        <5> HIDE DEF b, o
        <5>4. breaker' = [breaker EXCEPT ![o] = IF x = "200" THEN onSuccess(Admit(b))
                                                            ELSE onFailure(Admit(b))]
          BY <3>1, <4>2
        <5>5. breaker' \in [Observers -> Sane]
          BY <2>1, <5>3, <5>4 DEF Breakers
        <5>6. ASSUME Calm, NEW v \in Steady PROVE breaker'[v].state = "CLOSED"
          <6>1. v \in Observers /\ breaker[v].state = "CLOSED"
            BY <5>6 DEF CalmOK, Steady
          <6>2. CASE v # o
            BY <5>4, <6>1, <6>2 DEF Breakers
          <6>3. CASE v = o
            <7>1. x = "200" /\ b.state = "CLOSED"
              BY <2>2, <3>3, <5>6, <6>1, <6>3
            <7> QED
              BY <5>3, <5>4, <6>1, <6>3, <7>1 DEF Breakers
          <6> QED
            BY <6>2, <6>3
        <5> QED
          BY <5>5, <5>6
      <4> QED
        BY <4>1, <4>2
    <3> QED
      BY <2>1, <3>1, <3>2, <3>3, <3>4, AttemptStep
  <2> QED
    BY <1>3, <2>3, <2>4
<1>4. ASSUME NEW p \in Callers, Reply(p) PROVE IndInv'
  <2>1. req' = [req EXCEPT ![p] = IdleRequest] /\ UNCHANGED <<world, enabled, breaker, up>>
    BY <1>4 DEF Reply
  <2>2. IdleRequest \in Request /\ IdleRequest.pc = "idle"
    BY DEF IdleRequest, Request
  <2>3. LoopOK(IdleRequest)
    BY <2>2 DEF IdleRequest, LoopOK, AtWork
  <2>4. \A q \in Callers : req'[q] = IF q = p THEN IdleRequest ELSE req[q]
    BY <2>1 DEF Loops
  <2>5. Loops' /\ Breakers'
    BY <2>1, <2>2, <2>3, <2>4 DEF Loops, Breakers
  <2>6. CalmOK'
    <3>1. Calm' = Calm /\ Steady' = Steady
      BY <2>1 DEF Calm, Steady
    <3> QED
      BY <2>1, <2>2, <2>4, <3>1 DEF CalmOK, AtWork
  <2> QED
    BY <2>5, <2>6
<1>5. ASSUME NEW o \in Observers, Flip(o) PROVE IndInv'
  <2>1. UNCHANGED <<world, enabled, breaker, req>> /\ o \in world.flaky
        /\ up' = IF o \in up THEN up \ {o} ELSE up \cup {o}
    BY <1>5 DEF Flip
  <2>2. Loops' /\ Breakers'
    BY <2>1 DEF Loops, Breakers
  <2>3. CalmOK'
    <3>1. Calm' = Calm /\ Steady' = Steady
      BY <2>1 DEF Calm, Steady
    <3> QED
      BY <2>1, <3>1 DEF CalmOK, Steady
  <2> QED
    BY <2>2, <2>3
<1>6. ASSUME Tick PROVE IndInv'
  <2>1. UNCHANGED <<world, enabled, up, req>> /\ breaker' = [v \in Observers |-> Older(breaker[v])]
    BY <1>6 DEF Tick
  <2>2. Loops' /\ Breakers'
    BY <2>1, OlderIsSane DEF Loops, Breakers
  <2>3. CalmOK'
    <3>1. Calm' = Calm /\ Steady' = Steady
      BY <2>1 DEF Calm, Steady
    <3>2. \A v \in Steady : breaker[v].state = "CLOSED" => breaker'[v].state = "CLOSED"
      BY <2>1, OlderIsSane DEF Breakers, Steady
    <3> QED
      BY <2>1, <3>1, <3>2 DEF CalmOK
  <2> QED
    BY <2>2, <2>3
<1>7. ASSUME UNCHANGED vars PROVE IndInv'
  <2>1. UNCHANGED <<world, enabled, breaker, up, req>>
    BY <1>7 DEF vars
  <2>2. Calm' = Calm /\ Steady' = Steady
    BY <2>1 DEF Calm, Steady
  <2> QED
    BY <2>1, <2>2 DEF Breakers, Loops, CalmOK
<1> QED
  BY <1>1, <1>2, <1>3, <1>4, <1>5, <1>6, <1>7 DEF Next, Step

LEMMA Invariance == Spec => []IndInv
BY InitIndInv, NextIndInv, PTL DEF Spec
-----------------------------------------------------------------------------
\* Every variable keeps its type, and a request at work has an observer left.
THEOREM TypeCorrect == Spec => []TypeOK
<1>1. IndInv => TypeOK
  <2> SUFFICES ASSUME IndInv PROVE TypeOK
    OBVIOUS
  <2>1. breaker \in [Observers -> Breaker]
    BY DEF IndInv, Breakers, Sane
  <2>2. ASSUME NEW p \in Callers
        PROVE  /\ req[p].pc \in {"idle", "check", "call", "ok", "fail"}
               /\ req[p].pc \in {"check", "call"} => req[p].left # <<>>
               /\ \A i \in DOMAIN req[p].tried :
                     /\ req[p].tried[i].at \in Observers
                     /\ req[p].tried[i].outcome \in Outcome
    <3>1. LoopOK(req[p])
      BY DEF IndInv, Loops
    <3>2. req[p] \in Request /\ (AtWork(req[p]) => req[p].left # <<>>)
      BY <3>1 DEF LoopOK
    <3>3. req[p].tried \in Seq(Attempt) /\ req[p].pc \in {"idle", "check", "call", "ok", "fail"}
      BY <3>2 DEF Request
    <3>4. \A i \in DOMAIN req[p].tried : req[p].tried[i] \in Attempt
      BY <3>3
    <3> QED
      BY <3>2, <3>3, <3>4 DEF AtWork, Attempt
  <2> QED
    BY <2>1, <2>2 DEF IndInv, Breakers, TypeOK
<1> QED
  BY Invariance, <1>1, PTL

\* What the account of a loop says of its attempts.
LEMMA Account ==
    ASSUME IndInv, NEW p \in Callers
    PROVE  LET r == req[p]
           IN /\ LoopOK(r) /\ Len(r.tried) \in Nat
              /\ DOMAIN r.tried = 1 .. Len(r.tried)
              /\ \A i \in 1 .. Len(r.tried) : r.tried[i].outcome \in Outcome
              /\ r.tried # <<>> => Len(r.tried) \in 1 .. Len(r.tried)
<1>1. LoopOK(req[p])
  BY DEF IndInv, Loops
<1>2. req[p].tried \in Seq(Attempt)
  BY <1>1 DEF LoopOK, Request
<1>3. \A i \in 1 .. Len(req[p].tried) : req[p].tried[i] \in Attempt
  BY <1>2
<1> QED
  BY <1>1, <1>2, <1>3, LenProperties, EmptySeq DEF Attempt

\* SendTransaction and simulateTransaction: nobody gets a transaction that an
\* observer has answered, other than with 404.
THEOREM NoTransactionTwice == Spec => []NoSecondSend
<1>1. IndInv => NoSecondSend
  <2> SUFFICES ASSUME IndInv, NEW p \in Callers, req[p].kind = "send",
                      NEW i \in DOMAIN req[p].tried,
                      req[p].tried[i].outcome \in Answered \ {"404"}
               PROVE  i = Len(req[p].tried)
    BY DEF NoSecondSend
  <2>1. /\ LoopOK(req[p]) /\ i \in 1 .. Len(req[p].tried) /\ Len(req[p].tried) \in Nat
        /\ req[p].tried[i].outcome \in Outcome
    BY Account
  <2>2. Decision(req[p], i) # "next"
    BY <2>1, SendTable DEF Decision, Answered, AllAnswers, Nobody
  <2> QED
    BY <2>1, <2>2 DEF LoopOK
<1> QED
  BY Invariance, <1>1, PTL

\* A success of the "send" and "block" loops is a parsed answer.
THEOREM SuccessNeedsAnswer == Spec => []SuccessIsAnswered
<1>1. IndInv => SuccessIsAnswered
  <2> SUFFICES ASSUME IndInv, NEW p \in Callers, req[p].pc = "ok",
                      req[p].kind \in {"send", "block"}
               PROVE  LastOutcome(p) = "200"
    BY DEF SuccessIsAnswered
  <2>1. LoopOK(req[p]) /\ req[p].tried # <<>> /\ Decision(req[p], Len(req[p].tried)) = "ok"
    BY Account DEF LoopOK
  <2>2. req[p].tried[Len(req[p].tried)].outcome \in Outcome
    BY <2>1, Account
  <2> QED
    BY <2>1, <2>2, SendTable, BlockTable DEF Decision, LastOutcome
<1> QED
  BY Invariance, <1>1, PTL

\* No dead or silent observer, and no breaker that closed the door after
\* CanExecute, ends a request that has observers left.
THEOREM DeadObserversAreSkipped == Spec => []DeadObserverIsSkipped
<1>1. IndInv => DeadObserverIsSkipped
  <2> SUFFICES ASSUME IndInv, NEW p \in Callers, req[p].pc = "fail", req[p].left # <<>>
               PROVE  LastOutcome(p) \in Answered \cup {"503"}
    BY DEF DeadObserverIsSkipped
  <2>1. LoopOK(req[p]) /\ req[p].tried # <<>> /\ Decision(req[p], Len(req[p].tried)) = "fail"
    BY Account DEF LoopOK
  <2>2. req[p].tried[Len(req[p].tried)].outcome \in Outcome /\ req[p].kind \in LoopKinds
    BY <2>1, Account DEF LoopOK
  <2> QED
    BY <2>1, <2>2, SendTable, QueryTable, KeyTable, BlockTable
       DEF Decision, LastOutcome, LoopKinds, Outcome, AllAnswers, Answered, Nobody
<1> QED
  BY Invariance, <1>1, PTL

\* One steady observer per list is enough for every good request, whatever the
\* thresholds of the breakers and the other observers do.
THEOREM SteadyObserverServes == Spec => []GoodRequestsServed
<1>1. IndInv => GoodRequestsServed
  BY DEF IndInv, CalmOK, GoodRequestsServed
<1> QED
  BY Invariance, <1>1, PTL
=============================================================================
