--------------------------- MODULE RequestFailover ---------------------------
(***************************************************************************)
(* How the processors use the observers of a shard: each request goes       *)
(* through the list the nodes provider gave it and calls one observer after *)
(* the other, through executeGetRequest / executePostRequest of             *)
(* process/baseProcessor.go and so through the observer's circuit breaker,  *)
(* until its own loop decides to stop.  Requests run concurrently and share *)
(* the breakers.                                                            *)
(*                                                                          *)
(* The loops come in four kinds:                                            *)
(*   "send"   SendTransaction, simulateTransaction                          *)
(*   "query"  ExecuteQuery                                                  *)
(*   "key"    GetValueForKey and the other account details                  *)
(*   "block"  GetBlockByHash, GetBlockByNonce, GetAccount                   *)
(***************************************************************************)
EXTENDS CircuitBreakerOps, Sequences

CONSTANTS Callers,          \* requests in flight
          Lists,            \* the lists of observers a request may be given
          Worlds            \* what surrounds the proxy, one of:
                            \*   kinds    the kinds of loop requests use
                            \*   answers  what an observer that is up does with a good request
                            \*   bad      and with one the client got wrong; {} if there is none
                            \*   flaky    the observers that go down and come back

Observers == UNION {{l[i] : i \in DOMAIN l} : l \in Lists}

\* "200bad" has status 200 and a body that does not parse; "silent" took the
\* request and never answered.
AllAnswers == {"200", "200bad", "400", "404", "500", "silent"}

LoopKinds == {"send", "query", "key", "block"}

ASSUME FailoverConfig ==
    /\ \A l \in Lists : l \in Seq(Observers) /\ l # <<>>
    /\ \A w \in Worlds : /\ w.kinds \subseteq LoopKinds
                          /\ w.answers \subseteq AllAnswers /\ w.bad \subseteq AllAnswers
                          /\ w.flaky \subseteq Observers

VARIABLES
    world,    \* external: never changes
    enabled,  \* the configuration switches the circuit breakers on
    breaker,  \* one circuit breaker per observer
    up,       \* external: the observers that accept connections
    req       \* per caller: pc, kind, good, the observers left and the attempts made

vars == <<world, enabled, breaker, up, req>>

IdleRequest == [pc |-> "idle", kind |-> "none", good |-> TRUE, left |-> <<>>, tried |-> <<>>]

Init == /\ world \in Worlds
        /\ enabled \in BOOLEAN
        /\ breaker = [o \in Observers |-> NewCircuitBreaker]
        /\ up = Observers
        /\ req = [p \in Callers |-> IdleRequest]
-----------------------------------------------------------------------------
IsPost(kind) == kind \in {"send", "query"}

\* Mutant: no answer is reported as an error of the observer.
Status_NoAnswerIs500(kind, outcome) ==
    CASE outcome \in {"down", "silent", "refused"} -> [code |-> "500", err |-> TRUE]
      [] outcome = "200"    -> [code |-> "200", err |-> FALSE]
      [] outcome = "200bad" -> [code |-> "200", err |-> TRUE]
      [] OTHER              -> [code |-> outcome, err |-> TRUE]

\* The status code and error that a call returns.  "503": CanExecute said no;
\* "refused": Call said no; "down": no connection.
Status(kind, outcome) ==
    CASE outcome \in {"down", "silent", "refused"} ->
              [code |-> IF IsPost(kind) THEN "408" ELSE "404", err |-> TRUE]
      [] outcome = "200"    -> [code |-> "200", err |-> FALSE]
      [] outcome = "200bad" -> [code |-> "200", err |-> TRUE]
      [] OTHER              -> [code |-> outcome, err |-> TRUE]

\* What each loop does with it: answer the client, give up, or go on to the
\* next observer.

\* Mutant: sending goes on after an error.
DecideSend_Retries(st) == IF ~st.err THEN "ok" ELSE "next"

DecideSend(st) ==
    CASE ~st.err                   -> "ok"
      [] st.code \in {"404", "408"} -> "next"
      [] OTHER                     -> "fail"

DecideQuery(st) ==
    CASE st.code \in {"404", "408"} -> "next"
      [] st.code = "200"           -> "ok"
      [] OTHER                     -> "fail"

DecideKey(st) == IF ~st.err \/ st.code \in {"400", "500"} THEN "ok" ELSE "next"

\* Mutants: status 200 counts as an answer even if the body does not parse; an
\* open breaker ends the loop.
DecideBlock_TrustsStatus(st)   == IF st.code = "200" THEN "ok" ELSE "next"
DecideBlock_StopsAtBreaker(st) ==
    CASE ~st.err         -> "ok"
      [] st.code = "503" -> "fail"
      [] OTHER           -> "next"

DecideBlock(st) == IF ~st.err THEN "ok" ELSE "next"

Decide(kind, st) == CASE kind = "send"  -> DecideSend(st)
                      [] kind = "query" -> DecideQuery(st)
                      [] kind = "key"   -> DecideKey(st)
                      [] kind = "block" -> DecideBlock(st)

\* The attempt on the first observer left is over.
Conclude(p, outcome) ==
    LET r == req[p]
        d == Decide(r.kind, Status(r.kind, outcome))
        left == Tail(r.left)
    IN req' = [req EXCEPT ![p] =
                 [r EXCEPT !.tried = Append(@, [at |-> Head(r.left), outcome |-> outcome]),
                           !.left = left,
                           !.pc = IF d # "next" THEN d
                                  ELSE IF left = <<>> THEN "fail" ELSE "check"]]

\* A client's request arrives and the processor gets its observers.
Arrive(p, kind, good, l) ==
    /\ req[p].pc = "idle"
    /\ good \/ world.bad # {}
    /\ req' = [req EXCEPT ![p] = [pc |-> "check", kind |-> kind, good |-> good,
                                  left |-> l, tried |-> <<>>]]
    /\ UNCHANGED <<world, enabled, breaker, up>>

\* The guard of executeGetRequest and executePostRequest.
Check(p) ==
    LET b == breaker[Head(req[p].left)]
    IN /\ req[p].pc = "check"
       /\ \/ /\ enabled /\ ~CanExecute(b)
             /\ Conclude(p, "503")
          \/ /\ enabled => CanExecute(b)
             /\ req' = [req EXCEPT ![p].pc = "call"]
       /\ UNCHANGED <<world, enabled, breaker, up>>

\* What the observer does with the request.
Outcomes(p) ==
    LET o == Head(req[p].left)
    IN IF o \notin up THEN {"down"} ELSE IF req[p].good THEN world.answers ELSE world.bad

\* fn ran: the breaker is told, and every error is a failure to it.  Call keeps
\* the breaker locked meanwhile, so this is one step for all who use it.
Called(p) ==
    LET o == Head(req[p].left)
        b == TryHalfOpen(breaker[o])
    IN /\ req[p].pc = "call"
       /\ enabled => ~RefusedOpen(b) /\ ~RefusedMaxCalls(b)
       /\ \E outcome \in Outcomes(p) :
             /\ breaker' = IF ~enabled THEN breaker
                           ELSE [breaker EXCEPT ![o] = IF outcome = "200"
                                                       THEN onSuccess(Admit(b))
                                                       ELSE onFailure(Admit(b))]
             /\ Conclude(p, outcome)
       /\ UNCHANGED <<world, enabled, up>>

\* The breaker opened, or ran out of trial calls, since CanExecute.
Refused(p) ==
    LET o == Head(req[p].left)
        b == TryHalfOpen(breaker[o])
    IN /\ req[p].pc = "call"
       /\ enabled
       /\ RefusedOpen(b) \/ RefusedMaxCalls(b)
       /\ breaker' = [breaker EXCEPT ![o] = b]
       /\ Conclude(p, "refused")
       /\ UNCHANGED <<world, enabled, up>>

\* The client gets the answer.
Reply(p) == /\ req[p].pc \in {"ok", "fail"}
            /\ req' = [req EXCEPT ![p] = IdleRequest]
            /\ UNCHANGED <<world, enabled, breaker, up>>

\* External: an observer goes down or comes back; time passes.
Flip(o) == /\ o \in world.flaky
           /\ up' = IF o \in up THEN up \ {o} ELSE up \cup {o}
           /\ UNCHANGED <<world, enabled, breaker, req>>

Tick == /\ enabled
        /\ breaker' = [o \in Observers |-> Older(breaker[o])]
        /\ UNCHANGED <<world, enabled, up, req>>

Step(p) == Check(p) \/ Called(p) \/ Refused(p)

Next == \/ \E p \in Callers :
              \/ \E kind \in world.kinds, good \in BOOLEAN, l \in Lists : Arrive(p, kind, good, l)
              \/ Step(p)
              \/ Reply(p)
        \/ \E o \in Observers : Flip(o)
        \/ Tick

Spec == Init /\ [][Next]_vars
-----------------------------------------------------------------------------
(* Correctness *)

Outcome == AllAnswers \cup {"down", "503", "refused"}
Answered == AllAnswers \ {"silent"}

\* Every variable holds a value of its type; a request at work has an observer
\* left to try.
TypeOK ==
    /\ world \in Worlds /\ enabled \in BOOLEAN
    /\ breaker \in [Observers -> Breaker]
    /\ up \subseteq Observers
    /\ \A p \in Callers :
          /\ req[p].pc \in {"idle", "check", "call", "ok", "fail"}
          /\ req[p].pc \in {"check", "call"} => req[p].left # <<>>
          /\ \A i \in DOMAIN req[p].tried :
                /\ req[p].tried[i].at \in Observers
                /\ req[p].tried[i].outcome \in Outcome

LastOutcome(p) == req[p].tried[Len(req[p].tried)].outcome

\* A request that fails with observers left untried was stopped by an
\* observer's answer or by an open breaker: a dead or silent observer, or a
\* breaker that closed the door after CanExecute, never ends it.
DeadObserverIsSkipped ==
    \A p \in Callers : req[p].pc = "fail" /\ req[p].left # <<>>
                           => LastOutcome(p) \in Answered \cup {"503"}

\* A transaction that an observer answered, with its hash or with an error, is
\* not offered to another one; only an answer "404" is taken for a dead
\* observer.  (A silent observer may have taken it: then it is sent twice.)
NoSecondSend ==
    \A p \in Callers :
        req[p].kind = "send" =>
            \A i \in DOMAIN req[p].tried :
                req[p].tried[i].outcome \in Answered \ {"404"} => i = Len(req[p].tried)

\* What the client of a "send" or "block" loop gets as a success is an observer's
\* parsed answer.  It says nothing of the other two: the "query" loop returns the
\* empty response of a 200 that does not parse as a success, the "key" loop that
\* of a 400 or 500.
SuccessIsAnswered ==
    \A p \in Callers : req[p].pc = "ok" /\ req[p].kind \in {"send", "block"}
                           => LastOutcome(p) = "200"

\* A world of good clients in which some observer of every list never goes down
\* and answers every request, and whose loops do not stop at an open breaker.
Calm == /\ world.bad = {} /\ world.answers = {"200"}
        /\ world.kinds \subseteq {"key", "block"}
        /\ \A l \in Lists : \E i \in DOMAIN l : l[i] \notin world.flaky

\* In such a world no request fails, whatever the other observers, the breakers
\* and the other clients do ("Circuit breakers prevent cascade failures").
GoodRequestsServed == Calm => \A p \in Callers : req[p].pc # "fail"
=============================================================================
