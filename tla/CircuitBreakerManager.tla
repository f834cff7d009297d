------------------------ MODULE CircuitBreakerManager ------------------------
(***************************************************************************)
(* common/circuitbreaker_manager.go: the map from observer address to       *)
(* circuit breaker, its read-write lock, and everyone who uses it: request  *)
(* goroutines (CanExecute, then Execute), the goroutine that cleans up      *)
(* stale breakers, and the reset / statistics operations.  A request keeps  *)
(* the breaker it looked up in a local variable, so it may go on using one  *)
(* that has left the map.                                                   *)
(***************************************************************************)
EXTENDS CircuitBreakerOps, FiniteSets

CONSTANTS Observers,        \* observer addresses
          Callers,          \* request goroutines
          Ids,              \* identities of breaker objects
          None,             \* no entry, no owner, no reference
          StaleMultiplier   \* RecoveryTimeouts without failure that make a breaker stale (10 in the code)

ASSUME ManagerConfig ==
    /\ None \notin Ids \cup Callers \cup Observers
    /\ IsFiniteSet(Observers) /\ IsFiniteSet(Callers) /\ IsFiniteSet(Ids)
    /\ StaleMultiplier \in Nat
    /\ StaleMultiplier * RecoveryTimeout < AgeCap
    \* an identity that nobody refers to can be used for a new breaker
    /\ Cardinality(Ids) >= Cardinality(Observers) + Cardinality(Callers)

VARIABLES
    breakers,  \* the map: observer -> identity or None
    obj,       \* the breaker objects
    owner,     \* per object, the caller in Call holding its write lock
    mgrWriter, \* TRUE while the cleaner holds the map's write lock
    caller,    \* per caller: pc, the observer it calls, the breaker it holds
    cleaner,   \* the cleanup loop: where it is, entries left, stale at its start;
               \* late is history: callers whose failure came after the time was read
    admin,     \* a reset or statistics request: kind, entries left, breaker held
    removed,   \* history: objects dropped by cleanup and still referenced
    streak     \* history: failed calls in a row on an observer's mapped breaker

vars == <<breakers, obj, owner, mgrWriter, caller, cleaner, admin, removed, streak>>

IdleCaller  == [pc |-> "idle", at |-> None, ref |-> None]
IdleCleaner == [pc |-> "idle", todo |-> {}, at |-> None, stale |-> {}, late |-> {}]
IdleAdmin   == [kind |-> "idle", todo |-> {}, ref |-> None]

Init == /\ breakers = [a \in Observers |-> None]
        /\ obj = [i \in Ids |-> NewCircuitBreaker]
        /\ owner = [i \in Ids |-> None]
        /\ mgrWriter = FALSE
        /\ caller = [p \in Callers |-> IdleCaller]
        /\ cleaner = IdleCleaner
        /\ admin = IdleAdmin
        /\ removed = {}
        /\ streak = [a \in Observers |-> 0]

Mapped     == {breakers[a] : a \in Observers} \ {None}
Referenced == ({caller[p].ref : p \in Callers} \cup {admin.ref}) \ {None}
Unused     == Ids \ (Mapped \cup Referenced)
NewId      == CHOOSE i \in Unused : TRUE

\* ResetAllBreakers and GetBreakerStats keep the read lock over their loop.
MgrReader == admin.kind \in {"resetAll", "stats"}

GoTo(p, l) == caller' = [caller EXCEPT ![p].pc = l]

\* Breakers that somebody other than p still holds.
HeldByOthers(p) == {caller[q].ref : q \in Callers \ {p}} \cup {admin.ref}

\* Objects nobody refers to are garbage, and look like new ones; so do those that
\* only ResetBreaker holds, because it writes them without reading.
Collect(o, live) == [i \in Ids |-> IF i \in live THEN o[i] ELSE NewCircuitBreaker]

\* Caller p lets its breaker go, the objects being o.
Forget(p, o) == /\ removed' = removed \cap HeldByOthers(p)
                /\ obj' = Collect(o, Mapped \cup {caller[q].ref : q \in Callers \ {p}})

\* A request is over; its breaker is forgotten with its local variables.
Return(p, o) == /\ caller' = [caller EXCEPT ![p] = IdleCaller]
                /\ Forget(p, o)
-----------------------------------------------------------------------------
(* Requests: CanExecute, then Execute, each with its own GetBreaker *)

Arrive(p, a) ==
    /\ caller[p].pc = "idle"
    /\ caller' = [caller EXCEPT ![p] = [pc |-> "find", at |-> a, ref |-> None]]
    /\ UNCHANGED <<breakers, obj, owner, mgrWriter, cleaner, admin, removed, streak>>

\* GetBreaker returns to CanExecute ("check") or to Execute ("call").
AfterLookup(l) == IF l \in {"find", "create"} THEN "check" ELSE "call"

\* Mutant: a missing entry is not noticed.
Find_NoCreate(p) ==
    /\ caller[p].pc \in {"find", "findAgain"}
    /\ ~mgrWriter
    /\ caller' = [caller EXCEPT ![p].pc  = AfterLookup(@),
                                ![p].ref = breakers[caller[p].at]]
    /\ UNCHANGED <<breakers, obj, owner, mgrWriter, cleaner, admin, removed, streak>>

\* GetBreaker, under the read lock.
Find(p) ==
    /\ caller[p].pc \in {"find", "findAgain"}
    /\ ~mgrWriter
    /\ LET i == breakers[caller[p].at]
           l == caller[p].pc
       IN caller' = [caller EXCEPT
             ![p].pc  = IF i # None THEN AfterLookup(l)
                        ELSE IF l = "find" THEN "create" ELSE "createAgain",
             ![p].ref = i]
    /\ UNCHANGED <<breakers, obj, owner, mgrWriter, cleaner, admin, removed, streak>>

\* Mutant: no second look at the map under the write lock.
Create_NoDoubleCheck(p) ==
    LET a == caller[p].at
    IN /\ caller[p].pc \in {"create", "createAgain"}
       /\ ~mgrWriter /\ ~MgrReader
       /\ breakers' = [breakers EXCEPT ![a] = NewId]
       /\ obj' = [obj EXCEPT ![NewId] = NewCircuitBreaker]
       /\ caller' = [caller EXCEPT ![p].ref = NewId, ![p].pc = AfterLookup(@)]
       /\ UNCHANGED <<owner, mgrWriter, cleaner, admin, removed, streak>>

\* GetBreaker, under the write lock: look again, create if still missing.
Create(p) ==
    LET a == caller[p].at
    IN /\ caller[p].pc \in {"create", "createAgain"}
       /\ ~mgrWriter /\ ~MgrReader
       /\ \/ /\ breakers[a] # None
             /\ caller' = [caller EXCEPT ![p].ref = breakers[a],
                                         ![p].pc = AfterLookup(@)]
             /\ UNCHANGED <<breakers, obj>>
          \/ /\ breakers[a] = None
             /\ breakers' = [breakers EXCEPT ![a] = NewId]
             /\ obj' = [obj EXCEPT ![NewId] = NewCircuitBreaker]
             /\ caller' = [caller EXCEPT ![p].ref = NewId, ![p].pc = AfterLookup(@)]
       /\ UNCHANGED <<owner, mgrWriter, cleaner, admin, removed, streak>>

\* CanExecute; Execute then looks the breaker up again.
Check(p) ==
    LET i == caller[p].ref
    IN /\ caller[p].pc = "check"
       /\ owner[i] = None
       /\ \/ /\ CanExecute(obj[i])
             /\ caller' = [caller EXCEPT ![p].pc = "findAgain", ![p].ref = None]
             /\ Forget(p, obj)
          \/ ~CanExecute(obj[i]) /\ Return(p, obj)
       /\ UNCHANGED <<breakers, owner, mgrWriter, cleaner, admin, streak>>

\* Call refuses without running fn; Execute goes on to log the error.
CallRefused(p) ==
    LET i == caller[p].ref
        b == TryHalfOpen(obj[i])
    IN /\ caller[p].pc = "call"
       /\ owner[i] = None
       /\ RefusedOpen(b) \/ RefusedMaxCalls(b)
       /\ obj' = [obj EXCEPT ![i] = b]
       /\ GoTo(p, "report")
       /\ UNCHANGED <<breakers, owner, mgrWriter, cleaner, admin, removed, streak>>

CallAdmitted(p) ==
    LET i == caller[p].ref
        b == TryHalfOpen(obj[i])
    IN /\ caller[p].pc = "call"
       /\ owner[i] = None
       /\ ~RefusedOpen(b) /\ ~RefusedMaxCalls(b)
       /\ obj' = [obj EXCEPT ![i] = Admit(b)]
       /\ owner' = [owner EXCEPT ![i] = p]
       /\ GoTo(p, "wire")
       /\ UNCHANGED <<breakers, mgrWriter, cleaner, admin, removed, streak>>

CallSucceeds(p) ==
    LET i == caller[p].ref
    IN /\ caller[p].pc = "wire"
       /\ owner' = [owner EXCEPT ![i] = None]
       /\ streak' = [streak EXCEPT ![caller[p].at] = IF breakers[caller[p].at] = i THEN 0 ELSE @]
       /\ Return(p, [obj EXCEPT ![i] = onSuccess(@)])
       /\ UNCHANGED <<breakers, mgrWriter, cleaner, admin>>

\* lastFailureTime is now later than the instant a running cleanup compares with.
CallFails(p) ==
    LET i == caller[p].ref
    IN /\ caller[p].pc = "wire"
       /\ obj' = [obj EXCEPT ![i] = onFailure(@)]
       /\ owner' = [owner EXCEPT ![i] = None]
       /\ streak' = [streak EXCEPT ![caller[p].at] =
                        IF breakers[caller[p].at] = i /\ @ < MaxFailureCount THEN @ + 1 ELSE @]
       /\ cleaner' = [cleaner EXCEPT
             !.stale = @ \ {i},
             !.late = IF cleaner.pc = "delete" /\ breakers[cleaner.at] = i THEN @ \cup {p} ELSE @]
       /\ GoTo(p, "report")
       /\ UNCHANGED <<breakers, mgrWriter, admin, removed>>

\* Execute logs the breaker's state and failure count after an error.
Report(p) ==
    /\ caller[p].pc = "report"
    /\ owner[caller[p].ref] = None
    /\ Return(p, obj)
    /\ UNCHANGED <<breakers, owner, mgrWriter, cleaner, admin, streak>>
-----------------------------------------------------------------------------
(* CleanupStaleBreakers: holds the map's write lock over the whole loop and *)
(* reads each breaker in three separate steps before it drops it.           *)

StaleAfter == StaleMultiplier * RecoveryTimeout

CleanupStart ==
    /\ cleaner.pc = "idle"
    /\ ~MgrReader
    /\ mgrWriter' = TRUE
    /\ cleaner' = [pc |-> "state",
                   todo |-> {a \in Observers : breakers[a] # None},
                   at |-> None,
                   stale |-> {i \in Mapped : obj[i].age > StaleAfter},
                   late |-> {}]
    /\ UNCHANGED <<breakers, obj, owner, caller, admin, removed, streak>>

\* The loop takes the entries in any order, as Go iterates over a map.
NextEntry == cleaner' = [cleaner EXCEPT !.pc = "state", !.at = None, !.late = {}]

CleanupReadState ==
    /\ cleaner.pc = "state"
    /\ \E a \in cleaner.todo :
          /\ owner[breakers[a]] = None
          /\ cleaner' = [cleaner EXCEPT
                            !.todo = @ \ {a},
                            !.pc = IF obj[breakers[a]].state = "CLOSED"
                                   THEN "count" ELSE "state",
                            !.at = IF obj[breakers[a]].state = "CLOSED"
                                   THEN a ELSE None]
    /\ UNCHANGED <<breakers, obj, owner, mgrWriter, caller, admin, removed, streak>>

CleanupReadCount ==
    /\ cleaner.pc = "count"
    /\ owner[breakers[cleaner.at]] = None
    /\ IF obj[breakers[cleaner.at]].failureCount = 0
       THEN cleaner' = [cleaner EXCEPT !.pc = "time"]
       ELSE NextEntry
    /\ UNCHANGED <<breakers, obj, owner, mgrWriter, caller, admin, removed, streak>>

\* Mutant: the time of the last failure is not looked at.
CleanupReadTime_Skipped ==
    /\ cleaner.pc = "time"
    /\ cleaner' = [cleaner EXCEPT !.pc = "delete"]
    /\ UNCHANGED <<breakers, obj, owner, mgrWriter, caller, admin, removed, streak>>

\* lastFailureTime is read without the breaker's lock, so a Call may be running;
\* the comparison is with the instant the loop started.  A read that overlaps
\* the write in onFailure sees the old time or the new one.
CleanupReadTime ==
    /\ cleaner.pc = "time"
    /\ IF breakers[cleaner.at] \in cleaner.stale
       THEN cleaner' = [cleaner EXCEPT !.pc = "delete"]
       ELSE NextEntry
    /\ UNCHANGED <<breakers, obj, owner, mgrWriter, caller, admin, removed, streak>>

\* The entry goes, whatever a Call that held the breaker has done to it since;
\* the observer's next breaker begins a new count.
CleanupDelete ==
    LET i == breakers[cleaner.at]
    IN /\ cleaner.pc = "delete"
       /\ breakers' = [breakers EXCEPT ![cleaner.at] = None]
       /\ removed' = removed \cup ({i} \cap Referenced)
       /\ obj' = Collect(obj, (Mapped \ {i}) \cup {caller[q].ref : q \in Callers})
       /\ streak' = [streak EXCEPT ![cleaner.at] = 0]
       /\ NextEntry
       /\ UNCHANGED <<owner, mgrWriter, caller, admin>>

\* Mutant: the write lock is not released.
CleanupEnd_KeepsLock ==
    /\ cleaner.pc = "state"
    /\ cleaner.todo = {}
    /\ cleaner' = IdleCleaner
    /\ UNCHANGED <<breakers, obj, owner, mgrWriter, caller, admin, removed, streak>>

CleanupEnd ==
    /\ cleaner.pc = "state"
    /\ cleaner.todo = {}
    /\ mgrWriter' = FALSE
    /\ cleaner' = IdleCleaner
    /\ UNCHANGED <<breakers, obj, owner, caller, admin, removed, streak>>

Cleanup == \/ CleanupStart \/ CleanupReadState \/ CleanupReadCount
           \/ CleanupReadTime \/ CleanupDelete \/ CleanupEnd
-----------------------------------------------------------------------------
(* ResetBreaker, ResetAllBreakers and GetBreakerStats *)

\* ResetBreaker looks the breaker up and lets the map go before it resets it.
ResetOneStart(a) ==
    /\ admin.kind = "idle"
    /\ ~mgrWriter
    /\ breakers[a] # None
    /\ admin' = [kind |-> "resetOne", todo |-> {a}, ref |-> breakers[a]]
    /\ UNCHANGED <<breakers, obj, owner, mgrWriter, caller, cleaner, removed, streak>>

ResetOne ==
    /\ admin.kind = "resetOne"
    /\ owner[admin.ref] = None
    /\ obj' = Collect([obj EXCEPT ![admin.ref] = Reset(@)],
                      Mapped \cup {caller[q].ref : q \in Callers})
    /\ streak' = [a \in Observers |-> IF breakers[a] = admin.ref THEN 0 ELSE streak[a]]
    /\ removed' = removed \cap {caller[q].ref : q \in Callers}
    /\ admin' = IdleAdmin
    /\ UNCHANGED <<breakers, owner, mgrWriter, caller, cleaner>>

\* The loops of ResetAllBreakers and GetBreakerStats keep the read lock.
LoopStart(k) ==
    /\ admin.kind = "idle"
    /\ ~mgrWriter
    /\ admin' = [kind |-> k, todo |-> {a \in Observers : breakers[a] # None},
                 ref |-> None]
    /\ UNCHANGED <<breakers, obj, owner, mgrWriter, caller, cleaner, removed, streak>>

LoopStep ==
    /\ MgrReader
    /\ \E a \in admin.todo :
          /\ owner[breakers[a]] = None
          /\ admin' = [admin EXCEPT !.todo = @ \ {a}]
          /\ \/ /\ admin.kind = "resetAll"
                /\ obj' = [obj EXCEPT ![breakers[a]] = Reset(@)]
                /\ streak' = [streak EXCEPT ![a] = 0]
             \/ /\ admin.kind = "stats"
                /\ UNCHANGED <<obj, streak>>
    /\ UNCHANGED <<breakers, owner, mgrWriter, caller, cleaner, removed>>

LoopEnd ==
    /\ MgrReader
    /\ admin.todo = {}
    /\ admin' = IdleAdmin
    /\ UNCHANGED <<breakers, obj, owner, mgrWriter, caller, cleaner, removed, streak>>

AdminStep == ResetOne \/ LoopStep \/ LoopEnd
-----------------------------------------------------------------------------
\* Time passes for every breaker.
Tick == /\ obj' = [i \in Ids |-> Older(obj[i])]
        /\ UNCHANGED <<breakers, owner, mgrWriter, caller, cleaner, admin,
                       removed, streak>>

\* The steps that wait for a lock, and the end of the HTTP request.
Step(p) == \/ Find(p) \/ Create(p) \/ Check(p)
           \/ CallRefused(p) \/ CallAdmitted(p)
           \/ CallSucceeds(p) \/ CallFails(p) \/ Report(p)

Next == \/ \E p \in Callers : (\E a \in Observers : Arrive(p, a)) \/ Step(p)
        \/ Cleanup
        \/ \E a \in Observers : ResetOneStart(a)
        \/ \E k \in {"resetAll", "stats"} : LoopStart(k)
        \/ AdminStep
        \/ Tick

Spec == Init /\ [][Next]_vars

\* Go's mutexes hand a lock that keeps being released to every waiter (strong
\* fairness); the HTTP client's timeout ends every request on the wire.
Fairness == /\ \A p \in Callers : SF_vars(Step(p))
            /\ SF_vars(Cleanup /\ cleaner.pc # "idle")
            /\ SF_vars(AdminStep)

FairSpec == Spec /\ Fairness
-----------------------------------------------------------------------------
(* Correctness *)

\* Every variable holds a value of its type, and a caller that uses a breaker
\* holds one.
TypeOK ==
    /\ breakers \in [Observers -> Ids \cup {None}]
    /\ obj \in [Ids -> Breaker]
    /\ owner \in [Ids -> Callers \cup {None}]
    /\ mgrWriter \in BOOLEAN
    /\ caller \in [Callers -> [pc : {"idle", "find", "create", "check", "findAgain",
                                     "createAgain", "call", "wire", "report"},
                               at : Observers \cup {None},
                               ref : Ids \cup {None}]]
    /\ \A p \in Callers : caller[p].pc \in {"check", "call", "wire", "report"}
                              => caller[p].ref \in Ids
    /\ cleaner \in [pc : {"idle", "state", "count", "time", "delete"},
                    todo : SUBSET Observers, at : Observers \cup {None},
                    stale : SUBSET Ids, late : SUBSET Callers]
    /\ admin \in [kind : {"idle", "resetOne", "resetAll", "stats"},
                  todo : SUBSET Observers, ref : Ids \cup {None}]
    /\ removed \subseteq Ids
    /\ streak \in [Observers -> 0..MaxFailureCount]

\* Two requests for one observer share one breaker: a breaker in use that is
\* not the one in the map was taken out by the cleanup, never by a second
\* request that created another.
OneBreakerPerObserver ==
    \A p \in Callers : caller[p].ref # None =>
        caller[p].ref \in removed \cup {breakers[caller[p].at]}

\* What the cleanup forgets with a breaker it drops is at most one failure for
\* each request that was past its lookup when the cleanup came and failed
\* between the reading of the last failure's time and the delete; an open
\* circuit is dropped only if those alone opened it.  Failures counted before
\* or while the three fields were read are never forgotten.
CleanupForgetsOnlyLate ==
    [][\A a \in Observers :
           breakers[a] # None /\ breakers'[a] = None =>
               /\ obj[breakers[a]].failureCount <= Cardinality(cleaner.late)
               /\ obj[breakers[a]].state # "CLOSED"
                     => MaxFailureCount <= Cardinality(cleaner.late)]_vars

\* Every request that arrives comes back, whoever holds the map's lock.
RequestsReturn == \A p \in Callers : caller[p].pc # "idle" ~> caller[p].pc = "idle"

\* FailureThreshold failures in a row (one, if the threshold is 0) of any
\* callers on the breaker an observer has in the map leave it open or half-open,
\* also when the cleanup, a reset or a second creation runs meanwhile.  The count
\* is that of the entry: it starts again with the breaker that replaces one the
\* cleanup dropped (how much is lost then, CleanupForgetsOnlyLate says), and what
\* a caller reports to a dropped breaker is not in it.
FailuresAreCounted ==
    \A a \in Observers :
        streak[a] = MaxFailureCount
            => breakers[a] # None /\ obj[breakers[a]].state # "CLOSED"
=============================================================================
