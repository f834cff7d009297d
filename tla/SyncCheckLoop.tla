---------------------------- MODULE SyncCheckLoop ----------------------------
(***************************************************************************)
(* The goroutine that checks the nodes: handleOutOfSyncNodes of             *)
(* process/baseProcessor.go, with its two timers, the channel on which      *)
(* requests that met a dead observer ask for a check round, and the context *)
(* that ends it.                                                            *)
(*                                                                          *)
(* The channel has no buffer and requests send without waiting: a request   *)
(* is heard only if the goroutine is parked in its select at that moment.   *)
(* timer.Reset discards an expiry nobody received (timers of Go 1.23), at   *)
(* the top of every turn.  What a round does to the nodes is in             *)
(* NodesProvider.                                                           *)
(***************************************************************************)
EXTENDS Naturals

CONSTANTS Observers,        \* the nodes of the observers provider
          FullHistory,      \* and of the full-history provider
          Delay,            \* delayForCheckingNodesSyncState
          CleanupPeriod,    \* time between two clean-ups of the breakers
          MaxCleanup        \* a clean-up waits for calls in flight at most so long

ASSUME LoopConfig ==
    /\ Delay \in Nat \ {0} /\ CleanupPeriod \in Nat /\ MaxCleanup \in Nat
    /\ Delay < CleanupPeriod
    /\ Observers \cap FullHistory = {}

VARIABLES
    noStatusCheck, \* the proxy was started with the flag of this name
    pc,            \* where the goroutine is
    asking,        \* the nodes the running round has still to ask
    timer,         \* time left on timer; 0: its channel is ready
    cleanupTimer,  \* the same for cleanupTimer
    busy,          \* how long the running clean-up has taken
    closed,        \* Close was called: ctx is done
    \* history
    unseen,        \* nodes a request found offline, not asked by a round since
    idle,          \* time since the last round ended
    cleaned,       \* a clean-up ran since the last round
    late           \* rounds begun after Close, counted up to 2

loopVars == <<noStatusCheck, pc, asking, timer, cleanupTimer, busy, closed,
              unseen, idle, cleaned, late>>

CheckedNodes == Observers \cup FullHistory

LoopInit == /\ noStatusCheck \in BOOLEAN
            /\ pc = "new"
            /\ asking = {}
            /\ timer = Delay /\ cleanupTimer = CleanupPeriod /\ busy = 0
            /\ closed = FALSE
            /\ unseen = {} /\ idle = 0 /\ cleaned = FALSE /\ late = 0
-----------------------------------------------------------------------------
\* The select finds a case it need not wait for.
Ready == timer = 0 \/ cleanupTimer = 0 \/ closed

\* Mutant: the full-history nodes are forgotten.
RoundNodes_NoFullHistory == IF noStatusCheck THEN {} ELSE Observers

\* Whom a round asks: without status checks, nobody.
RoundNodes == IF noStatusCheck THEN {} ELSE CheckedNodes

\* handleNodes begins.
BeginRound ==
    /\ pc' = "round"
    /\ asking' = RoundNodes
    /\ late' = IF closed /\ late < 2 THEN late + 1 ELSE late
    /\ UNCHANGED <<noStatusCheck, timer, cleanupTimer, busy, closed, unseen, idle, cleaned>>

\* StartNodesSyncStateChecks; the goroutine's first call is a round.
Start == pc = "new" /\ BeginRound

\* One node answers, or fails to: its flag is what was found.  The full-history
\* nodes come after the observers.
AskNode(n) ==
    /\ pc = "round" /\ n \in asking
    /\ n \in FullHistory => asking \cap Observers = {}
    /\ asking' = asking \ {n}
    /\ unseen' = unseen \ {n}
    /\ UNCHANGED <<noStatusCheck, pc, timer, cleanupTimer, busy, closed, idle, cleaned, late>>

\* Mutant: the timer is ready again at once, as after a Reset with duration 0.
EndRound_NoReset ==
    /\ pc = "round" /\ asking = {}
    /\ pc' = "select"
    /\ idle' = 0 /\ cleaned' = FALSE
    /\ UNCHANGED <<noStatusCheck, asking, timer, cleanupTimer, busy, closed, unseen, late>>

\* The nodes are stored, the mapping is refreshed, and the next turn resets the
\* timer.
EndRound ==
    /\ pc = "round" /\ asking = {}
    /\ pc' = "select"
    /\ timer' = Delay
    /\ idle' = 0 /\ cleaned' = FALSE
    /\ UNCHANGED <<noStatusCheck, asking, cleanupTimer, busy, closed, unseen, late>>

\* The four cases of the select.
TimerFires == pc = "select" /\ timer = 0 /\ BeginRound

BeginCleanup ==
    /\ pc = "select" /\ cleanupTimer = 0
    /\ pc' = "cleanup" /\ busy' = 0
    /\ UNCHANGED <<noStatusCheck, asking, timer, cleanupTimer, closed, unseen, idle, cleaned, late>>

\* Mutant: the clean-up timer is ready again at once, as after a Reset with
\* duration 0.
EndCleanup_NoReset ==
    /\ pc = "cleanup"
    /\ pc' = "select"
    /\ timer' = Delay
    /\ cleaned' = TRUE
    /\ UNCHANGED <<noStatusCheck, asking, cleanupTimer, busy, closed, unseen, idle, late>>

\* CleanupStaleBreakers returns, both timers are set again.
EndCleanup ==
    /\ pc = "cleanup"
    /\ pc' = "select"
    /\ timer' = Delay /\ cleanupTimer' = CleanupPeriod
    /\ cleaned' = TRUE
    /\ UNCHANGED <<noStatusCheck, asking, busy, closed, unseen, idle, late>>

Finish ==
    /\ pc = "select" /\ closed
    /\ pc' = "done"
    /\ UNCHANGED <<noStatusCheck, asking, timer, cleanupTimer, busy, closed, unseen, idle, cleaned, late>>

\* A request finds an observer cut off by its breaker, or gets no connection,
\* and calls triggerNodesSyncCheck.  Only a parked goroutine hears it.
FindsOffline(n) ==
    /\ pc \notin {"new", "done"}
    /\ \/ /\ pc = "select" /\ ~Ready
          /\ pc' = "round"
          /\ asking' = RoundNodes
       \/ /\ ~(pc = "select" /\ ~Ready)
          /\ UNCHANGED <<pc, asking>>
    /\ unseen' = unseen \cup {n}
    /\ UNCHANGED <<noStatusCheck, timer, cleanupTimer, busy, closed, idle, cleaned, late>>

Close ==
    /\ pc # "new" /\ ~closed
    /\ closed' = TRUE
    /\ UNCHANGED <<noStatusCheck, pc, asking, timer, cleanupTimer, busy, unseen, idle, cleaned, late>>

\* Time passes.  A goroutine that can run runs at once, a clean-up ends in time;
\* a round takes as long as its requests.
Tick ==
    /\ pc \in {"round", "select", "cleanup"}
    /\ pc = "select" => ~Ready
    /\ pc = "cleanup" => busy < MaxCleanup
    /\ timer' = IF timer = 0 THEN 0 ELSE timer - 1
    /\ cleanupTimer' = IF cleanupTimer = 0 THEN 0 ELSE cleanupTimer - 1
    /\ busy' = IF pc = "cleanup" THEN busy + 1 ELSE busy
    /\ idle' = IF pc = "round" THEN idle ELSE idle + 1
    /\ UNCHANGED <<noStatusCheck, pc, asking, closed, unseen, cleaned, late>>

\* The goroutine is gone.
Stopped == pc = "done" /\ UNCHANGED loopVars

Step == \/ \E n \in CheckedNodes : AskNode(n)
        \/ EndRound
        \/ TimerFires
        \/ BeginCleanup
        \/ EndCleanup
        \/ Finish

LoopNext == \/ Start
            \/ Step
            \/ \E n \in CheckedNodes : FindsOffline(n)
            \/ Close
            \/ Tick
            \/ Stopped

\* The goroutine runs when it can and time passes; nothing makes requests fail
\* or anybody call Close.
Fairness == WF_loopVars(Step) /\ WF_loopVars(Tick)

LoopSpec == LoopInit /\ [][LoopNext]_loopVars /\ Fairness
-----------------------------------------------------------------------------
(* Correctness *)

\* Every variable holds a value of its type.
LoopTypeOK ==
    /\ noStatusCheck \in BOOLEAN /\ closed \in BOOLEAN /\ cleaned \in BOOLEAN
    /\ pc \in {"new", "round", "select", "cleanup", "done"}
    /\ asking \subseteq CheckedNodes /\ unseen \subseteq CheckedNodes
    /\ timer \in 0 .. Delay /\ cleanupTimer \in 0 .. CleanupPeriod
    /\ busy \in 0 .. MaxCleanup
    /\ idle \in Nat /\ late \in 0 .. 2

\* The proxy is never without a check round for longer than two delays and a
\* clean-up, however the clean-up timer, the requests that go unheard and the
\* resets of the timer fall together.  (One delay is not enough: a clean-up that
\* is chosen although both timers are ready resets the other one.)
RoundsKeepComing == idle <= 2 * Delay + MaxCleanup

\* After Close at most one more round begins: the one whose timer had expired.
StopsSoon == late <= 1

\* A node that a request found offline is asked by a round some time later,
\* whether the request was heard or not.
OfflineIsFollowedUp ==
    \A n \in CheckedNodes : n \in unseen /\ ~noStatusCheck ~> n \notin unseen \/ closed

\* The clean-up is not starved by rounds and requests.
CleanupRuns == cleanupTimer = 0 ~> pc = "cleanup" \/ closed

\* Close ends the goroutine.
CloseEnds == closed ~> pc = "done"
=============================================================================
