--------------------------- MODULE ShardFanOutProofs ---------------------------
(***************************************************************************)
(* Proofs about ShardFanOut, for any set of shards, any lists of observers  *)
(* and any threshold.                                                       *)
(***************************************************************************)
EXTENDS ShardFanOut, TLAPS

\* While no error is remembered or returned, a shard that is behind has a fate
\* its operation accepts.
Sound ==
    /\ Working /\ ~failed =>
          \A s \in need : fate[s] \in AcceptedFates(op) \cup {"todo", "asking"}
    /\ SuccessCoversShards

\* The entry of the key sums up what was heard of it, in every operation.
Summary == /\ entry = "active" <=> TRUE \in heard
           /\ entry = "none" <=> heard = {}

\* The counter of the economics is the number of refreshes failed since.
Counter == kind = "economics" /\ since # Never => fails = since

IndInv == TypeOK /\ Sound /\ Summary /\ Counter /\ CacheFollowsRefreshes

Requests == \/ \E o \in Ops : Serve(o)
            \/ Refresh

Asking == \E s \in Shards : \/ \E n \in 1 .. MaxObservers : List(s, n)
                            \/ NoObservers(s) \/ Fails(s)
                            \/ Answers(s) \/ AnswersError(s) \/ Rejects(s)
-----------------------------------------------------------------------------
LEMMA InitIndInv == Init => IndInv
<1> SUFFICES ASSUME Init PROVE IndInv
  OBVIOUS
<1>1. Never \in Nat /\ 0 \in 0 .. FailsCap /\ 0 \in 0 .. MaxObservers /\ Never \in 0 .. Never
  BY FanOutConfig DEF Never
<1>2. kind \in Ops
  BY DEF Init, Ops
<1>3. TypeOK
  BY <1>1, <1>2 DEF Init, TypeOK, Fates
<1>4. Sound /\ Summary /\ Counter /\ CacheFollowsRefreshes
  BY DEF Init, Sound, Working, SuccessCoversShards, Summary, Counter, CacheFollowsRefreshes
<1> QED
  BY <1>3, <1>4 DEF IndInv

LEMMA StepIndInv == IndInv /\ [Next]_vars => IndInv'
<1> SUFFICES ASSUME IndInv, [Next]_vars PROVE IndInv'
  OBVIOUS
<1> USE DEF IndInv
<1>0. Never \in Nat /\ Never > FailsCap /\ 0 \in 0 .. MaxObservers
      /\ \A n \in 1 .. MaxObservers : n \in 0 .. MaxObservers /\ n > 0
  BY FanOutConfig DEF Never
<1>1. CASE Requests
  <2>1. PICK r \in {"api", "refresh"}, o \in Ops, S \in SUBSET Shards :
            /\ Begin(r, o, S)
            /\ reply' \in {"none", "cached", "error"}
            /\ UNCHANGED <<kind, cache, fails, since>>
    <3>1. \A o \in Ops : \A S \in Asks(o) : S \in SUBSET Shards
      BY FanOutConfig DEF Asks, ListedShards
    <3>2. ASSUME NEW o \in Ops, Serve(o)
          PROVE  /\ \E S \in SUBSET Shards : Begin("api", o, S)
                 /\ reply' \in {"none", "cached", "error"}
                 /\ UNCHANGED <<kind, cache, fails, since>>
      BY <3>1, <3>2, Zenon DEF Serve
    <3>3. ASSUME Refresh
          PROVE  /\ \E S \in SUBSET Shards : Begin("refresh", kind, S)
                 /\ reply' \in {"none", "cached", "error"}
                 /\ UNCHANGED <<kind, cache, fails, since>>
      <4>1. kind \in Ops
        BY DEF TypeOK, Ops
      <4> QED
        BY <3>1, <3>3, <4>1, Zenon DEF Refresh
    <3>4. kind \in Ops
      BY DEF TypeOK, Ops
    <3> QED
      BY <1>1, <3>2, <3>3, <3>4, Zenon DEF Requests
  <2>2. TypeOK'
    BY <1>0, <2>1 DEF Begin, TypeOK, Fates
  <2>3. Sound'
    BY <2>1 DEF Begin, Sound, Working, SuccessCoversShards, AcceptedFates
  <2>4. Summary' /\ Counter' /\ CacheFollowsRefreshes'
    BY <2>1 DEF Begin, Summary, Counter, CacheFollowsRefreshes
  <2> QED
    BY <2>2, <2>3, <2>4
<1>2. CASE Asking
  <2> PICK s \in Shards : \/ \E n \in 1 .. MaxObservers : List(s, n)
                          \/ NoObservers(s) \/ Fails(s)
                          \/ Answers(s) \/ AnswersError(s) \/ Rejects(s)
    BY <1>2 DEF Asking
  <2>1. CASE \E n \in 1 .. MaxObservers : List(s, n)
    <3> PICK n \in 1 .. MaxObservers : List(s, n)
      BY <2>1
    <3>1. TypeOK'
      BY <1>0 DEF List, NoError, TypeOK, Fates
    <3>2. Sound'
      BY DEF List, CanList, NoError, TypeOK, Sound, Working, SuccessCoversShards
    <3>3. Summary' /\ Counter' /\ CacheFollowsRefreshes'
      BY DEF List, Summary, Counter, CacheFollowsRefreshes
    <3> QED
      BY <3>1, <3>2, <3>3
  <2>2. CASE NoObservers(s)
    <3>1. TypeOK'
      BY <2>2 DEF NoObservers, CanList, NoError, ShardError, Parallel, TypeOK, Fates
    <3>2. Sound'
      BY <2>2 DEF NoObservers, CanList, NoError, ShardError, Parallel, TypeOK, Sound, Working,
                  SuccessCoversShards, AcceptedFates
    <3>3. Summary' /\ Counter' /\ CacheFollowsRefreshes'
      BY <2>2 DEF NoObservers, Summary, Counter, CacheFollowsRefreshes
    <3> QED
      BY <3>1, <3>2, <3>3
  <2>3. CASE Fails(s)
    <3>0. left[s] \in 1 .. MaxObservers /\ left[s] - 1 \in 0 .. MaxObservers
      BY <2>3, FanOutConfig DEF Fails, TypeOK
    <3>a. left' \in [Shards -> 0 .. MaxObservers] /\ fate' \in [Shards -> Fates]
      BY <2>3, <3>0 DEF Fails, TypeOK, Fates
    <3>b. \A r \in Shards : fate'[r] = "asking" => left'[r] > 0
      BY <2>3, <3>0 DEF Fails, TypeOK
    <3>c. /\ failed' \in BOOLEAN /\ (failed' => op' = "accounts")
          /\ reply' \in {"none", "ok", "error", "cached"}
      BY <2>3 DEF Fails, NoError, Exhausted, ShardError, Parallel, TypeOK
    <3>1. TypeOK'
      BY <2>3, <3>a, <3>b, <3>c DEF Fails, TypeOK
    <3>2. Sound'
      BY <2>3 DEF Fails, NoError, Exhausted, ShardError, Parallel, TypeOK, Sound, Working,
                  SuccessCoversShards, AcceptedFates
    <3>3. Summary' /\ Counter' /\ CacheFollowsRefreshes'
      BY <2>3 DEF Fails, Summary, Counter, CacheFollowsRefreshes
    <3> QED
      BY <3>1, <3>2, <3>3
  <2>4. CASE Answers(s)
    <3>0. Summary' /\ entry' \in {"none", "active", "inactive"} /\ heard' \subseteq BOOLEAN
      <4>1. CASE UNCHANGED <<entry, heard>>
        BY <4>1 DEF Summary, TypeOK
      <4>2. ASSUME NEW m \in Messages, entry' = AddMessage(m), heard' = heard \cup {m.active}
            PROVE  Summary' /\ entry' \in {"none", "active", "inactive"} /\ heard' \subseteq BOOLEAN
        <5>1. m.active \in BOOLEAN
          BY DEF Messages
        <5>2. CASE m.active = TRUE
          BY <4>2, <5>2, Zenon DEF AddMessage, Summary, TypeOK
        <5>3. CASE m.active = FALSE
          BY <4>2, <5>3, Zenon DEF AddMessage, Summary, TypeOK
        <5> QED
          BY <5>1, <5>2, <5>3
      <4> QED
        BY <2>4, <4>1, <4>2, Zenon DEF Answers
    <3>1. TypeOK'
      BY <2>4, <3>0 DEF Answers, NoError, TypeOK, Fates
    <3>2. Sound'
      BY <2>4 DEF Answers, NoError, TypeOK, Sound, Working, SuccessCoversShards, AcceptedFates
    <3>3. Counter' /\ CacheFollowsRefreshes'
      BY <2>4 DEF Answers, Counter, CacheFollowsRefreshes
    <3> QED
      BY <3>0, <3>1, <3>2, <3>3
  <2>5. CASE AnswersError(s)
    <3>1. TypeOK'
      BY <2>5 DEF AnswersError, ShardError, Parallel, TypeOK, Fates
    <3>2. Sound'
      BY <2>5 DEF AnswersError, ShardError, Parallel, TypeOK, Sound, Working,
                  SuccessCoversShards, AcceptedFates
    <3>3. Summary' /\ Counter' /\ CacheFollowsRefreshes'
      BY <2>5 DEF AnswersError, Summary, Counter, CacheFollowsRefreshes
    <3> QED
      BY <3>1, <3>2, <3>3
  <2>6. CASE Rejects(s)
    <3>1. TypeOK'
      BY <2>6 DEF Rejects, NoError, TypeOK, Fates
    <3>2. Sound'
      BY <2>6 DEF Rejects, NoError, TypeOK, Sound, Working, SuccessCoversShards, AcceptedFates
    <3>3. Summary' /\ Counter' /\ CacheFollowsRefreshes'
      BY <2>6 DEF Rejects, Summary, Counter, CacheFollowsRefreshes
    <3> QED
      BY <3>1, <3>2, <3>3
  <2> QED
    BY <2>1, <2>2, <2>3, <2>4, <2>5, <2>6
<1>3. CASE Conclude
  <2>1. TypeOK'
    BY <1>3 DEF Conclude, work, TypeOK
  <2>2. Sound'
    BY <1>3 DEF Conclude, work, TypeOK, Sound, Working, SuccessCoversShards
  <2>3. Summary' /\ Counter' /\ CacheFollowsRefreshes'
    BY <1>3 DEF Conclude, work, Summary, Counter, CacheFollowsRefreshes
  <2> QED
    BY <2>1, <2>2, <2>3
<1>4. CASE Return
  <2>1. TypeOK'
    BY <1>4 DEF Return, work, TypeOK
  <2>2. Sound' /\ Summary' /\ Counter' /\ CacheFollowsRefreshes'
    BY <1>4 DEF Return, work, Sound, Working, SuccessCoversShards, Summary, Counter,
                CacheFollowsRefreshes
  <2> QED
    BY <2>1, <2>2
<1>5. CASE HandleCacheUpdate
  <2>1. Capped(fails) \in 0 .. FailsCap
        /\ (since # Never => Capped(since) \in 0 .. FailsCap /\ since \in 0 .. FailsCap)
    BY FanOutConfig DEF Capped, TypeOK, Never
  <2>2. TypeOK'
    <3>1. fails' \in 0 .. FailsCap /\ cache' \in {"empty", "filled"} /\ since' \in 0 .. Never
      BY <1>5, <2>1, FanOutConfig DEF HandleCacheUpdate, HandleEconomics, TypeOK, Never
    <3> QED
      BY <1>5, <3>1 DEF HandleCacheUpdate, work, TypeOK
  <2>3. Sound' /\ Summary'
    BY <1>5 DEF HandleCacheUpdate, work, Sound, Working, SuccessCoversShards, Summary
  <2>4. Counter'
    BY <1>5, <2>1, FanOutConfig DEF HandleCacheUpdate, HandleEconomics, Counter, Capped, Never, TypeOK
  <2>5. CacheFollowsRefreshes'
    BY <1>5, <2>1, FanOutConfig DEF HandleCacheUpdate, HandleEconomics, Counter, Capped, Never,
          TypeOK, CacheFollowsRefreshes
  <2> QED
    BY <2>2, <2>3, <2>4, <2>5
<1>6. CASE Close
  <2>1. TypeOK'
    BY <1>6 DEF Close, work, TypeOK
  <2>2. Sound' /\ Summary' /\ Counter' /\ CacheFollowsRefreshes'
    BY <1>6 DEF Close, work, Sound, Working, SuccessCoversShards, Summary, Counter,
                CacheFollowsRefreshes
  <2> QED
    BY <2>1, <2>2
<1>7. CASE UNCHANGED vars
  <2>1. TypeOK'
    BY <1>7 DEF vars, TypeOK
  <2>2. Sound' /\ Summary' /\ Counter' /\ CacheFollowsRefreshes'
    BY <1>7 DEF vars, Sound, Working, SuccessCoversShards, Summary, Counter,
                CacheFollowsRefreshes
  <2> QED
    BY <2>1, <2>2
<1> QED
  BY <1>1, <1>2, <1>3, <1>4, <1>5, <1>6, <1>7 DEF Next, Requests, Asking, Stopped

LEMMA Invariance == Spec => []IndInv
BY InitIndInv, StepIndInv, PTL DEF Spec
-----------------------------------------------------------------------------
\* Every variable keeps its type; a shard being asked has an observer left, and
\* only GetAccounts goes on after an error of a shard.
THEOREM TypeCorrect == Spec => []TypeOK
<1>1. IndInv => TypeOK
  BY DEF IndInv
<1> QED
  BY Invariance, <1>1, PTL

\* Whatever the order in which shards and goroutines end, a success covers all
\* shards the operation asked but for the gaps its code accepts.
THEOREM SuccessIsComplete == Spec => []SuccessCoversShards
<1>1. IndInv => SuccessCoversShards
  BY DEF IndInv, Sound
<1> QED
  BY Invariance, <1>1, PTL

\* addMessagesToMap: an active message wins over inactive ones in any order.
THEOREM ActiveMessageWins == Spec => []ActiveWins
<1>1. IndInv => ActiveWins
  BY DEF IndInv, Summary, ActiveWins
<1> QED
  BY Invariance, <1>1, PTL

\* The caches are filled by the first refresh that is stored; the economics are dropped
\* after exactly FailsThreshold failures in a row, the others never.
THEOREM CacheContents == Spec => []CacheFollowsRefreshes
<1>1. IndInv => CacheFollowsRefreshes
  BY DEF IndInv
<1> QED
  BY Invariance, <1>1, PTL
=============================================================================
