----------------------- MODULE TransactionLookupProofs -----------------------
(***************************************************************************)
(* Theorems about TransactionLookup, for every finite set of shards, every  *)
(* set of SCRs and every way the chain grows during the lookup.             *)
(***************************************************************************)
EXTENDS TransactionLookup, FiniteSetTheorems, TLAPS

\* Before the map is first tested there is no pass; a cross-shard transaction
\* found in its source shard has nothing fetched.
Phases ==
    /\ pc \in {"ask", "source", "dest"} => pass = {} /\ passes = 0 /\ result = "none"
    /\ pc = "fetch" => result = "none"
    /\ pc = "ask" => hash = [s \in Shards |-> None]
    /\ pc \in {"ask", "dest"} => fetched = {}
    /\ pc \in {"source", "fetch"} => entry = "hash"
    /\ pc \in {"source", "dest"} /\ entry = "hash" => \A s \in Touches(Tx) : hash[s] = Tx

\* The map begins with the shards of the transaction.
StartsAtTx ==
    entry = "hash" /\ (pc \in {"source", "dest", "fetch"} \/ result = "found")
    => Touches(Tx) \subseteq Keys

\* What a shard had at the start is in the result once the shard is fetched.
FetchedIsIn ==
    withResults => \A s \in fetched \ missed, x \in SCRs : <<s, x>> \in know0 => x \in scrs

\* The lookup returns only when the map is closed under the SCRs it found.
ClosedAtReturn ==
    result = "found" /\ entry = "hash" =>
        /\ Keys \subseteq fetched
        /\ \A x \in scrs : Touches(x) \subseteq Keys

\* A shard has only what is sent from it or to it.
KnownWhereItTouches == \A s \in Shards, i \in Items : <<s, i>> \in know => s \in Touches(i)

PassCount == passes <= Cardinality(fetched \cup pass)

IndInv == TypeOK /\ Phases /\ AskedWithItsHash /\ StartsAtTx
          /\ FetchedIsIn /\ ClosedAtReturn /\ KnownWhereItTouches /\ PassCount
-----------------------------------------------------------------------------
\* What extraShardFromSCRs adds to the map.
LEMMA ExtraShards ==
    ASSUME NEW h \in [Shards -> Items \cup {None}], NEW S \in SUBSET SCRs,
           NEW g \in extraShardFromSCRs(h, S), TypeOK
    PROVE  /\ g \in [Shards -> Items \cup {None}]
           /\ \A s \in Shards : h[s] # None => g[s] = h[s]
           /\ \A s \in Shards : g[s] # None /\ h[s] = None => s \in Touches(g[s])
           /\ \A x \in S : Touches(x) \subseteq {s \in Shards : g[s] # None}
<1>1. g \in [Shards -> Items \cup {None}]
  BY DEF extraShardFromSCRs
<1>2. ASSUME NEW s \in Shards
      PROVE  IF h[s] # None \/ {x \in S : s \in Touches(x)} = {}
             THEN g[s] = h[s] ELSE g[s] \in {x \in S : s \in Touches(x)}
  BY DEF extraShardFromSCRs
<1>3. \A x \in S : Touches(x) \subseteq Shards
  BY DEF TypeOK, Touches, Items
<1>4. \A x \in S : x # None
  BY LookupConfig DEF Items
<1>5. ASSUME NEW x \in S, NEW s \in Touches(x) PROVE s \in Shards /\ g[s] # None
  <2>1. s \in Shards /\ x \in {y \in S : s \in Touches(y)}
    BY <1>3
  <2> QED BY <2>1, <1>2, <1>4
<1> QED BY <1>1, <1>2, <1>5

LEMMA InitIndInv == Init => IndInv
<1> SUFFICES ASSUME Init PROVE IndInv
  OBVIOUS
<1> USE DEF Init
<1>1. Keys = {}
  BY DEF Keys
<1>2. TypeOK
  BY <1>1 DEF TypeOK
<1>3. Phases /\ AskedWithItsHash /\ StartsAtTx /\ FetchedIsIn /\ ClosedAtReturn
  BY <1>1 DEF Phases, AskedWithItsHash, StartsAtTx, FetchedIsIn, ClosedAtReturn
<1>4. KnownWhereItTouches
  BY DEF KnownWhereItTouches, Touches
<1>5. PassCount
  BY FS_EmptySet DEF PassCount
<1> QED BY <1>2, <1>3, <1>4, <1>5 DEF IndInv

\* The head of the loop: a pass over what is not fetched, or the return.
LEMMA TestMapStep ==
    ASSUME IndInv, pc # "done", fetched' \subseteq Keys', passes <= Cardinality(fetched'),
           TestMap(hash', fetched')
    PROVE  /\ pass' \subseteq Keys' \ fetched'
           /\ PassCount'
           /\ passes' \in Nat
           /\ \/ pc' = "fetch" /\ result' = "none"
              \/ pc' = "done" /\ result' = "found" /\ Keys' \subseteq fetched'
<1>1. pass' = Keys' \ fetched'
  BY DEF TestMap, Unfetched, Keys
<1>2. result = "none" /\ passes \in Nat
  BY DEF IndInv, TypeOK, Phases
<1>3. IsFiniteSet(fetched') /\ IsFiniteSet(pass') /\ IsFiniteSet(fetched' \cup pass')
  BY <1>1, LookupConfig, FS_Subset DEF Keys
<1>4. CASE pass' = {}
  BY <1>1, <1>2, <1>4 DEF TestMap, Return, PassCount
<1>5. CASE pass' # {}
  <2>1. PICK s : s \in pass'
    BY <1>5
  <2>2. Cardinality(fetched' \cup {s}) = Cardinality(fetched') + 1
        /\ Cardinality(fetched') \in Nat
    BY <1>1, <1>3, <2>1, FS_AddElement, FS_CardinalityType
  <2>3. Cardinality(fetched' \cup {s}) <= Cardinality(fetched' \cup pass')
        /\ Cardinality(fetched' \cup pass') \in Nat
    BY <1>3, <2>1, FS_Subset, FS_CardinalityType
  <2>4. passes' = passes + 1 /\ pc' = "fetch" /\ result' = "none"
    BY <1>2, <1>5 DEF TestMap
  <2> QED BY <1>1, <1>2, <2>2, <2>3, <2>4 DEF PassCount
<1> QED BY <1>4, <1>5

\* The lookup finds the transaction in shard s.
LEMMA FoundIndInv ==
    ASSUME IndInv, NEW s \in Shards, Found(s)
    PROVE  IndInv'
<1> DEFINE h == [t \in Shards |-> IF t \in Touches(Tx) THEN Tx ELSE None]
           intra == snd[Tx] = rcv[Tx]
<1> USE DEF chain, request
<1>1. h \in [Shards -> Items \cup {None}] /\ Touches(Tx) \subseteq Shards
  BY DEF IndInv, TypeOK, Items, Touches
<1>2. scrs' \in SUBSET SCRs
  BY DEF Found, Answer, ScrsAt
<1>3. hash' = h \/ hash' \in extraShardFromSCRs(h, scrs')
  BY DEF Found
<1>4. /\ hash' \in [Shards -> Items \cup {None}]
      /\ \A t \in Touches(Tx) : hash'[t] = Tx
      /\ \A t \in Shards : hash'[t] # None => t \in Touches(hash'[t])
  <2>1. CASE hash' = h
    BY <1>1, <2>1
  <2>2. CASE hash' \in extraShardFromSCRs(h, scrs')
    <3>1. TypeOK /\ Tx # None
      BY LookupConfig DEF IndInv, Items
    <3>2. /\ hash' \in [Shards -> Items \cup {None}]
          /\ \A t \in Shards : h[t] # None => hash'[t] = h[t]
          /\ \A t \in Shards : hash'[t] # None /\ h[t] = None => t \in Touches(hash'[t])
      BY <1>1, <1>2, <2>2, <3>1, ExtraShards
    <3> QED BY <1>1, <3>1, <3>2
  <2> QED BY <1>3, <2>1, <2>2
<1>5. Touches(Tx) \subseteq Keys'
  BY <1>1, <1>4, LookupConfig DEF Keys, Items
<1>6. CASE ~intra
  <2>1. /\ fetched' = {} /\ hash' = h /\ pc' \in {"source", "dest"}
        /\ UNCHANGED <<chain, request, toAsk, pass, result, missed, passes>>
    BY <1>6 DEF Found
  <2>2. pass = {} /\ passes = 0 /\ result = "none"
    BY DEF Found, IndInv, Phases
  <2>3. TypeOK'
    BY <1>2, <1>4, <2>1, <2>2 DEF IndInv, TypeOK, Keys
  <2>4. Phases' /\ StartsAtTx' /\ FetchedIsIn' /\ ClosedAtReturn' /\ KnownWhereItTouches'
    BY <1>4, <1>5, <2>1, <2>2
    DEF Found, IndInv, Phases, StartsAtTx, FetchedIsIn, ClosedAtReturn, KnownWhereItTouches, Touches
  <2>5. AskedWithItsHash'
    BY <1>4, <2>1 DEF AskedWithItsHash, Keys, Touches
  <2>6. PassCount'
    BY <2>1, <2>2, FS_EmptySet DEF PassCount
  <2> QED BY <2>3, <2>4, <2>5, <2>6 DEF IndInv
<1>7. CASE intra
  <2>1. /\ fetched' = {snd[Tx]} /\ scrs' = Answer(s)
        /\ \/ scrs' = {} /\ hash' = h /\ pc' = "done" /\ result' = "found"
           \/ pc' = "source" /\ result' = result
        /\ UNCHANGED <<chain, request, toAsk, pass, missed, passes>>
    BY <1>7 DEF Found, Return
  <2>2. pass = {} /\ passes = 0 /\ result = "none"
    BY DEF Found, IndInv, Phases
  <2>3. s = snd[Tx] /\ Touches(Tx) = {s}
    BY <1>7 DEF Found, IndInv, KnownWhereItTouches, Touches, Items
  <2>4. TypeOK'
    BY <1>2, <1>4, <1>5, <2>1, <2>2, <2>3 DEF IndInv, TypeOK, Keys
  <2>5. Phases' /\ StartsAtTx' /\ KnownWhereItTouches'
    BY <1>4, <1>5, <2>1, <2>2
    DEF Found, IndInv, Phases, StartsAtTx, KnownWhereItTouches, Touches
  <2>6. FetchedIsIn'
    BY <2>1, <2>3 DEF IndInv, TypeOK, FetchedIsIn, Answer, ScrsAt
  <2>7. ClosedAtReturn'
    BY <1>1, <2>1, <2>2, <2>3 DEF ClosedAtReturn, Keys
  <2>8. AskedWithItsHash'
    BY <1>4, <2>1 DEF AskedWithItsHash, Keys, Touches
  <2>9. PassCount'
    <3>1. IsFiniteSet(fetched' \cup pass')
      <4>1. fetched' \cup pass' = {snd[Tx]}
        BY <2>1, <2>2
      <4> QED BY <4>1, FS_Singleton
    <3> QED BY <2>1, <2>2, <3>1, FS_CardinalityType DEF PassCount
  <2> QED BY <2>4, <2>5, <2>6, <2>7, <2>8, <2>9 DEF IndInv
<1> QED BY <1>6, <1>7

\* The map grows by the shards of the SCRs in S and is tested; g is the map
\* before.  This is the end of MergeSource, MergeDest and EndPass.
LEMMA GrowAndTest ==
    ASSUME IndInv, pc \in {"source", "dest", "fetch"}, NEW S \in SUBSET SCRs,
           hash' \in extraShardFromSCRs(hash, S),
           fetched \subseteq fetched', fetched' \subseteq fetched \cup Keys, pass = {},
           scrs' \in SUBSET SCRs, scrs \subseteq scrs', missed' = missed,
           withResults => \A s \in fetched' \ fetched, x \in SCRs :
                              <<s, x>> \in know0 => x \in scrs',
           S = scrs' \/ fetched' = {},
           entry = "hash",
           TestMap(hash', fetched'), UNCHANGED <<chain, request, toAsk>>
    PROVE  IndInv'
<1> USE DEF chain, request
<1>1. TypeOK /\ hash \in [Shards -> Items \cup {None}]
  BY DEF IndInv, TypeOK
<1>2. /\ hash' \in [Shards -> Items \cup {None}]
      /\ \A s \in Shards : hash[s] # None => hash'[s] = hash[s]
      /\ \A s \in Shards : hash'[s] # None /\ hash[s] = None => s \in Touches(hash'[s])
      /\ \A x \in S : Touches(x) \subseteq {s \in Shards : hash'[s] # None}
  BY <1>1, ExtraShards
<1>3. Keys \subseteq Keys'
  BY <1>2 DEF Keys
<1>4. fetched' \subseteq Keys'
  BY <1>1, <1>3 DEF TypeOK
<1>5. passes <= Cardinality(fetched')
  <2>1. fetched' \subseteq Shards /\ IsFiniteSet(fetched')
    BY <1>4, LookupConfig, FS_Subset DEF Keys
  <2>2. Cardinality(fetched) <= Cardinality(fetched')
        /\ Cardinality(fetched) \in Nat /\ Cardinality(fetched') \in Nat
    BY <2>1, FS_Subset, FS_CardinalityType
  <2>3. fetched \cup pass = fetched
    OBVIOUS
  <2> QED BY <1>1, <2>2, <2>3 DEF IndInv, PassCount, TypeOK
<1>6. /\ pass' \subseteq Keys' \ fetched'
      /\ PassCount'
      /\ passes' \in Nat
      /\ \/ pc' = "fetch" /\ result' = "none"
         \/ pc' = "done" /\ result' = "found" /\ Keys' \subseteq fetched'
  BY <1>4, <1>5, TestMapStep
<1>7. TypeOK'
  BY <1>1, <1>2, <1>4, <1>6 DEF TypeOK, Keys
<1>8. Phases' /\ KnownWhereItTouches'
  BY <1>6 DEF IndInv, Phases, KnownWhereItTouches, Touches
<1>9. Touches(Tx) \subseteq Keys /\ StartsAtTx'
  BY <1>3 DEF IndInv, StartsAtTx, Touches
<1>10. AskedWithItsHash'
  BY <1>2 DEF IndInv, AskedWithItsHash, Keys, Touches
<1>11. FetchedIsIn'
  BY <1>1 DEF IndInv, FetchedIsIn, TypeOK
<1>12. ClosedAtReturn'
  <2>1. CASE S = scrs'
    BY <1>2, <1>6, <2>1 DEF ClosedAtReturn, Keys, Touches
  <2>2. CASE fetched' = {}
    <3>1. Keys' # {}
      BY <1>3, <1>9 DEF Touches
    <3> QED BY <1>6, <2>2, <3>1 DEF ClosedAtReturn
  <2> QED BY <2>1, <2>2
<1> QED BY <1>6, <1>7, <1>8, <1>9, <1>10, <1>11, <1>12 DEF IndInv

LEMMA MergeSourceIndInv == ASSUME IndInv, MergeSource PROVE IndInv'
<1> USE DEF chain, request
<1>1. /\ pc = "source" /\ pass = {} /\ entry = "hash" /\ scrs \in SUBSET SCRs
      /\ UNCHANGED <<chain, request, toAsk, missed>> /\ TestMap(hash', fetched')
  BY DEF MergeSource, IndInv, Phases, TypeOK
<1>2. CASE UNCHANGED <<scrs, fetched>> /\ hash' \in extraShardFromSCRs(hash, scrs)
  BY <1>1, <1>2, GrowAndTest
<1>3. CASE /\ withResults
           /\ scrs' = scrs \cup Answer(snd[Tx])
           /\ fetched' = fetched \cup {snd[Tx]}
           /\ hash' \in extraShardFromSCRs([hash EXCEPT ![snd[Tx]] = Tx], scrs')
  <2>1. snd[Tx] \in Shards /\ snd[Tx] \in Keys /\ hash[snd[Tx]] = Tx
    BY <1>1 DEF IndInv, TypeOK, Phases, StartsAtTx, Touches, Items
  <2>2. [hash EXCEPT ![snd[Tx]] = Tx] = hash
    BY <2>1 DEF IndInv, TypeOK
  <2>3. scrs' \in SUBSET SCRs
    BY <1>1, <1>3 DEF Answer, ScrsAt
  <2>4. \A s \in fetched' \ fetched, x \in SCRs : <<s, x>> \in know0 => x \in scrs'
    BY <1>3 DEF IndInv, TypeOK, Answer, ScrsAt
  <2> QED BY <1>1, <1>3, <2>1, <2>2, <2>3, <2>4, GrowAndTest
<1> QED BY <1>2, <1>3 DEF MergeSource

LEMMA MergeDestIndInv == ASSUME IndInv, MergeDest PROVE IndInv'
<1> USE DEF chain, request
<1>1. /\ pc = "dest" /\ pass = {} /\ entry = "hash" /\ scrs \in SUBSET SCRs
      /\ fetched = {} /\ fetched' = fetched
      /\ UNCHANGED <<chain, request, toAsk, missed>> /\ TestMap(hash', fetched')
  BY DEF MergeDest, IndInv, Phases, TypeOK
<1>2. CASE UNCHANGED <<scrs, hash>>
  <2>1. hash' \in extraShardFromSCRs(hash, {})
    BY <1>2 DEF IndInv, TypeOK, extraShardFromSCRs
  <2>2. {} \in SUBSET SCRs
    OBVIOUS
  <2> QED BY <1>1, <1>2, <2>1, <2>2, GrowAndTest
<1>3. CASE /\ scrs' = scrs \cup Answer(rcv[Tx])
           /\ hash' \in extraShardFromSCRs(hash, Answer(rcv[Tx]))
  <2>1. Answer(rcv[Tx]) \in SUBSET SCRs /\ scrs' \in SUBSET SCRs
    BY <1>1, <1>3 DEF Answer, ScrsAt
  <2> QED BY <1>1, <1>3, <2>1, GrowAndTest
<1> QED BY <1>2, <1>3 DEF MergeDest

LEMMA EndPassIndInv == ASSUME IndInv, EndPass PROVE IndInv'
<1> USE DEF chain, request
<1>1. /\ pc = "fetch" /\ pass = {} /\ entry = "hash" /\ scrs \in SUBSET SCRs
      /\ fetched' = fetched /\ scrs' = scrs
      /\ hash' \in extraShardFromSCRs(hash, scrs)
      /\ UNCHANGED <<chain, request, toAsk, missed>> /\ TestMap(hash', fetched')
  BY DEF EndPass, IndInv, Phases, TypeOK
<1> QED BY <1>1, GrowAndTest

LEMMA FetchIndInv == ASSUME IndInv, NEW s \in Shards, Fetch(s) PROVE IndInv'
<1> USE DEF chain, request
<1>1. /\ pc = "fetch" /\ s \in pass /\ entry = "hash" /\ result = "none"
      /\ fetched' = fetched \cup {s} /\ pass' = pass \ {s}
      /\ UNCHANGED <<chain, request, pc, toAsk, hash, result, passes>>
      /\ scrs \subseteq scrs' /\ missed \subseteq missed'
      /\ s \in missed' \/ scrs' = scrs \cup ScrsAt(s)
  BY DEF Fetch, IndInv, Phases
<1>2. TypeOK'
  BY <1>1 DEF IndInv, TypeOK, Keys, Fetch, ScrsAt
<1>3. Phases' /\ AskedWithItsHash' /\ StartsAtTx' /\ ClosedAtReturn' /\ KnownWhereItTouches'
  BY <1>1 DEF IndInv, Phases, AskedWithItsHash, StartsAtTx, ClosedAtReturn,
              KnownWhereItTouches, Keys, Touches
<1>4. FetchedIsIn'
  BY <1>1 DEF IndInv, TypeOK, FetchedIsIn, ScrsAt
<1>5. PassCount'
  <2>1. fetched' \cup pass' = fetched \cup pass
    BY <1>1
  <2> QED BY <1>1, <2>1 DEF IndInv, PassCount
<1> QED BY <1>2, <1>3, <1>4, <1>5 DEF IndInv

LEMMA LearnIndInv ==
    ASSUME IndInv, NEW s \in Shards, NEW i \in Items, Learn(s, i) PROVE IndInv'
<1> USE DEF request
<1>1. TypeOK'
  BY DEF Learn, IndInv, TypeOK, Keys
<1>2. KnownWhereItTouches'
  BY DEF Learn, IndInv, KnownWhereItTouches, Touches
<1>3. Phases' /\ AskedWithItsHash' /\ StartsAtTx' /\ FetchedIsIn' /\ ClosedAtReturn' /\ PassCount'
  BY DEF Learn, IndInv, Phases, AskedWithItsHash, StartsAtTx, FetchedIsIn,
         ClosedAtReturn, PassCount, Keys, Touches
<1> QED BY <1>1, <1>2, <1>3 DEF IndInv

LEMMA NextIndInv == IndInv /\ [Next]_vars => IndInv'
<1> SUFFICES ASSUME IndInv, [Next]_vars PROVE IndInv'
  OBVIOUS
<1> USE DEF chain, request
<1>0. ASSUME NEW s \in Shards, FetchFails(s) PROVE IndInv'
  BY <1>0 DEF FetchFails, Return, IndInv, TypeOK, Phases, AskedWithItsHash, StartsAtTx,
              FetchedIsIn, ClosedAtReturn, KnownWhereItTouches, PassCount, Keys, Touches
<1>1. ASSUME NEW s \in Shards, NoNodes(s) PROVE IndInv'
  BY <1>1 DEF NoNodes, Return, IndInv, TypeOK, Phases, AskedWithItsHash, StartsAtTx,
              FetchedIsIn, ClosedAtReturn, KnownWhereItTouches, PassCount, Keys, Touches
<1>2. ASSUME NEW s \in Shards, NotThere(s) PROVE IndInv'
  BY <1>2 DEF NotThere, Return, IndInv, TypeOK, Phases, AskedWithItsHash, StartsAtTx,
              FetchedIsIn, ClosedAtReturn, KnownWhereItTouches, PassCount, Keys, Touches
<1>3. ASSUME NEW s \in Shards, FoundBySender(s) PROVE IndInv'
  <2>1. scrs' \subseteq SCRs
    BY <1>3 DEF FoundBySender, Answer, ScrsAt
  <2> QED
    BY <1>3, <2>1 DEF FoundBySender, Return, IndInv, TypeOK, Phases, AskedWithItsHash, StartsAtTx,
              FetchedIsIn, ClosedAtReturn, KnownWhereItTouches, PassCount, Keys, Touches
<1>4. CASE MergeDestBySender
  <2>1. scrs' \subseteq SCRs /\ scrs \subseteq scrs'
    BY <1>4 DEF MergeDestBySender, Answer, ScrsAt, IndInv, TypeOK
  <2> QED
    BY <1>4, <2>1 DEF MergeDestBySender, Return, IndInv, TypeOK, Phases, AskedWithItsHash,
              StartsAtTx, FetchedIsIn, ClosedAtReturn, KnownWhereItTouches, PassCount, Keys, Touches
<1>5. CASE UNCHANGED vars
  BY <1>5 DEF vars, IndInv, TypeOK, Phases, AskedWithItsHash, StartsAtTx,
              FetchedIsIn, ClosedAtReturn, KnownWhereItTouches, PassCount, Keys, Touches
<1> QED
  BY <1>0, <1>1, <1>2, <1>3, <1>4, <1>5, FoundIndInv, FetchIndInv, LearnIndInv,
     MergeSourceIndInv, MergeDestIndInv, EndPassIndInv
  DEF Next, Returned

LEMMA SpecIndInv == Spec => []IndInv
BY InitIndInv, NextIndInv, PTL DEF Spec
-----------------------------------------------------------------------------
\* TypeOK holds throughout getTxFromObservers and getTxWithSenderAddr.
THEOREM TypeCorrect == Spec => []TypeOK
<1>1. IndInv => TypeOK
  BY DEF IndInv
<1> QED BY <1>1, SpecIndInv, PTL

\* Every entry of shardIDWasFetch holds a hash its shard executes.
THEOREM HashesAreKnown == Spec => []AskedWithItsHash
<1>1. IndInv => AskedWithItsHash
  BY DEF IndInv
<1> QED BY <1>1, SpecIndInv, PTL

\* fetchSCRSBasedOnShardMap leaves no shard of a returned SCR out.
THEOREM EveryShardIsAsked == Spec => []NoShardForgotten
<1>1. IndInv => NoShardForgotten
  BY DEF IndInv, ClosedAtReturn, NoShardForgotten
<1> QED BY <1>1, SpecIndInv, PTL

\* The loop of fetchSCRSBasedOnShardMap computes the closure: nothing that was
\* reachable when the request arrived is missing.
THEOREM LookupIsComplete == Spec => []ResultsAreComplete
<1>1. IndInv => ResultsAreComplete
  <2> SUFFICES ASSUME IndInv, result = "found", entry = "hash", withResults, missed = {}
               PROVE  ReachableSCRs \subseteq scrs
    BY DEF ResultsAreComplete
  <2>1. Touches(Tx) \subseteq Keys /\ Keys \subseteq fetched
    BY DEF IndInv, StartsAtTx, ClosedAtReturn
  <2>2. \A s \in Keys, x \in SCRs : <<s, x>> \in know0 => x \in scrs
    BY <2>1 DEF IndInv, FetchedIsIn
  <2>3. \A x \in scrs : Touches(x) \subseteq Keys
    BY DEF IndInv, ClosedAtReturn
  <2>4. Closed(Keys)
    BY <2>1, <2>2, <2>3 DEF Closed
  <2>5. Keys \in SUBSET Shards
    BY DEF Keys
  <2>6. ReachableShards \subseteq Keys
    BY <2>4, <2>5 DEF ReachableShards
  <2> QED BY <2>2, <2>6 DEF ReachableSCRs
<1> QED BY <1>1, SpecIndInv, PTL

\* The same loop ends after at most as many passes as there are shards.
THEOREM LookupEnds == Spec => []PassesAreBounded
<1>1. IndInv => PassesAreBounded
  <2> SUFFICES ASSUME IndInv PROVE PassesAreBounded
    OBVIOUS
  <2>1. fetched \cup pass \subseteq Shards
    BY DEF IndInv, TypeOK, Keys
  <2>2. Cardinality(fetched \cup pass) <= Cardinality(Shards)
        /\ Cardinality(fetched \cup pass) \in Nat /\ Cardinality(Shards) \in Nat
    BY <2>1, LookupConfig, FS_Subset, FS_CardinalityType
  <2> QED BY <2>2 DEF IndInv, TypeOK, PassCount, PassesAreBounded
<1> QED BY <1>1, SpecIndInv, PTL
=============================================================================
