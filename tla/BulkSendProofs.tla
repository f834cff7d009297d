---------------------------- MODULE BulkSendProofs ----------------------------
(***************************************************************************)
(* Proofs about BulkSend: for every batch, every number of shards and of    *)
(* observers, the answers of the shards fit together in one reply, nothing  *)
(* is left out silently, and an answered group is never offered again.      *)
(***************************************************************************)
EXTENDS BulkSend, FiniteSetTheorems, FunctionTheorems, TLAPS

BatchOK == \E n \in 0 .. MaxBatch : batch \in [1 .. n -> TxKind]

\* Every shard is in one phase: its group is to come, is at work, or is behind;
\* the counters of an untouched group are still 0, and those of the group at
\* work say how far its list is done.
Phases ==
    /\ groups \cap answered = {}
    /\ pc = "post" => shard \notin groups \cup answered /\ left + offers[shard] = listed[shard]
                      /\ listed[shard] > 0
    /\ \A s \in groups : listed[s] = 0 /\ offers[s] = 0
    /\ \A s \in Shards \ (groups \cup answered) :
         Group(s) # {} /\ ~(pc = "post" /\ shard = s)
            => listed[s] > 0 /\ offers[s] = listed[s]
    /\ \A s \in Shards : offers[s] <= listed[s]
    /\ reply = "ok" => groups = {} /\ pc = "done"

\* What is acknowledged is valid, and belongs to a group that was answered.
AckedInGroups == \A p \in acked : p \in Valid /\ batch[p] \in answered

IndInv == TypeOK /\ Phases /\ AckedInGroups /\ ReplyFitsTogether
-----------------------------------------------------------------------------
\* Index numbers the valid transactions without gaps or repetition.
LEMMA IndexFacts ==
    ASSUME BatchOK
    PROVE  /\ IsFiniteSet(Valid) /\ Cardinality(Valid) \in Nat /\ Valid \subseteq Nat
           /\ \A p \in Valid : Index(p) \in 0 .. (Cardinality(Valid) - 1)
           /\ \A p, q \in Valid : Index(p) = Index(q) => p = q
<1>1. PICK n \in 0 .. MaxBatch : batch \in [1 .. n -> TxKind]
  BY DEF BatchOK
<1>2. n \in Nat /\ Valid \in SUBSET (1 .. n) /\ Valid \subseteq Nat
  BY <1>1, BulkConfig DEF Valid, Positions
<1>3. IsFiniteSet(1 .. n)
  BY <1>2, FS_Interval
<1>4. IsFiniteSet(Valid) /\ Valid \subseteq Nat
  <2>1. IsFiniteSet(Valid)
    BY <1>2, <1>3, FS_Subset
  <2> QED
    BY <1>2, <2>1
<1>5. Cardinality(Valid) \in Nat
  BY <1>4, FS_CardinalityType
<1> DEFINE Below(x) == {y \in Valid : y < x}
<1>6. ASSUME NEW p \in Valid
      PROVE  /\ IsFiniteSet(Below(p)) /\ Cardinality(Below(p)) \in Nat
             /\ Cardinality(Below(p)) < Cardinality(Valid)
  <2>1. Below(p) \in SUBSET Valid /\ p \notin Below(p) /\ p \in Nat
    BY <1>4
  <2>2. /\ IsFiniteSet(Below(p)) /\ Cardinality(Below(p)) <= Cardinality(Valid)
        /\ Cardinality(Valid) = Cardinality(Below(p)) => Valid = Below(p)
    BY <2>1, <1>4, FS_Subset
  <2>3. Cardinality(Below(p)) \in Nat
    BY <2>2, FS_CardinalityType
  <2> HIDE DEF Below
  <2> QED
    BY <2>1, <2>2, <2>3, <1>5
<1>7. ASSUME NEW p \in Valid, NEW q \in Valid, p < q
      PROVE  Cardinality(Below(p)) < Cardinality(Below(q))
  <2>1. Below(p) \in SUBSET Below(q) /\ p \in Below(q) /\ p \notin Below(p)
    <3>1. p \in Nat /\ q \in Nat /\ p < q
      BY <1>4, <1>7
    <3>2. ASSUME NEW r \in Valid, r < p
          PROVE  r < q
      <4>1. r \in Nat
        BY <1>4
      <4> QED
        BY <3>1, <3>2, <4>1
    <3>3. Below(p) \in SUBSET Below(q)
      BY <3>2
    <3>4. p \in Below(q) /\ p \notin Below(p)
      BY <3>1
    <3> QED
      BY <3>3, <3>4
  <2>2. /\ Cardinality(Below(p)) <= Cardinality(Below(q))
        /\ Cardinality(Below(q)) = Cardinality(Below(p)) => Below(q) = Below(p)
    BY <2>1, <1>6, FS_Subset
  <2>3. Cardinality(Below(p)) \in Nat /\ Cardinality(Below(q)) \in Nat
    BY <1>6
  <2> HIDE DEF Below
  <2> QED
    BY <2>1, <2>2, <2>3
<1>8. \A p \in Valid : Index(p) = Cardinality(Below(p))
  BY DEF Index
<1> HIDE DEF Below
<1> QED
  BY <1>4, <1>5, <1>6, <1>7, <1>8

\* As many indices as transactions.
LEMMA ImageSize ==
    ASSUME BatchOK, NEW A \in SUBSET Valid
    PROVE  /\ IsFiniteSet(A) /\ Cardinality(A) \in Nat
           /\ IsFiniteSet({Index(p) : p \in A})
           /\ Cardinality({Index(p) : p \in A}) = Cardinality(A)
<1> DEFINE T == {Index(p) : p \in A}
           g == [p \in A |-> Index(p)]
<1>1. IsFiniteSet(A) /\ Cardinality(A) \in Nat
  BY IndexFacts, FS_Subset, FS_CardinalityType
<1>2. \A p, q \in A : Index(p) = Index(q) => p = q
  BY IndexFacts
<1>3. g \in Injection(A, T) /\ g \in Surjection(A, T)
  BY <1>2, Zenon DEF Injection, Surjection, IsInjective
<1> HIDE DEF g, T
<1>4. IsFiniteSet(T) /\ (Cardinality(T) = Cardinality(A) <=> g \in Injection(A, T))
  BY <1>1, <1>3, FS_Surjection
<1> QED
  BY <1>1, <1>3, <1>4 DEF T
-----------------------------------------------------------------------------
LEMMA InitIndInv == Init => IndInv
<1> SUFFICES ASSUME Init PROVE IndInv
  OBVIOUS
<1>1. BatchOK
  BY DEF Init, BatchOK
<1>2. IsFiniteSet({}) /\ Cardinality({}) = 0
  BY FS_EmptySet
<1>3. DOMAIN hashes = {} /\ sent = 0 /\ acked = {} /\ answered = {}
  BY DEF Init
<1>4. TypeOK
  BY <1>1, <1>3, BulkConfig DEF Init, BatchOK, TypeOK
<1>5. Phases
  BY DEF Init, Phases, Group
<1>6. AckedInGroups /\ ReplyFitsTogether
  BY <1>2, <1>3 DEF AckedInGroups, ReplyFitsTogether
<1> QED
  BY <1>4, <1>5, <1>6 DEF IndInv

\* The steps that touch neither the reply's parts nor the batch.
LEMMA QuietStep ==
    ASSUME IndInv, UNCHANGED <<batch, hashes, sent, answered, acked>>
    PROVE  AckedInGroups' /\ ReplyFitsTogether'
<1>1. Valid' = Valid /\ Positions' = Positions /\ \A p : Index(p)' = Index(p)
  BY DEF Valid, Positions, Index
<1> QED
  BY <1>1 DEF IndInv, AckedInGroups, ReplyFitsTogether

LEMMA NextIndInv == IndInv /\ [Next]_vars => IndInv'
<1> SUFFICES ASSUME IndInv, [Next]_vars PROVE IndInv'
  OBVIOUS
<1> USE DEF IndInv
<1>0. batch' = batch
  BY DEF Next, vars, NextGroup, MissingObserver, Answers, Fails, GiveUpGroup, Reply, Returned
<1>1. /\ Valid' = Valid /\ Positions' = Positions
      /\ \A s : Group(s)' = Group(s)
      /\ \A p : Index(p)' = Index(p)
  BY <1>0 DEF Valid, Positions, Group, Index
<1>2. BatchOK /\ BatchOK'
  BY <1>0 DEF BatchOK, TypeOK
<1>3. CASE \E s \in Shards, n \in 1 .. MaxObservers : NextGroup(s, n)
  <2> PICK s \in Shards, n \in 1 .. MaxObservers : NextGroup(s, n)
    BY <1>3
  <2>1. TypeOK'
    <3>1. n \in 0 .. MaxObservers
      BY BulkConfig
    <3>2. listed' \in [Shards -> 0 .. MaxObservers] /\ groups' \subseteq Shards
      BY <3>1 DEF TypeOK, NextGroup
    <3> QED
      BY <1>0, <1>1, <3>1, <3>2 DEF TypeOK, NextGroup
  <2>2. Phases'
    BY <1>1, BulkConfig DEF TypeOK, Phases, NextGroup
  <2> QED
    BY <2>1, <2>2, QuietStep DEF NextGroup
<1>4. CASE \E s \in Shards : MissingObserver(s)
  <2>1. TypeOK'
    BY <1>0, <1>1, <1>4 DEF TypeOK, MissingObserver
  <2>2. Phases'
    BY <1>1, <1>4 DEF TypeOK, Phases, MissingObserver
  <2> QED
    BY <1>4, <2>1, <2>2, QuietStep DEF MissingObserver
<1>5. CASE Fails
  <2>0. offers[shard] + 1 \in 0 .. MaxObservers /\ left - 1 \in 0 .. MaxObservers
    BY <1>5, BulkConfig DEF TypeOK, Phases, Fails
  <2>1. TypeOK'
    BY <1>0, <1>1, <1>5, <2>0 DEF TypeOK, Fails
  <2>2. Phases'
    BY <1>1, <1>5, BulkConfig DEF TypeOK, Phases, Fails
  <2> QED
    BY <1>5, <2>1, <2>2, QuietStep DEF Fails
<1>6. CASE GiveUpGroup
  <2>1. TypeOK'
    BY <1>0, <1>1, <1>6 DEF TypeOK, GiveUpGroup
  <2>2. Phases'
    BY <1>1, <1>6, BulkConfig DEF TypeOK, Phases, GiveUpGroup
  <2> QED
    BY <1>6, <2>1, <2>2, QuietStep DEF GiveUpGroup
<1>7. CASE Reply
  <2>1. TypeOK'
    BY <1>0, <1>1, <1>7 DEF TypeOK, Reply
  <2>2. Phases'
    BY <1>1, <1>7 DEF TypeOK, Phases, Reply
  <2> QED
    BY <1>7, <2>1, <2>2, QuietStep DEF Reply
<1>8. CASE UNCHANGED vars
  <2>1. TypeOK'
    BY <1>0, <1>1, <1>8 DEF TypeOK, vars
  <2>2. Phases'
    BY <1>1, <1>8 DEF Phases, vars
  <2> QED
    BY <1>8, <2>1, <2>2, QuietStep DEF vars
<1>9. CASE \E A \in SUBSET Positions : Answers(A)
  <2> PICK A \in SUBSET Positions : Answers(A)
    BY <1>9
  <2> DEFINE new == {Index(p) : p \in A}
  <2>1. /\ A \in SUBSET Valid /\ \A p \in A : batch[p] = shard
        /\ shard \in Shards /\ shard \notin answered /\ answered' = answered \cup {shard}
        /\ acked' = acked \cup A
    BY DEF Answers, Group, Phases, TypeOK
  <2>2. /\ \A p \in Valid : Index(p) \in 0 .. (Cardinality(Valid) - 1)
        /\ \A p, q \in Valid : Index(p) = Index(q) => p = q
    BY <1>2, IndexFacts
  <2>3. /\ DOMAIN hashes' = DOMAIN hashes \cup new
        /\ \A i \in new : hashes'[i] \in A /\ Index(hashes'[i]) = i
        /\ \A i \in DOMAIN hashes \ new : hashes'[i] = hashes[i]
    BY DEF Answers, AddHashes
  <2>4. DOMAIN hashes \cap new = {}
    <3> SUFFICES ASSUME NEW i \in DOMAIN hashes, NEW p \in A, i = Index(p) PROVE FALSE
      OBVIOUS
    <3>1. hashes[i] \in acked /\ Index(hashes[i]) = i
      BY DEF ReplyFitsTogether
    <3>2. hashes[i] \in Valid /\ batch[hashes[i]] \in answered
      BY <3>1 DEF AckedInGroups
    <3>3. hashes[i] = p
      BY <2>1, <2>2, <3>1, <3>2
    <3> QED
      BY <2>1, <3>2, <3>3
  <2>5. /\ Cardinality(A) \in Nat /\ IsFiniteSet(new) /\ Cardinality(new) = Cardinality(A)
    BY <1>2, <2>1, ImageSize
  <2>6. IsFiniteSet(DOMAIN hashes)
    <3>1. Cardinality(Valid) \in Nat
      BY <1>2, IndexFacts
    <3>2. IsFiniteSet(0 .. (Cardinality(Valid) - 1))
      BY <3>1, FS_Interval
    <3> QED
      BY <3>2, FS_Subset DEF TypeOK
  <2>7. Cardinality(DOMAIN hashes') = sent + Cardinality(A)
    <3> HIDE DEF new
    <3>1. Cardinality(DOMAIN hashes \cup new)
            = Cardinality(DOMAIN hashes) + Cardinality(new) - Cardinality(DOMAIN hashes \cap new)
      BY <2>5, <2>6, FS_Union
    <3>2. Cardinality(DOMAIN hashes \cap new) = 0
      BY <2>4, FS_EmptySet
    <3> QED
      BY <2>3, <2>5, <3>1, <3>2 DEF ReplyFitsTogether, TypeOK
  <2>8. TypeOK'
    <3>1. DOMAIN hashes' \subseteq 0 .. (Cardinality(Valid) - 1)
      BY <2>1, <2>2, <2>3 DEF TypeOK
    <3>2. sent' \in Nat /\ left' \in 0 .. MaxObservers
      BY <2>5, BulkConfig DEF TypeOK, Answers
    <3>3. offers' \in [Shards -> 0 .. MaxObservers]
      <4>1. offers[shard] + 1 \in 0 .. MaxObservers
        BY BulkConfig DEF TypeOK, Phases, Answers
      <4> QED
        BY <4>1 DEF TypeOK, Answers
    <3> QED
      BY <1>0, <1>1, <2>1, <3>1, <3>2, <3>3 DEF TypeOK, Answers
  <2>9. Phases'
    BY <1>1, BulkConfig DEF TypeOK, Phases, Answers
  <2>10. AckedInGroups'
    BY <1>0, <1>1, <2>1 DEF AckedInGroups
  <2>11. ReplyFitsTogether'
    <3>1. \A i \in DOMAIN hashes' : hashes'[i] \in acked' /\ Index(hashes'[i]) = i
      BY <2>1, <2>3 DEF ReplyFitsTogether
    <3>2. \A p \in acked' : Index(p) \in DOMAIN hashes'
      BY <2>1, <2>3 DEF ReplyFitsTogether
    <3>3. sent' = sent + Cardinality(A)
      BY DEF Answers
    <3> QED
      BY <1>0, <2>7, <3>1, <3>2, <3>3 DEF ReplyFitsTogether, Index, Valid, Positions
  <2> QED
    BY <2>8, <2>9, <2>10, <2>11
<1> QED
  BY <1>3, <1>4, <1>5, <1>6, <1>7, <1>8, <1>9 DEF Next, Returned

LEMMA Invariance == Spec => []IndInv
BY InitIndInv, NextIndInv, PTL DEF Spec
-----------------------------------------------------------------------------
\* Every variable keeps its type; in particular every index in the reply of
\* SendMultipleTransactions is a place of the batch.
THEOREM TypeCorrect == Spec => []TypeOK
<1>1. IndInv => TypeOK
  BY DEF IndInv
<1> QED
  BY Invariance, <1>1, PTL

\* The hashes of the shards' answers land on the indices of their own
\* transactions, and NumOfTxs is the number of hashes.
THEOREM AnswersFitTogether == Spec => []ReplyFitsTogether
<1>1. IndInv => ReplyFitsTogether
  BY DEF IndInv
<1> QED
  BY Invariance, <1>1, PTL

\* A reply without an error has tried every observer listed for each group
\* that nobody answered.
THEOREM NothingLeftOutSilently == Spec => []MissingIsExplained
<1>1. IndInv => MissingIsExplained
  BY DEF IndInv, Phases, MissingIsExplained
<1> QED
  BY Invariance, <1>1, PTL

\* The group of a shard that answered is never posted again.
THEOREM NoAnsweredGroupAgain == Spec => AnsweredOnce
<1>1. IndInv /\ [Next]_vars => [\A s \in answered : offers'[s] = offers[s]]_vars
  BY DEF IndInv, Phases, TypeOK, Next, vars, NextGroup, MissingObserver, Answers, Fails,
         GiveUpGroup, Reply, Returned
<1> QED
  BY Invariance, <1>1, PTL DEF Spec, AnsweredOnce
=============================================================================
