------------------------- MODULE NodesProviderProofs -------------------------
(***************************************************************************)
(* Proofs about the nodes of the proxy and the goroutine that checks them.  *)
(* The first part is about the provider, its holders and their cached lists *)
(* (NodesProvider), for every set of configuration files, every number of   *)
(* shards and every width of the nonces; the second about the timers of the *)
(* checking goroutine (SyncCheckLoop, with variables of its own), for every *)
(* set of nodes and all durations its configuration allows.                 *)
(***************************************************************************)
EXTENDS NodesProvider, SyncCheckLoop, FiniteSetTheorems, FunctionTheorems,
        SequenceTheorems, TLAPS
-----------------------------------------------------------------------------
(* The elements of sequences *)

\* Counting the places of a set up to i numbers them without gaps.
LEMMA Ranks ==
    ASSUME NEW n \in Nat, NEW at \in SUBSET (1 .. n)
    PROVE  /\ IsFiniteSet(at) /\ Cardinality(at) \in Nat
           /\ \A k \in 1 .. Cardinality(at) :
                 \E i \in at : Cardinality({j \in at : j <= i}) = k
           /\ \A i \in at : Cardinality({j \in at : j <= i}) \in 1 .. Cardinality(at)
           /\ \A i, j \in at : Cardinality({x \in at : x <= i}) = Cardinality({x \in at : x <= j})
                                  => i = j
<1> DEFINE UpTo(i) == {j \in at : j <= i}
<1>1. IsFiniteSet(at) /\ Cardinality(at) \in Nat /\ at \subseteq Nat
  <2>1. IsFiniteSet(1 .. n)
    BY FS_Interval
  <2>2. IsFiniteSet(at)
    BY <2>1, FS_Subset
  <2> QED
    BY <2>2, FS_CardinalityType
<1>2. ASSUME NEW i \in at
      PROVE  /\ IsFiniteSet(UpTo(i)) /\ i \in UpTo(i)
             /\ Cardinality(UpTo(i)) \in 1 .. Cardinality(at)
  <2>1. UpTo(i) \in SUBSET at /\ i \in UpTo(i)
    BY <1>1
  <2>2. IsFiniteSet(UpTo(i)) /\ Cardinality(UpTo(i)) <= Cardinality(at)
    BY <2>1, <1>1, FS_Subset
  <2>3. Cardinality(UpTo(i)) \in Nat
    BY <2>2, FS_CardinalityType
  <2>4. Cardinality(UpTo(i)) # 0
    BY <2>1, <2>2, FS_EmptySet
  <2> HIDE DEF UpTo
  <2> QED
    BY <2>1, <2>2, <2>3, <2>4, <1>1
<1>3. ASSUME NEW i \in at, NEW j \in at, i < j
      PROVE  Cardinality(UpTo(i)) < Cardinality(UpTo(j))
  <2>1. UpTo(i) \in SUBSET UpTo(j) /\ j \in UpTo(j) /\ j \notin UpTo(i)
    <3>1. i \in Nat /\ j \in Nat /\ i < j
      BY <1>1, <1>3
    <3>2. ASSUME NEW x \in at, x <= i
          PROVE  x <= j
      <4>1. x \in Nat
        BY <1>1
      <4> QED
        BY <3>1, <3>2, <4>1
    <3>3. UpTo(i) \in SUBSET UpTo(j)
      BY <3>2
    <3>4. j \in UpTo(j) /\ j \notin UpTo(i)
      BY <3>1
    <3> QED
      BY <3>3, <3>4
  <2>2. /\ Cardinality(UpTo(i)) <= Cardinality(UpTo(j))
        /\ Cardinality(UpTo(j)) = Cardinality(UpTo(i)) => UpTo(j) = UpTo(i)
    BY <2>1, <1>2, FS_Subset
  <2>3. Cardinality(UpTo(i)) \in Nat /\ Cardinality(UpTo(j)) \in Nat
    BY <1>2, <1>1
  <2> HIDE DEF UpTo
  <2> QED
    BY <2>1, <2>2, <2>3
<1> DEFINE g == [i \in at |-> Cardinality(UpTo(i))]
           T == 1 .. Cardinality(at)
<1> HIDE DEF UpTo
<1>4. \A i, j \in at : Cardinality(UpTo(i)) = Cardinality(UpTo(j)) => i = j
  BY <1>1, <1>2, <1>3
<1>5. g \in Injection(at, T)
  <2>1. g \in [at -> T]
    BY <1>2
  <2>2. \A i, j \in at : g[i] = g[j] => i = j
    BY <1>4
  <2> QED
    BY <2>1, <2>2, Zenon DEF Injection, IsInjective
<1>6. IsFiniteSet(T) /\ Cardinality(T) = Cardinality(at)
  BY <1>1, FS_Interval
<1>7. g \in Surjection(at, T)
  BY <1>5, <1>6, FS_Injection
<1>8. \A k \in T : \E i \in at : Cardinality(UpTo(i)) = k
  BY <1>7 DEF Surjection
<1> QED
  BY <1>1, <1>2, <1>4, <1>8 DEF UpTo

LEMMA KeepFacts ==
    ASSUME NEW T, NEW q \in Seq(T), NEW S
    PROVE  /\ Keep(q, S) \in Seq(T)
           /\ Elems(Keep(q, S)) = Elems(q) \cap S
           /\ Distinct(q) => Distinct(Keep(q, S))
<1> DEFINE at == {i \in DOMAIN q : q[i] \in S}
           R(i) == Cardinality({j \in at : j <= i})
           place(k) == CHOOSE i \in at : R(i) = k
           n == Cardinality(at)
<1>1. Len(q) \in Nat /\ at \in SUBSET (1 .. Len(q)) /\ DOMAIN q = 1 .. Len(q)
  BY LenProperties
<1>2. /\ n \in Nat
      /\ \A k \in 1 .. n : \E i \in at : R(i) = k
      /\ \A i \in at : R(i) \in 1 .. n
      /\ \A i, j \in at : R(i) = R(j) => i = j
  <2> HIDE DEF at
  <2> QED
    BY <1>1, Ranks
<1>3. Keep(q, S) = [k \in 1 .. n |-> q[place(k)]]
  BY DEF Keep
<1> HIDE DEF R
<1>4. \A k \in 1 .. n : place(k) \in at /\ R(place(k)) = k
  BY <1>2
<1>5. \A i \in at : R(i) \in 1 .. n /\ place(R(i)) = i
  BY <1>2, <1>4
<1>6. \A i \in at : i \in DOMAIN q /\ q[i] \in S /\ q[i] \in T
  BY <1>1, ElementOfSeq
<1>7. \A i \in DOMAIN q : q[i] \in S => i \in at
  OBVIOUS
<1> HIDE DEF at, place, n
<1>8. Keep(q, S) \in Seq(T)
  BY <1>2, <1>3, <1>4, <1>6, IsASeq
<1>9. DOMAIN Keep(q, S) = 1 .. n /\ \A k \in 1 .. n : Keep(q, S)[k] = q[place(k)]
  BY <1>3
<1>10. Elems(Keep(q, S)) = Elems(q) \cap S
  BY <1>4, <1>5, <1>6, <1>7, <1>9 DEF Elems
<1>11. ASSUME Distinct(q)
       PROVE  Distinct(Keep(q, S))
  <2>1. SUFFICES ASSUME NEW k \in 1 .. n, NEW l \in 1 .. n, q[place(k)] = q[place(l)]
                 PROVE  k = l
    BY <1>9 DEF Distinct
  <2>2. place(k) = place(l)
    BY <2>1, <1>4, <1>6, <1>11 DEF Distinct
  <2> QED
    BY <2>2, <1>4
<1> QED
  BY <1>8, <1>10, <1>11

LEMMA EmptyFacts ==
    /\ \A T : <<>> \in Seq(T)
    /\ Elems(<<>>) = {} /\ Distinct(<<>>)
    /\ \A T : \A q \in Seq(T) : Elems(q) \subseteq T /\ (q = <<>> <=> Elems(q) = {})
<1>1. \A T : <<>> \in Seq(T)
  BY EmptySeq
<1>2. Elems(<<>>) = {} /\ Distinct(<<>>)
  BY DEF Elems, Distinct
<1>3. ASSUME NEW T, NEW q \in Seq(T)
      PROVE  Elems(q) \subseteq T /\ (q = <<>> <=> Elems(q) = {})
  <2>1. Len(q) \in Nat /\ DOMAIN q = 1 .. Len(q) /\ \A i \in 1 .. Len(q) : q[i] \in T
    BY LenProperties, ElementOfSeq
  <2>2. q # <<>> => 1 \in 1 .. Len(q)
    BY EmptySeq
  <2> QED
    BY <2>1, <2>2, <1>2 DEF Elems
<1> QED
  BY <1>1, <1>2, <1>3

LEMMA ConcatFacts ==
    ASSUME NEW T, NEW p \in Seq(T), NEW q \in Seq(T)
    PROVE  /\ p \o q \in Seq(T)
           /\ Elems(p \o q) = Elems(p) \cup Elems(q)
           /\ Distinct(p) /\ Distinct(q) /\ Elems(p) \cap Elems(q) = {} => Distinct(p \o q)
<1>1. /\ p \o q \in Seq(T) /\ Len(p \o q) = Len(p) + Len(q)
      /\ \A i \in 1 .. Len(p) + Len(q) :
            (p \o q)[i] = IF i <= Len(p) THEN p[i] ELSE q[i - Len(p)]
  BY ConcatProperties
<1>2. /\ Len(p) \in Nat /\ DOMAIN p = 1 .. Len(p)
      /\ Len(q) \in Nat /\ DOMAIN q = 1 .. Len(q)
      /\ DOMAIN (p \o q) = 1 .. Len(p) + Len(q)
  BY <1>1, LenProperties
<1>3. /\ \A i \in 1 .. Len(p) : i \in 1 .. Len(p) + Len(q) /\ (p \o q)[i] = p[i]
      /\ \A i \in 1 .. Len(q) : Len(p) + i \in 1 .. Len(p) + Len(q) /\ (p \o q)[Len(p) + i] = q[i]
      /\ \A i \in 1 .. Len(p) + Len(q) :
            \/ i \in 1 .. Len(p)
            \/ \E j \in 1 .. Len(q) : i = Len(p) + j
  <2>1. ASSUME NEW i \in 1 .. Len(p) + Len(q), i \notin 1 .. Len(p)
        PROVE  \E j \in 1 .. Len(q) : i = Len(p) + j
    <3>1. i - Len(p) \in 1 .. Len(q) /\ i = Len(p) + (i - Len(p))
      BY <1>2, <2>1
    <3> QED
      BY <3>1
  <2> QED
    BY <1>1, <1>2, <2>1
<1>4. Elems(p \o q) = Elems(p) \cup Elems(q)
  <2> DEFINE r == p \o q
             n == Len(p) + Len(q)
  <2>1. DOMAIN r = 1 .. n
    BY <1>2
  <2>2. \A x : x \in Elems(r) <=> \E i \in 1 .. n : x = r[i]
    BY <2>1 DEF Elems
  <2>3. \A x : x \in Elems(p) <=> \E i \in 1 .. Len(p) : x = p[i]
    BY <1>2 DEF Elems
  <2>4. \A x : x \in Elems(q) <=> \E i \in 1 .. Len(q) : x = q[i]
    BY <1>2 DEF Elems
  <2> HIDE DEF r, n
  <2>5. \A x : x \in Elems(r) => x \in Elems(p) \cup Elems(q)
    BY <2>2, <2>3, <2>4, <1>3 DEF r, n
  <2>6. \A x : x \in Elems(p) \cup Elems(q) => x \in Elems(r)
    BY <2>2, <2>3, <2>4, <1>3 DEF r, n
  <2> QED
    BY <2>5, <2>6 DEF r
<1>5. ASSUME Distinct(p), Distinct(q), Elems(p) \cap Elems(q) = {}
      PROVE  Distinct(p \o q)
  <2>1. \A i \in 1 .. Len(p), j \in 1 .. Len(q) : p[i] # q[j]
    BY <1>2, <1>5 DEF Elems
  <2>2. SUFFICES ASSUME NEW i \in 1 .. Len(p) + Len(q), NEW j \in 1 .. Len(p) + Len(q),
                        (p \o q)[i] = (p \o q)[j]
                 PROVE  i = j
    BY <1>2 DEF Distinct
  <2>3. CASE i <= Len(p) /\ j <= Len(p)
    <3>1. i \in 1 .. Len(p) /\ j \in 1 .. Len(p) /\ p[i] = p[j]
      BY <1>1, <1>2, <2>2, <2>3
    <3> QED
      BY <3>1, <1>2, <1>5 DEF Distinct
  <2>4. CASE ~(i <= Len(p)) /\ ~(j <= Len(p))
    <3>1. /\ i - Len(p) \in 1 .. Len(q) /\ j - Len(p) \in 1 .. Len(q)
          /\ q[i - Len(p)] = q[j - Len(p)]
      BY <1>1, <1>2, <2>2, <2>4
    <3>2. i - Len(p) = j - Len(p)
      BY <3>1, <1>2, <1>5 DEF Distinct
    <3> QED
      BY <3>2, <1>2
  <2>5. CASE i <= Len(p) /\ ~(j <= Len(p))
    <3>1. i \in 1 .. Len(p) /\ j - Len(p) \in 1 .. Len(q) /\ p[i] = q[j - Len(p)]
      BY <1>1, <1>2, <2>2, <2>5
    <3> QED
      BY <3>1, <2>1
  <2>6. CASE ~(i <= Len(p)) /\ j <= Len(p)
    <3>1. j \in 1 .. Len(p) /\ i - Len(p) \in 1 .. Len(q) /\ p[j] = q[i - Len(p)]
      BY <1>1, <1>2, <2>2, <2>6
    <3> QED
      BY <3>1, <2>1
  <2> QED
    BY <2>3, <2>4, <2>5, <2>6
<1> QED
  BY <1>1, <1>4, <1>5

LEMMA TailFacts ==
    ASSUME NEW T, NEW q \in Seq(T), q # <<>>
    PROVE  /\ Head(q) \in T /\ Tail(q) \in Seq(T)
           /\ Elems(q) = {Head(q)} \cup Elems(Tail(q))
           /\ Distinct(q) => Distinct(Tail(q)) /\ Head(q) \notin Elems(Tail(q))
<1>1. /\ Head(q) \in T /\ Tail(q) \in Seq(T) /\ Len(Tail(q)) = Len(q) - 1
      /\ \A i \in 1 .. Len(Tail(q)) : Tail(q)[i] = q[i + 1]
  BY HeadTailProperties
<1>2. /\ Len(q) \in Nat \ {0} /\ DOMAIN q = 1 .. Len(q)
      /\ DOMAIN Tail(q) = 1 .. Len(q) - 1 /\ Head(q) = q[1]
  BY <1>1, LenProperties, EmptySeq
<1>3. \A i \in 1 .. Len(q) : i = 1 \/ (i - 1 \in 1 .. Len(q) - 1 /\ q[i] = Tail(q)[i - 1])
  BY <1>1, <1>2
<1>4. \A i \in 1 .. Len(q) - 1 : i + 1 \in 1 .. Len(q) /\ i + 1 # 1 /\ Tail(q)[i] = q[i + 1]
  BY <1>1, <1>2
<1>5. Elems(q) = {Head(q)} \cup Elems(Tail(q))
  <2>1. \A x : x \in Elems(q) <=> \E i \in 1 .. Len(q) : x = q[i]
    BY <1>2 DEF Elems
  <2>2. \A x : x \in Elems(Tail(q)) <=> \E i \in 1 .. Len(q) - 1 : x = Tail(q)[i]
    BY <1>2 DEF Elems
  <2>3. 1 \in 1 .. Len(q)
    BY <1>2
  <2>4. \A x : x \in Elems(q) => x \in {Head(q)} \cup Elems(Tail(q))
    BY <2>1, <2>2, <1>2, <1>3
  <2>5. \A x : x \in {Head(q)} \cup Elems(Tail(q)) => x \in Elems(q)
    BY <2>1, <2>2, <2>3, <1>2, <1>4
  <2> QED
    BY <2>4, <2>5
<1>6. ASSUME Distinct(q)
      PROVE  Distinct(Tail(q)) /\ Head(q) \notin Elems(Tail(q))
  <2>1. Head(q) \notin Elems(Tail(q))
    BY <1>2, <1>4, <1>6 DEF Elems, Distinct
  <2>2. ASSUME NEW i \in 1 .. Len(q) - 1, NEW j \in 1 .. Len(q) - 1, Tail(q)[i] = Tail(q)[j]
        PROVE  i = j
    <3>1. i + 1 = j + 1
      BY <2>2, <1>2, <1>4, <1>6 DEF Distinct
    <3> QED
      BY <3>1, <1>2
  <2> QED
    BY <2>1, <2>2, <1>2 DEF Distinct
<1> QED
  BY <1>1, <1>5, <1>6

LEMMA AppendFacts ==
    ASSUME NEW T, NEW q \in Seq(T), NEW e \in T
    PROVE  /\ Append(q, e) \in Seq(T)
           /\ Elems(Append(q, e)) = Elems(q) \cup {e}
           /\ Distinct(q) /\ e \notin Elems(q) => Distinct(Append(q, e))
<1>1. /\ Append(q, e) \in Seq(T) /\ Len(Append(q, e)) = Len(q) + 1
      /\ \A i \in 1 .. Len(q) : Append(q, e)[i] = q[i]
      /\ Append(q, e)[Len(q) + 1] = e
  BY AppendProperties
<1>2. /\ Len(q) \in Nat /\ DOMAIN q = 1 .. Len(q)
      /\ DOMAIN Append(q, e) = 1 .. Len(q) + 1
  BY <1>1, LenProperties
<1>3. \A i \in 1 .. Len(q) + 1 : i \in 1 .. Len(q) \/ i = Len(q) + 1
  BY <1>2
<1>4. \A i \in 1 .. Len(q) : i \in 1 .. Len(q) + 1
  BY <1>2
<1>5. Len(q) + 1 \in 1 .. Len(q) + 1
  BY <1>2
<1>6. Elems(Append(q, e)) = Elems(q) \cup {e}
  BY <1>1, <1>2, <1>3, <1>4, <1>5 DEF Elems
<1>7. ASSUME Distinct(q), e \notin Elems(q)
      PROVE  Distinct(Append(q, e))
  BY <1>1, <1>2, <1>3, <1>7 DEF Elems, Distinct
<1> QED
  BY <1>1, <1>6, <1>7
-----------------------------------------------------------------------------
(* The inductive invariant *)

AllCached(h, s) == \A t \in CacheTypes : cache[<<h, t, s>>] # NotCached

Flagged(h, t, s) == {o \in Elems(nodes[h][s]) : getCacheType(o) = t}

\* The cached lists of a shard say what the flags say.
Fits(h, s) == \A t \in CacheTypes :
                 cache[<<h, t, s>>] # NotCached => Elems(cache[<<h, t, s>>]) = Flagged(h, t, s)

OneOf(h, s) == \A o \in Elems(nodes[h][s]) :
                  \E t \in CacheTypes :
                     /\ o \in Elems(cache[<<h, t, s>>])
                     /\ \A u \in CacheTypes \ {t} : o \notin Elems(cache[<<h, u, s>>])

\* A cached list is made of nodes its holder has now, each once.
Cached == \A h \in Availability, t \in CacheTypes, s \in Shards :
             cache[<<h, t, s>>] # NotCached => /\ nodes[h] # Nil
                                           /\ Elems(cache[<<h, t, s>>]) \subseteq Elems(nodes[h][s])
                                           /\ Distinct(cache[<<h, t, s>>])

\* The lists of a shard follow the flags, or all of them were made in time.
Lists == \A h \in Availability, s \in Shards :
            nodes[h] # Nil => Fits(h, s) \/ (AllCached(h, s) /\ OneOf(h, s))

\* No flag is about to change that a list may still be made of.
Pending == \A h \in Availability, s \in Shards :
              nodes[h] # Nil /\ Elems(nodes[h][s]) \cap Todo # {} => AllCached(h, s)

\* The round asks every node once, under its shard.
Round == /\ Distinct(checker.done)
         /\ \A s \in Shards :
               /\ Distinct(checker.todo[s])
               /\ Elems(checker.todo[s]) \cap Elems(checker.done) = {}
               /\ \A o \in Elems(checker.todo[s]) : o.node.shard = s

\* The nodes of one kind come from one load.
OneLoad(S) == \A o, p \in S : o.node.snapshotless = p.node.snapshotless => o.gen = p.gen
Loads      == OneLoad(Held) /\ OneLoad(InRound)

\* A successful reload leaves a regular holder; the other one is never lost.
Holders == /\ nodes["recent"] # Nil
           /\ answer = "Reloaded configuration" => nodes["all"] # Nil /\ ~Crashed

IndInv == TypeOK /\ HeldOnce /\ Cached /\ Lists /\ Pending /\ Round /\ Loads /\ Holders
-----------------------------------------------------------------------------
(* What is held, read and asked *)

LEMMA HeldByFacts ==
    ASSUME NEW ns
    PROVE  \A o : o \in HeldBy(ns) <=>
                     \E h \in Availability, s \in Shards : ns[h] # Nil /\ o \in Elems(ns[h][s])
  BY DEF HeldBy

LEMMA HeldFacts ==
    \A o : o \in Held <=>
              \E h \in Availability, s \in Shards : nodes[h] # Nil /\ o \in Elems(nodes[h][s])
  BY HeldByFacts DEF Held

LEMMA HeldFactsNext ==
    \A o : o \in Held' <=>
              \E h \in Availability, s \in Shards : nodes'[h] # Nil /\ o \in Elems(nodes'[h][s])
  BY HeldByFacts DEF Held

LEMMA RoundFacts ==
    \A o : o \in InRound <=> (\E s \in Shards : o \in Elems(checker.todo[s])) \/ o \in Elems(checker.done)
  BY DEF InRound, Todo

LEMMA RoundFactsNext ==
    \A o : o \in InRound' <=> (\E s \in Shards : o \in Elems(checker'.todo[s])) \/ o \in Elems(checker'.done)
  BY DEF InRound, Todo

LEMMA NodeFacts ==
    \A o \in Objects : /\ o.node \in Nodes /\ o.node.snapshotless \in BOOLEAN
                       /\ o.node.shard \in Shards /\ o.gen \in Gens
  BY ProviderConfig DEF Objects

LEMMA TypeFacts ==
    ASSUME TypeOK
    PROVE  /\ \A h \in Availability, s \in Shards :
                 nodes[h] # Nil => /\ nodes[h] \in [Shards -> Seq(Objects)]
                                   /\ nodes[h][s] \in Seq(Objects)
                                   /\ Elems(nodes[h][s]) \subseteq Objects
           /\ Held \subseteq Objects /\ InRound \subseteq Objects
           /\ \A s \in Shards : /\ checker.todo[s] \in Seq(Objects)
                                /\ Elems(checker.todo[s]) \subseteq InRound
           /\ checker.done \in Seq(Objects) /\ Elems(checker.done) \subseteq InRound
<1>1. ASSUME NEW h \in Availability, NEW s \in Shards, nodes[h] # Nil
      PROVE  /\ nodes[h] \in [Shards -> Seq(Objects)] /\ nodes[h][s] \in Seq(Objects)
             /\ Elems(nodes[h][s]) \subseteq Objects
  <2>1. nodes[h] \in [Shards -> Seq(Objects)]
    BY <1>1 DEF TypeOK
  <2>2. nodes[h][s] \in Seq(Objects)
    BY <2>1
  <2> QED
    BY <2>1, <2>2, EmptyFacts
<1>2. Held \subseteq Objects
  BY <1>1, HeldFacts
<1>3. /\ \A s \in Shards : checker.todo[s] \in Seq(Objects) /\ Elems(checker.todo[s]) \subseteq InRound
      /\ checker.done \in Seq(Objects) /\ Elems(checker.done) \subseteq InRound
  <2>1. checker.todo \in [Shards -> Seq(Objects)] /\ checker.done \in Seq(Objects)
    BY DEF TypeOK
  <2>2. \A s \in Shards : checker.todo[s] \in Seq(Objects)
    BY <2>1
  <2>3. /\ \A s \in Shards : Elems(checker.todo[s]) \subseteq InRound
        /\ Elems(checker.done) \subseteq InRound
    BY RoundFacts
  <2> QED
    BY <2>1, <2>2, <2>3
<1>4. InRound \subseteq Objects
  <2>1. \A q \in Seq(Objects) : Elems(q) \subseteq Objects
    BY EmptyFacts
  <2>2. /\ \A s \in Shards : Elems(checker.todo[s]) \subseteq Objects
        /\ Elems(checker.done) \subseteq Objects
    BY <1>3, <2>1
  <2> QED
    BY <2>2, RoundFacts
<1> QED
  BY <1>1, <1>2, <1>3, <1>4

\* A number is left for the next load.
LEMMA FreshLoad ==
    ASSUME TypeOK, Loads
    PROVE  Fresh \in Gens /\ \A o \in Held \cup InRound : o.gen # Fresh
<1>1. ASSUME NEW S \in SUBSET Objects, OneLoad(S)
      PROVE  \E a, b \in Gens : \A o \in S : o.gen \in {a, b}
  <2> DEFINE K(f) == {o \in S : o.node.snapshotless = f}
  <2>1. ASSUME NEW f \in BOOLEAN
        PROVE  \E a \in Gens : \A o \in K(f) : o.gen = a
    <3>1. CASE K(f) = {}
      BY <3>1, SpareGen
    <3>2. CASE K(f) # {}
      <4>1. PICK p \in K(f) : TRUE
        BY <3>2
      <4>2. p.gen \in Gens
        BY <4>1, NodeFacts
      <4>3. \A o \in K(f) : o.gen = p.gen
        BY <4>1, <1>1 DEF OneLoad
      <4> QED
        BY <4>2, <4>3
    <3> QED
      BY <3>1, <3>2
  <2>2. PICK a \in Gens : \A o \in K(TRUE) : o.gen = a
    BY <2>1
  <2>3. PICK b \in Gens : \A o \in K(FALSE) : o.gen = b
    BY <2>1
  <2>4. \A o \in S : o \in K(TRUE) \/ o \in K(FALSE)
    BY NodeFacts
  <2> HIDE DEF K
  <2> QED
    BY <2>2, <2>3, <2>4
<1>2. PICK a \in Gens, b \in Gens : \A o \in Held : o.gen \in {a, b}
  BY <1>1, TypeFacts DEF Loads
<1>3. PICK c \in Gens, d \in Gens : \A o \in InRound : o.gen \in {c, d}
  BY <1>1, TypeFacts DEF Loads
<1>4. PICK g \in Gens : g \notin {a, b, c, d}
  BY SpareGen
<1>5. \A o \in Held \cup InRound : o.gen # g
  BY <1>2, <1>3, <1>4
<1> QED
  BY <1>5 DEF Fresh

\* A holder's list, cached or not, is made of its nodes, each once; a list that
\* is not cached is made of the flags.
LEMMA ObserversFacts ==
    ASSUME TypeOK, HeldOnce, Cached,
           NEW h \in Availability, NEW t \in CacheTypes, NEW s \in Shards
    PROVE  /\ getObservers(h, t, s) \in Seq(Objects)
           /\ nodes[h] = Nil => getObservers(h, t, s) = <<>>
           /\ nodes[h] # Nil => /\ Elems(getObservers(h, t, s)) \subseteq Elems(nodes[h][s])
                                /\ Distinct(getObservers(h, t, s))
           /\ nodes[h] # Nil /\ cache[<<h, t, s>>] = NotCached
                 => Elems(getObservers(h, t, s)) = Flagged(h, t, s)
           /\ cache[<<h, t, s>>] # NotCached => getObservers(h, t, s) = cache[<<h, t, s>>]
<1>0. <<h, t, s>> \in Keys
  BY DEF Keys
<1>1. CASE cache[<<h, t, s>>] # NotCached
  <2>1. getObservers(h, t, s) = cache[<<h, t, s>>]
    BY <1>1 DEF getObservers
  <2>2. cache[<<h, t, s>>] \in Seq(Objects)
    BY <1>0, <1>1 DEF TypeOK
  <2> QED
    BY <1>1, <2>1, <2>2 DEF Cached
<1>2. CASE cache[<<h, t, s>>] = NotCached /\ nodes[h] = Nil
  BY <1>2, EmptyFacts DEF getObservers
<1>3. CASE cache[<<h, t, s>>] = NotCached /\ nodes[h] # Nil
  <2>1. getObservers(h, t, s) = Keep(nodes[h][s], Flagged(h, t, s))
    BY <1>3 DEF getObservers, Listed, Flagged
  <2>2. nodes[h][s] \in Seq(Objects) /\ Distinct(nodes[h][s])
    BY <1>3, TypeFacts DEF HeldOnce
  <2>3. Flagged(h, t, s) \subseteq Elems(nodes[h][s])
    BY DEF Flagged
  <2>4. /\ Keep(nodes[h][s], Flagged(h, t, s)) \in Seq(Objects)
        /\ Elems(Keep(nodes[h][s], Flagged(h, t, s))) = Elems(nodes[h][s]) \cap Flagged(h, t, s)
        /\ Distinct(Keep(nodes[h][s], Flagged(h, t, s)))
    BY <2>2, KeepFacts
  <2> QED
    BY <1>3, <2>1, <2>3, <2>4
<1> QED
  BY <1>1, <1>2, <1>3

\* The four lists of a shard share no node.
LEMMA ListsApart ==
    ASSUME TypeOK, HeldOnce, Cached, Lists,
           NEW h \in Availability, NEW s \in Shards, nodes[h] # Nil
    PROVE  \A o \in Elems(nodes[h][s]) :
              \E t \in CacheTypes :
                 /\ o \in Elems(getObservers(h, t, s))
                 /\ \A u \in CacheTypes \ {t} : o \notin Elems(getObservers(h, u, s))
<1>1. CASE Fits(h, s)
  <2>1. \A t \in CacheTypes : Elems(getObservers(h, t, s)) = Flagged(h, t, s)
    BY <1>1, ObserversFacts DEF Fits
  <2>2. \A o : getCacheType(o) \in CacheTypes
    BY DEF getCacheType, CacheTypes
  <2> QED
    BY <2>1, <2>2 DEF Flagged
<1>2. CASE AllCached(h, s) /\ OneOf(h, s)
  <2>1. \A t \in CacheTypes : getObservers(h, t, s) = cache[<<h, t, s>>]
    BY <1>2, ObserversFacts DEF AllCached
  <2> QED
    BY <1>2, <2>1 DEF OneOf
<1> QED
  BY <1>1, <1>2 DEF Lists

\* Lists may be asked for and cached at any moment.
LEMMA FillStep ==
    ASSUME IndInv, NEW keys, \A k \in Keys : k \in keys => nodes[k[1]] # Nil,
           cache' = Filled(keys), UNCHANGED <<nodes, synced>>
    PROVE  /\ cache' \in [Keys -> Seq(Objects) \cup {NotCached}]
           /\ \A k \in Keys : cache'[k] # NotCached => Elems(cache'[k]) \subseteq Held'
           /\ Cached' /\ Lists'
           /\ \A h \in Availability, s \in Shards :
                 \/ AllCached(h, s)
                 \/ \A t \in CacheTypes : <<h, t, s>> \in keys
                 => AllCached(h, s)'
<1>0. TypeOK /\ HeldOnce /\ Cached /\ Lists
  BY DEF IndInv
<1>1. \A k \in Keys : /\ k[1] \in Availability /\ k[2] \in CacheTypes /\ k[3] \in Shards
                      /\ k = <<k[1], k[2], k[3]>>
  BY DEF Keys
<1>2. /\ cache' \in [Keys -> Seq(Objects) \cup {NotCached}]
      /\ \A k \in Keys : cache'[k] = IF k \in keys THEN getObservers(k[1], k[2], k[3]) ELSE cache[k]
  <2>1. \A k \in Keys : getObservers(k[1], k[2], k[3]) \in Seq(Objects)
    BY <1>0, <1>1, ObserversFacts
  <2>2. \A k \in Keys : cache[k] \in Seq(Objects) \cup {NotCached}
    BY <1>0 DEF TypeOK
  <2> QED
    BY <2>1, <2>2 DEF Filled
<1>3. ASSUME NEW h \in Availability, NEW t \in CacheTypes, NEW s \in Shards
      PROVE  /\ cache'[<<h, t, s>>] = IF <<h, t, s>> \in keys THEN getObservers(h, t, s)
                                  ELSE cache[<<h, t, s>>]
             /\ <<h, t, s>> \in keys => nodes[h] # Nil /\ cache'[<<h, t, s>>] # NotCached
  <2>1. <<h, t, s>> \in Keys
    BY DEF Keys
  <2>2. getObservers(h, t, s) # NotCached
    BY <1>0, ObserversFacts, ProviderConfig
  <2> QED
    BY <1>2, <2>1, <2>2
<1>4. Cached'
  <2>1. SUFFICES ASSUME NEW h \in Availability, NEW t \in CacheTypes, NEW s \in Shards,
                        cache'[<<h, t, s>>] # NotCached
                 PROVE  /\ nodes[h] # Nil
                        /\ Elems(cache'[<<h, t, s>>]) \subseteq Elems(nodes[h][s])
                        /\ Distinct(cache'[<<h, t, s>>])
    BY DEF Cached
  <2>2. CASE <<h, t, s>> \in keys
    BY <2>2, <1>0, <1>3, ObserversFacts
  <2>3. CASE <<h, t, s>> \notin keys
    <3>1. cache'[<<h, t, s>>] = cache[<<h, t, s>>]
      BY <2>3, <1>3
    <3> QED
      BY <3>1, <2>1, <1>0 DEF Cached
  <2> QED
    BY <2>2, <2>3
<1>5. \A k \in Keys : cache'[k] # NotCached => Elems(cache'[k]) \subseteq Held'
  <2>1. \A h \in Availability, t \in CacheTypes, s \in Shards :
           cache'[<<h, t, s>>] # NotCached => Elems(cache'[<<h, t, s>>]) \subseteq Held'
    <3>1. SUFFICES ASSUME NEW h \in Availability, NEW t \in CacheTypes, NEW s \in Shards,
                          cache'[<<h, t, s>>] # NotCached,
                          NEW o \in Elems(cache'[<<h, t, s>>])
                   PROVE  o \in Held'
      OBVIOUS
    <3>2. nodes'[h] # Nil /\ o \in Elems(nodes'[h][s])
      BY <1>4, <3>1 DEF Cached
    <3> QED
      BY <3>2, HeldFactsNext
  <2> QED
    BY <1>1, <2>1
<1>6. ASSUME NEW h \in Availability, NEW s \in Shards, AllCached(h, s)
      PROVE  AllCached(h, s)' /\ \A t \in CacheTypes : cache'[<<h, t, s>>] = cache[<<h, t, s>>]
  BY <1>0, <1>3, <1>6, ObserversFacts DEF AllCached
<1>7. Lists'
  <2>1. SUFFICES ASSUME NEW h \in Availability, NEW s \in Shards, nodes[h] # Nil
                 PROVE  Fits(h, s)' \/ (AllCached(h, s)' /\ OneOf(h, s)')
    BY DEF Lists
  <2>2. CASE AllCached(h, s) /\ OneOf(h, s)
    BY <2>2, <1>6 DEF OneOf
  <2>3. CASE Fits(h, s)
    <3>1. \A t \in CacheTypes : Flagged(h, t, s)' = Flagged(h, t, s)
      BY DEF Flagged, getCacheType
    <3>2. \A t \in CacheTypes : Elems(getObservers(h, t, s)) = Flagged(h, t, s)
      BY <1>0, <2>1, <2>3, ObserversFacts DEF Fits
    <3> QED
      BY <1>3, <2>3, <3>1, <3>2 DEF Fits
  <2> QED
    BY <1>0, <2>1, <2>2, <2>3 DEF Lists
<1>8. \A h \in Availability, s \in Shards :
         (\A t \in CacheTypes : <<h, t, s>> \in keys) => AllCached(h, s)'
  BY <1>3 DEF AllCached
<1> QED
  BY <1>2, <1>4, <1>5, <1>6, <1>7, <1>8

\* A lookup never gets a list from a holder that is not there.
LEMMA TouchedFacts ==
    ASSUME IndInv, NEW av, NEW s
    PROVE  \A k \in Touched(av, s) : nodes[k[1]] # Nil
<1>1. \A k \in Read(av, s) : k[1] = "recent" \/ k[1] = "all"
  BY DEF Read
<1>2. nodes["recent"] # Nil
  BY DEF IndInv, Holders
<1>3. CASE Panics(av, s)
  <2>1. \A k \in Touched(av, s) : k[1] = "recent"
    BY <1>3 DEF Touched
  <2> QED
    BY <2>1, <1>2
<1>4. CASE ~Panics(av, s)
  <2>1. Touched(av, s) = Read(av, s)
    BY <1>4 DEF Touched
  <2>2. nodes["all"] # Nil \/ \A k \in Read(av, s) : k[1] # "all"
    BY <1>4 DEF Panics
  <2> QED
    BY <1>1, <1>2, <2>1, <2>2
<1> QED
  BY <1>3, <1>4
-----------------------------------------------------------------------------
(* Every step keeps the invariant *)

\* A load makes a list per shard, of the shard's nodes of the holder's kind.
LEMMA LoadFacts ==
    ASSUME NEW c \in Configs, NEW h \in Availability, NEW g \in Gens
    PROVE  /\ InitialNodes(c, h, g) \in [Shards -> Seq(Objects)]
           /\ \A s \in Shards :
                 /\ Distinct(InitialNodes(c, h, g)[s])
                 /\ \A o \in Elems(InitialNodes(c, h, g)[s]) :
                       IsNodeValid(o.node, h) /\ o.node.shard = s /\ o.gen = g
<1> DEFINE entries == [i \in DOMAIN c |-> [node |-> c[i], entry |-> i, gen |-> g]]
           of(s, f) == {o \in Elems(entries) : /\ IsNodeValid(o.node, h)
                                               /\ o.node.shard = s
                                               /\ o.node.fallback = f}
           list(s) == Keep(entries, of(s, FALSE)) \o Keep(entries, of(s, TRUE))
<1>1. InitialNodes(c, h, g) = [s \in Shards |-> list(s)]
  BY DEF InitialNodes
<1>2. entries \in Seq(Objects) /\ Distinct(entries) /\ \A o \in Elems(entries) : o.gen = g
  <2>1. c \in Seq(Nodes)
    BY ProviderConfig
  <2>2. Len(c) \in Nat /\ DOMAIN c = 1 .. Len(c) /\ \A i \in 1 .. Len(c) : c[i] \in Nodes
    BY <2>1, LenProperties, ElementOfSeq
  <2>3. \A i \in DOMAIN c : [node |-> c[i], entry |-> i, gen |-> g] \in Objects
    BY <2>2 DEF Objects
  <2>4. entries \in Seq(Objects)
    BY <2>2, <2>3, IsASeq
  <2>5. Distinct(entries)
    BY DEF Distinct
  <2>6. \A o \in Elems(entries) : o.gen = g
    BY DEF Elems
  <2> HIDE DEF entries
  <2> QED
    BY <2>4, <2>5, <2>6
<1>3. ASSUME NEW s \in Shards
      PROVE  /\ list(s) \in Seq(Objects) /\ Distinct(list(s))
             /\ \A o \in Elems(list(s)) : IsNodeValid(o.node, h) /\ o.node.shard = s /\ o.gen = g
  <2> DEFINE A == Keep(entries, of(s, FALSE))
             B == Keep(entries, of(s, TRUE))
  <2>1. \A f \in BOOLEAN : /\ Keep(entries, of(s, f)) \in Seq(Objects)
                           /\ Elems(Keep(entries, of(s, f))) = Elems(entries) \cap of(s, f)
                           /\ Distinct(Keep(entries, of(s, f)))
    <3> HIDE DEF entries, of
    <3> QED
      BY <1>2, KeepFacts
  <2>2. /\ A \in Seq(Objects) /\ Distinct(A) /\ Elems(A) = Elems(entries) \cap of(s, FALSE)
        /\ B \in Seq(Objects) /\ Distinct(B) /\ Elems(B) = Elems(entries) \cap of(s, TRUE)
    BY <2>1
  <2>3. of(s, FALSE) \cap of(s, TRUE) = {}
    OBVIOUS
  <2>4. \A f \in BOOLEAN : \A o \in of(s, f) : IsNodeValid(o.node, h) /\ o.node.shard = s
    OBVIOUS
  <2>5. list(s) = A \o B
    OBVIOUS
  <2> HIDE DEF A, B, of, entries, list
  <2>6. /\ A \o B \in Seq(Objects) /\ Elems(A \o B) = Elems(A) \cup Elems(B)
        /\ Distinct(A \o B)
    BY <2>2, <2>3, ConcatFacts
  <2> QED
    BY <1>2, <2>2, <2>4, <2>5, <2>6
<1> HIDE DEF list
<1> QED
  BY <1>1, <1>3

LEMMA InitInv == Init => IndInv
<1> SUFFICES ASSUME Init PROVE IndInv
  OBVIOUS
<1>1. PICK c \in Configs, g \in Gens :
         /\ shardIds = ConfigShards(c)
         /\ nodes = [h \in Availability |-> InitialNodes(c, h, g)]
         /\ cache = [k \in Keys |-> NotCached]
         /\ synced = Held
         /\ checker = Idle
         /\ answer = "none"
         /\ loaded = c
  BY DEF Init
<1>2. \A h \in Availability :
         /\ nodes[h] \in [Shards -> Seq(Objects)] /\ nodes[h] # Nil
         /\ \A s \in Shards :
               /\ Distinct(nodes[h][s])
               /\ \A o \in Elems(nodes[h][s]) : IsNodeValid(o.node, h) /\ o.node.shard = s /\ o.gen = g
  BY <1>1, LoadFacts, ProviderConfig
<1>3. \A h \in Availability, t \in CacheTypes, s \in Shards : cache[<<h, t, s>>] = NotCached
  BY <1>1 DEF Keys
<1>4. /\ checker.pc = "idle" /\ checker.done = <<>> /\ checker.shards = {}
      /\ checker.todo = [s \in Shards |-> <<>>]
  BY <1>1 DEF Idle
<1>5. InRound = {} /\ Todo = {}
  BY <1>4, EmptyFacts DEF InRound, Todo
<1>6. TypeOK
  <2>1. shardIds \subseteq Shards
    <3>1. c \in Seq(Nodes)
      BY ProviderConfig
    <3>2. \A i \in DOMAIN c : c[i] \in Nodes
      BY <3>1, LenProperties, ElementOfSeq
    <3> QED
      BY <1>1, <3>2, ProviderConfig DEF ConfigShards
  <2>2. nodes \in [Availability -> [Shards -> Seq(Objects)] \cup {Nil}]
    BY <1>1, <1>2
  <2>3. checker \in [pc : {"idle", "ask", "map", "crashed"},
                     todo : [Shards -> Seq(Objects)], done : Seq(Objects), shards : SUBSET Shards]
    <3>1. <<>> \in Seq(Objects)
      BY EmptyFacts
    <3> QED
      BY <1>1, <3>1 DEF Idle
  <2>4. cache \in [Keys -> Seq(Objects) \cup {NotCached}] /\ \A k \in Keys : cache[k] = NotCached
    BY <1>1
  <2> QED
    BY <1>1, <1>4, <1>5, <2>1, <2>2, <2>3, <2>4 DEF TypeOK
<1>7. HeldOnce
  BY <1>2, <1>6, TypeFacts DEF HeldOnce, Elems
<1>8. Cached /\ Lists /\ Pending
  BY <1>3, <1>5 DEF Cached, Lists, Fits, Pending
<1>9. Round
  BY <1>4, EmptyFacts DEF Round
<1>10. Loads
  BY <1>2, <1>5, HeldFacts DEF Loads, OneLoad
<1>11. Holders
  BY <1>1, <1>2 DEF Holders, Availability
<1> QED
  BY <1>6, <1>7, <1>8, <1>9, <1>10, <1>11 DEF IndInv

\* What does not depend on the cached lists stays.
LEMMA QuietStep ==
    ASSUME IndInv, NEW keys, \A k \in Keys : k \in keys => nodes[k[1]] # Nil,
           cache' = Filled(keys), UNCHANGED <<shardIds, nodes, synced, answer, loaded>>
    PROVE  /\ HeldOnce' /\ Cached' /\ Lists'
           /\ Held' = Held /\ OneLoad(Held)'
           /\ \A h \in Availability, s \in Shards : AllCached(h, s) => AllCached(h, s)'
           /\ nodes'["recent"] # Nil
           /\ shardIds' \subseteq Shards
           /\ nodes' \in [Availability -> [Shards -> Seq(Objects)] \cup {Nil}]
           /\ cache' \in [Keys -> Seq(Objects) \cup {NotCached}]
           /\ \A k \in Keys : cache'[k] # NotCached => Elems(cache'[k]) \subseteq Held'
           /\ answer' \in {"none", "Reloaded configuration", "not reloaded"}
           /\ loaded' \in Configs
<1>1. /\ cache' \in [Keys -> Seq(Objects) \cup {NotCached}]
      /\ \A k \in Keys : cache'[k] # NotCached => Elems(cache'[k]) \subseteq Held'
      /\ Cached' /\ Lists'
      /\ \A h \in Availability, s \in Shards : AllCached(h, s) => AllCached(h, s)'
  BY FillStep
<1>2. Held' = Held /\ HeldOnce' /\ OneLoad(Held)'
  BY DEF IndInv, Held, HeldOnce, Loads, OneLoad
<1>3. nodes'["recent"] # Nil
  BY DEF IndInv, Holders
<1>4. /\ shardIds' \subseteq Shards
      /\ nodes' \in [Availability -> [Shards -> Seq(Objects)] \cup {Nil}]
      /\ answer' \in {"none", "Reloaded configuration", "not reloaded"}
      /\ loaded' \in Configs
  BY DEF IndInv, TypeOK
<1> QED
  BY <1>1, <1>2, <1>3, <1>4

\* A lookup.
LEMMA ReadStep ==
    ASSUME IndInv, NEW keys, \A k \in Keys : k \in keys => nodes[k[1]] # Nil,
           cache' = Filled(keys), UNCHANGED <<shardIds, nodes, synced, checker, answer, loaded>>
    PROVE  IndInv'
<1>1. InRound' = InRound /\ Todo' = Todo
  BY DEF InRound, Todo
<1>2. TypeOK'
  BY <1>1, QuietStep DEF IndInv, TypeOK
<1>3. Pending'
  BY <1>1, QuietStep DEF IndInv, Pending
<1>4. Round' /\ Loads'
  BY <1>1, QuietStep DEF IndInv, Round, Loads, OneLoad
<1>5. Holders'
  BY DEF IndInv, Holders, Crashed
<1> QED
  BY <1>2, <1>3, <1>4, <1>5, QuietStep DEF IndInv

LEMMA LookupInv ==
    ASSUME IndInv, NEW av \in Availability, NEW s \in Shards, Lookup(av, s)
    PROVE  IndInv'
  BY TouchedFacts, ReadStep DEF Lookup

LEMMA LookupAllInv ==
    ASSUME IndInv, NEW av \in Availability, LookupAll(av)
    PROVE  IndInv'
<1> DEFINE reached == {s \in shardIds : \A r \in shardIds : r < s => Served(av, r) # <<>>}
           keys == UNION {Touched(av, s) : s \in reached}
<1>1. cache' = Filled(keys) /\ UNCHANGED <<shardIds, nodes, synced, checker, answer, loaded>>
  BY DEF LookupAll
<1> HIDE DEF reached
<1>2. \A k \in keys : nodes[k[1]] # Nil
  BY TouchedFacts
<1> HIDE DEF keys
<1> QED
  BY <1>1, <1>2, ReadStep

\* A configuration's shards are shards.
LEMMA ShardsOf ==
    ASSUME NEW c \in Configs
    PROVE  ConfigShards(c) \subseteq Shards
<1>1. c \in Seq(Nodes)
  BY ProviderConfig
<1>2. \A i \in DOMAIN c : c[i] \in Nodes
  BY <1>1, LenProperties, ElementOfSeq
<1> QED
  BY <1>2, ProviderConfig DEF ConfigShards

LEMMA ReloadInv ==
    ASSUME IndInv, NEW c \in Configs, Reload(c)
    PROVE  IndInv'
<1> DEFINE new == [h \in Availability |-> InitialNodes(c, h, Fresh)]
<1>1. /\ shardIds' = ConfigShards(c) /\ nodes' = new
      /\ cache' = [k \in Keys |-> NotCached]
      /\ synced' = HeldBy(new) \cup (synced \cap InRound)
      /\ answer' = "Reloaded configuration" /\ loaded' = c /\ checker' = checker
      /\ ~Crashed
  BY DEF Reload, ReloadAllowed
<1>2. Fresh \in Gens /\ \A o \in Held \cup InRound : o.gen # Fresh
  BY FreshLoad DEF IndInv
<1>3. \A h \in Availability :
         /\ new[h] = InitialNodes(c, h, Fresh)
         /\ new[h] \in [Shards -> Seq(Objects)] /\ new[h] # Nil
         /\ \A s \in Shards :
               /\ Distinct(new[h][s])
               /\ \A o \in Elems(new[h][s]) :
                     IsNodeValid(o.node, h) /\ o.node.shard = s /\ o.gen = Fresh
  BY <1>2, LoadFacts, ProviderConfig
<1>4. new \in [Availability -> [Shards -> Seq(Objects)] \cup {Nil}]
  BY <1>3
<1> HIDE DEF new
<1>5. \A h \in Availability, t \in CacheTypes, s \in Shards : cache'[<<h, t, s>>] = NotCached
  BY <1>1 DEF Keys
<1>6. InRound' = InRound /\ Todo' = Todo
  BY <1>1 DEF InRound, Todo
<1>7. ASSUME NEW o \in Held'
      PROVE  o.gen = Fresh
  <2>1. PICK h \in Availability, s \in Shards : o \in Elems(nodes'[h][s])
    BY HeldFactsNext
  <2> QED
    BY <1>1, <1>3, <2>1
<1>8. Held' = HeldBy(new)
  BY <1>1 DEF Held
<1>9. TypeOK'
  <2>1. shardIds' \subseteq Shards
    BY <1>1, ShardsOf
  <2>2. cache' \in [Keys -> Seq(Objects) \cup {NotCached}] /\ \A k \in Keys : cache'[k] = NotCached
    BY <1>1
  <2>3. synced' \subseteq Held' \cup InRound'
    BY <1>1, <1>6, <1>8
  <2> QED
    BY <1>1, <1>4, <1>6, <2>1, <2>2, <2>3 DEF IndInv, TypeOK
<1>10. HeldOnce'
  BY <1>1, <1>3, LenProperties DEF HeldOnce, Elems
<1>11. Cached' /\ Lists'
  BY <1>5 DEF Cached, Lists, Fits
<1>12. Pending'
  <2>1. \A o \in Todo : o.gen # Fresh
    BY <1>2 DEF InRound
  <2>2. \A h \in Availability, s \in Shards : Elems(nodes'[h][s]) \cap Todo' = {}
    <3>1. ASSUME NEW h \in Availability, NEW s \in Shards, NEW o \in Elems(nodes'[h][s])
          PROVE  o.gen = Fresh
      <4>1. o \in Elems(new[h][s])
        BY <1>1
      <4> QED
        BY <1>3, <4>1
    <3> QED
      BY <1>6, <2>1, <3>1
  <2> QED
    BY <2>2 DEF Pending
<1>13. Round' /\ Loads'
  BY <1>1, <1>6, <1>7 DEF IndInv, Round, Loads, OneLoad
<1>14. Holders'
  BY <1>1, <1>3 DEF Holders, Availability, Crashed
<1> QED
  BY <1>9, <1>10, <1>11, <1>12, <1>13, <1>14 DEF IndInv

\* A holder that keeps its nodes, their flags and its lists stays in order.
LEMMA KeptHolder ==
    ASSUME IndInv, NEW h \in Availability, NEW s \in Shards, nodes[h] # Nil,
           nodes'[h] = nodes[h],
           \A t \in CacheTypes : cache'[<<h, t, s>>] = cache[<<h, t, s>>],
           \A o \in Elems(nodes[h][s]) : o \in synced' <=> o \in synced
    PROVE  /\ Fits(h, s)' \/ (AllCached(h, s)' /\ OneOf(h, s)')
           /\ AllCached(h, s) => AllCached(h, s)'
<1>1. AllCached(h, s) => AllCached(h, s)'
  BY DEF AllCached
<1>2. OneOf(h, s) => OneOf(h, s)'
  BY DEF OneOf
<1>3. ASSUME Fits(h, s)
      PROVE  Fits(h, s)'
  <2>1. \A o \in Elems(nodes[h][s]) : getCacheType(o)' = getCacheType(o)
    BY DEF getCacheType
  <2>2. \A t \in CacheTypes : Flagged(h, t, s)' = Flagged(h, t, s)
    BY <2>1 DEF Flagged
  <2> QED
    BY <1>3, <2>2 DEF Fits
<1> QED
  BY <1>1, <1>2, <1>3 DEF IndInv, Lists

LEMMA ReloadFailsInv ==
    ASSUME IndInv, NEW c \in Configs, ReloadFails(c)
    PROVE  IndInv'
<1>1. /\ shardIds' = ConfigShards(c)
      /\ nodes' = [nodes EXCEPT !["all"] = Nil]
      /\ cache' = [k \in Keys |-> IF k[1] = "all" THEN NotCached ELSE cache[k]]
      /\ synced' = synced \cap (HeldBy(nodes') \cup InRound)
      /\ answer' = "not reloaded" /\ checker' = checker /\ loaded' = loaded
  BY DEF ReloadFails
<1>2. /\ nodes'["all"] = Nil /\ nodes'["recent"] = nodes["recent"]
      /\ nodes' \in [Availability -> [Shards -> Seq(Objects)] \cup {Nil}]
  BY <1>1 DEF IndInv, TypeOK, Availability
<1>3. \A h \in Availability, t \in CacheTypes, s \in Shards :
         cache'[<<h, t, s>>] = IF h = "all" THEN NotCached ELSE cache[<<h, t, s>>]
  BY <1>1 DEF Keys
<1>4. \A h \in Availability : nodes'[h] # Nil => h # "all" /\ nodes'[h] = nodes[h]
  BY <1>2 DEF Availability
<1>5. Held' = HeldBy(nodes') /\ Held' \subseteq Held
  BY <1>4, HeldFacts, HeldFactsNext DEF Held
<1>6. InRound' = InRound /\ Todo' = Todo
  BY <1>1 DEF InRound, Todo
<1>7. Cached'
  BY <1>2, <1>3 DEF IndInv, Cached, Availability
<1>8. TypeOK'
  <2>1. shardIds' \subseteq Shards
    BY <1>1, ShardsOf
  <2>2. cache' \in [Keys -> Seq(Objects) \cup {NotCached}]
    BY <1>1 DEF IndInv, TypeOK
  <2>3. \A k \in Keys : cache'[k] # NotCached => Elems(cache'[k]) \subseteq Held'
    <3>1. SUFFICES ASSUME NEW h \in Availability, NEW t \in CacheTypes, NEW s \in Shards,
                          cache'[<<h, t, s>>] # NotCached,
                          NEW o \in Elems(cache'[<<h, t, s>>])
                   PROVE  o \in Held'
      BY DEF Keys
    <3>2. nodes'[h] # Nil /\ o \in Elems(nodes'[h][s])
      BY <1>7, <3>1 DEF Cached
    <3> QED
      BY <3>2, HeldFactsNext
  <2>4. synced' \subseteq Held' \cup InRound'
    BY <1>1, <1>5, <1>6
  <2> QED
    BY <1>1, <1>2, <1>6, <2>1, <2>2, <2>3, <2>4 DEF IndInv, TypeOK
<1>9. HeldOnce'
  BY <1>4 DEF IndInv, HeldOnce
<1>10. ASSUME NEW h \in Availability, NEW s \in Shards, nodes'[h] # Nil
       PROVE  /\ Fits(h, s)' \/ (AllCached(h, s)' /\ OneOf(h, s)')
              /\ AllCached(h, s) => AllCached(h, s)'
  <2>1. /\ nodes[h] # Nil /\ nodes'[h] = nodes[h]
        /\ \A t \in CacheTypes : cache'[<<h, t, s>>] = cache[<<h, t, s>>]
    BY <1>3, <1>4, <1>10
  <2>2. \A o \in Elems(nodes[h][s]) : o \in Held'
    BY <1>10, <2>1, HeldFactsNext
  <2>3. \A o \in Elems(nodes[h][s]) : o \in synced' <=> o \in synced
    BY <1>1, <1>5, <2>2
  <2> QED
    BY <2>1, <2>3, KeptHolder
<1>11. Lists' /\ Pending'
  <2>1. Lists'
    BY <1>10 DEF Lists
  <2>2. Pending'
    BY <1>4, <1>6, <1>10 DEF IndInv, Pending
  <2> QED
    BY <2>1, <2>2
<1>12. Round' /\ Loads'
  <2>1. Round'
    BY <1>1 DEF IndInv, Round
  <2>2. Loads'
    BY <1>5, <1>6 DEF IndInv, Loads, OneLoad
  <2> QED
    BY <2>1, <2>2
<1>13. Holders'
  BY <1>1, <1>2 DEF IndInv, Holders
<1> QED
  BY <1>7, <1>8, <1>9, <1>11, <1>12, <1>13 DEF IndInv

LEMMA ReloadUnreadableInv ==
    ASSUME IndInv, ReloadUnreadable
    PROVE  IndInv'
<1> USE DEF ReloadUnreadable
<1>1. Held' = Held /\ InRound' = InRound /\ Todo' = Todo
  BY DEF Held, InRound, Todo
<1>2. TypeOK'
  BY <1>1 DEF IndInv, TypeOK
<1>3. HeldOnce' /\ Cached' /\ Round' /\ Loads'
  <2>1. HeldOnce' /\ Cached'
    BY DEF IndInv, HeldOnce, Cached
  <2>2. Round'
    BY DEF IndInv, Round
  <2>3. Loads'
    BY <1>1 DEF IndInv, Loads, OneLoad
  <2> QED
    BY <2>1, <2>2, <2>3
<1>4. Lists' /\ Pending'
  <2>1. Lists'
    BY KeptHolder DEF Lists
  <2>2. Pending'
    BY <1>1 DEF IndInv, Pending, AllCached
  <2> QED
    BY <2>1, <2>2
<1>5. Holders'
  BY DEF IndInv, Holders
<1> QED
  BY <1>2, <1>3, <1>4, <1>5 DEF IndInv

\* Four lists that share nothing make one.
LEMMA FourLists ==
    ASSUME NEW T, NEW a \in Seq(T), NEW b \in Seq(T), NEW c \in Seq(T), NEW d \in Seq(T)
    PROVE  /\ a \o b \o c \o d \in Seq(T)
           /\ Elems(a \o b \o c \o d) = Elems(a) \cup Elems(b) \cup Elems(c) \cup Elems(d)
           /\ /\ Distinct(a) /\ Distinct(b) /\ Distinct(c) /\ Distinct(d)
              /\ Elems(a) \cap Elems(b) = {} /\ Elems(a) \cap Elems(c) = {}
              /\ Elems(a) \cap Elems(d) = {} /\ Elems(b) \cap Elems(c) = {}
              /\ Elems(b) \cap Elems(d) = {} /\ Elems(c) \cap Elems(d) = {}
              => Distinct(a \o b \o c \o d)
<1> DEFINE ab == a \o b
           abc == ab \o c
<1>1. /\ ab \in Seq(T) /\ Elems(ab) = Elems(a) \cup Elems(b)
      /\ Distinct(a) /\ Distinct(b) /\ Elems(a) \cap Elems(b) = {} => Distinct(ab)
  BY ConcatFacts
<1> HIDE DEF ab
<1>2. /\ abc \in Seq(T) /\ Elems(abc) = Elems(ab) \cup Elems(c)
      /\ Distinct(ab) /\ Distinct(c) /\ Elems(ab) \cap Elems(c) = {} => Distinct(abc)
  BY <1>1, ConcatFacts
<1> HIDE DEF abc
<1>3. /\ abc \o d \in Seq(T) /\ Elems(abc \o d) = Elems(abc) \cup Elems(d)
      /\ Distinct(abc) /\ Distinct(d) /\ Elems(abc) \cap Elems(d) = {} => Distinct(abc \o d)
  BY <1>2, ConcatFacts
<1>4. abc \o d = a \o b \o c \o d
  BY DEF abc, ab
<1>5. ASSUME Distinct(a), Distinct(b), Distinct(c), Distinct(d),
             Elems(a) \cap Elems(b) = {}, Elems(a) \cap Elems(c) = {},
             Elems(a) \cap Elems(d) = {}, Elems(b) \cap Elems(c) = {},
             Elems(b) \cap Elems(d) = {}, Elems(c) \cap Elems(d) = {}
      PROVE  Distinct(abc \o d)
  <2>1. Distinct(abc)
    BY <1>1, <1>2, <1>5
  <2>2. Elems(abc) \cap Elems(d) = {}
    BY <1>1, <1>2, <1>5
  <2> QED
    BY <2>1, <2>2, <1>3, <1>5
<1> QED
  BY <1>1, <1>2, <1>3, <1>4, <1>5

\* The lists of a shard hold its nodes of both kinds, each once.
LEMMA RoundListFacts ==
    ASSUME IndInv, NEW s \in Shards, nodes["all"] # Nil
    PROVE  /\ RoundList(s) \in Seq(Objects)
           /\ Distinct(RoundList(s))
           /\ Elems(RoundList(s)) = Elems(nodes["all"][s]) \cup Elems(nodes["recent"][s])
<1> DEFINE l(h, t) == getObservers(h, t, s)
           of(h) == l(h, "synced") \o l(h, "outOfSync") \o l(h, "syncedFallback")
                    \o l(h, "outOfSyncFallback")
<1>0. /\ TypeOK /\ HeldOnce /\ Cached /\ Lists
      /\ \A h \in Availability : nodes[h] # Nil
  BY DEF IndInv, Holders, Availability
<1>1. ASSUME NEW h \in Availability
      PROVE  /\ of(h) \in Seq(Objects) /\ Distinct(of(h))
             /\ Elems(of(h)) = Elems(nodes[h][s])
  <2>1. \A t \in CacheTypes : /\ l(h, t) \in Seq(Objects) /\ Distinct(l(h, t))
                              /\ Elems(l(h, t)) \subseteq Elems(nodes[h][s])
    BY <1>0, ObserversFacts
  <2>2. \A o \in Elems(nodes[h][s]) :
           \E t \in CacheTypes : /\ o \in Elems(l(h, t))
                                 /\ \A u \in CacheTypes \ {t} : o \notin Elems(l(h, u))
    BY <1>0, ListsApart
  <2> HIDE DEF l
  <2>3. ASSUME NEW t \in CacheTypes, NEW u \in CacheTypes, t # u
        PROVE  Elems(l(h, t)) \cap Elems(l(h, u)) = {}
    BY <2>1, <2>2, <2>3
  <2>4. /\ "synced" \in CacheTypes /\ "outOfSync" \in CacheTypes
        /\ "syncedFallback" \in CacheTypes /\ "outOfSyncFallback" \in CacheTypes
    BY DEF CacheTypes
  <2>5. /\ of(h) \in Seq(Objects)
        /\ Elems(of(h)) = Elems(l(h, "synced")) \cup Elems(l(h, "outOfSync"))
                          \cup Elems(l(h, "syncedFallback")) \cup Elems(l(h, "outOfSyncFallback"))
    BY <2>1, <2>4, FourLists
  <2>6. Distinct(of(h))
    <3>1. /\ Elems(l(h, "synced")) \cap Elems(l(h, "outOfSync")) = {}
          /\ Elems(l(h, "synced")) \cap Elems(l(h, "syncedFallback")) = {}
          /\ Elems(l(h, "synced")) \cap Elems(l(h, "outOfSyncFallback")) = {}
          /\ Elems(l(h, "outOfSync")) \cap Elems(l(h, "syncedFallback")) = {}
          /\ Elems(l(h, "outOfSync")) \cap Elems(l(h, "outOfSyncFallback")) = {}
          /\ Elems(l(h, "syncedFallback")) \cap Elems(l(h, "outOfSyncFallback")) = {}
      BY <2>3, <2>4
    <3> QED
      BY <3>1, <2>1, <2>4, FourLists
  <2>7. Elems(of(h)) = Elems(nodes[h][s])
    <3>1. Elems(of(h)) \subseteq Elems(nodes[h][s])
      BY <2>1, <2>4, <2>5
    <3>2. ASSUME NEW o \in Elems(nodes[h][s])
          PROVE  o \in Elems(of(h))
      <4>1. PICK t \in CacheTypes : o \in Elems(l(h, t))
        BY <2>2
      <4> QED
        BY <2>5, <4>1 DEF CacheTypes
    <3> QED
      BY <3>1, <3>2
  <2> QED
    BY <2>5, <2>6, <2>7
<1>2. RoundList(s) = of("all") \o of("recent")
  BY DEF RoundList
<1> HIDE DEF of
<1>3. "all" \in Availability /\ "recent" \in Availability
  BY DEF Availability
<1>4. Elems(nodes["all"][s]) \cap Elems(nodes["recent"][s]) = {}
  <2>1. /\ \A o \in Elems(nodes["all"][s]) : IsNodeValid(o.node, "all")
        /\ \A o \in Elems(nodes["recent"][s]) : IsNodeValid(o.node, "recent")
    BY <1>0, <1>3 DEF HeldOnce, Elems
  <2> QED
    BY <2>1 DEF IsNodeValid
<1> QED
  BY <1>1, <1>2, <1>3, <1>4, ConcatFacts

LEMMA StartRoundInv ==
    ASSUME IndInv, StartRound
    PROVE  IndInv'
<1>0. /\ checker.pc = "idle"
      /\ UNCHANGED <<shardIds, nodes, synced, answer, loaded>>
  BY DEF StartRound
<1>1. CASE nodes["all"] = Nil /\ shardIds # {} /\ checker' = Dead /\ cache' = cache
  <2>1. Held' = Held
    BY <1>0 DEF Held
  <2>2. /\ checker'.pc = "crashed" /\ checker'.done = <<>> /\ checker'.shards = {}
        /\ checker'.todo = [s \in Shards |-> <<>>]
    BY <1>1 DEF Dead, Idle
  <2>3. InRound' = {} /\ Todo' = {}
    BY <2>2, EmptyFacts DEF InRound, Todo
  <2>4. InRound = {}
    BY <1>0 DEF IndInv, TypeOK
  <2>5. checker' \in [pc : {"idle", "ask", "map", "crashed"},
                      todo : [Shards -> Seq(Objects)], done : Seq(Objects), shards : SUBSET Shards]
    <3>1. <<>> \in Seq(Objects)
      BY EmptyFacts
    <3> QED
      BY <1>1, <3>1 DEF Dead, Idle
  <2>6. TypeOK'
    BY <1>0, <1>1, <2>1, <2>2, <2>3, <2>4, <2>5 DEF IndInv, TypeOK
  <2>7. HeldOnce' /\ Cached'
    BY <1>0, <1>1 DEF IndInv, HeldOnce, Cached
  <2>8. Lists'
    BY <1>0, <1>1, KeptHolder DEF Lists
  <2>9. Pending' /\ Round'
    BY <2>2, <2>3, EmptyFacts DEF Pending, Round
  <2>10. Loads'
    BY <2>1, <2>3 DEF IndInv, Loads, OneLoad
  <2>11. Holders'
    BY <1>0, <1>1 DEF IndInv, Holders
  <2> QED
    BY <2>6, <2>7, <2>8, <2>9, <2>10, <2>11 DEF IndInv
<1>2. CASE /\ ~(nodes["all"] = Nil /\ shardIds # {})
           /\ cache' = Filled({k \in Keys : k[3] \in shardIds})
           /\ checker' = [Idle EXCEPT !.pc = "ask", !.todo = GetAllNodesWithSyncState]
  <2> DEFINE keys == {k \in Keys : k[3] \in shardIds}
  <2>1. \A k \in Keys : k \in keys => nodes[k[1]] # Nil
    BY <1>2 DEF IndInv, Holders, Keys, Availability
  <2>2. cache' = Filled(keys)
    BY <1>2
  <2>3. \A h \in Availability, t \in CacheTypes, s \in Shards : s \in shardIds => <<h, t, s>> \in keys
    BY DEF Keys
  <2> HIDE DEF keys
  <2>4. /\ checker'.pc = "ask" /\ checker'.done = <<>> /\ checker'.shards = {}
        /\ checker'.todo = GetAllNodesWithSyncState
        /\ checker' = [pc |-> "ask", todo |-> GetAllNodesWithSyncState, done |-> <<>>, shards |-> {}]
    BY <1>2 DEF Idle
  <2>5. ASSUME NEW s \in Shards
        PROVE  /\ checker'.todo[s] \in Seq(Objects) /\ Distinct(checker'.todo[s])
               /\ s \in shardIds =>
                     /\ nodes["all"] # Nil
                     /\ Elems(checker'.todo[s]) = Elems(nodes["all"][s]) \cup Elems(nodes["recent"][s])
               /\ s \notin shardIds => Elems(checker'.todo[s]) = {}
    <3>1. CASE s \in shardIds
      <4>1. nodes["all"] # Nil
        BY <1>2, <3>1
      <4>2. checker'.todo[s] = RoundList(s)
        BY <2>4, <3>1 DEF GetAllNodesWithSyncState
      <4> QED
        BY <3>1, <4>1, <4>2, RoundListFacts
    <3>2. CASE s \notin shardIds
      <4>1. checker'.todo[s] = <<>>
        BY <2>4, <3>2 DEF GetAllNodesWithSyncState
      <4> QED
        BY <3>2, <4>1, EmptyFacts
    <3> QED
      BY <3>1, <3>2
  <2>6. GetAllNodesWithSyncState \in [Shards -> Seq(Objects)]
    <3>1. DOMAIN GetAllNodesWithSyncState = Shards
      BY DEF GetAllNodesWithSyncState
    <3>2. \A s \in Shards : GetAllNodesWithSyncState[s] \in Seq(Objects)
      BY <2>4, <2>5
    <3>3. GetAllNodesWithSyncState = [s \in Shards |-> GetAllNodesWithSyncState[s]]
      BY DEF GetAllNodesWithSyncState
    <3> QED
      BY <3>2, <3>3
  <2>7. checker' \in [pc : {"idle", "ask", "map", "crashed"},
                      todo : [Shards -> Seq(Objects)], done : Seq(Objects), shards : SUBSET Shards]
    <3>1. <<>> \in Seq(Objects)
      BY EmptyFacts
    <3> QED
      BY <2>4, <2>6, <3>1
  <2>8. InRound = {}
    BY <1>0 DEF IndInv, TypeOK
  <2>9. /\ HeldOnce' /\ Cached' /\ Lists' /\ Held' = Held
        /\ nodes'["recent"] # Nil
        /\ shardIds' \subseteq Shards
        /\ nodes' \in [Availability -> [Shards -> Seq(Objects)] \cup {Nil}]
        /\ cache' \in [Keys -> Seq(Objects) \cup {NotCached}]
        /\ \A k \in Keys : cache'[k] # NotCached => Elems(cache'[k]) \subseteq Held'
        /\ answer' \in {"none", "Reloaded configuration", "not reloaded"}
        /\ loaded' \in Configs
    BY <1>0, <2>1, <2>2, QuietStep
  <2>10. TypeOK'
    BY <1>0, <2>4, <2>7, <2>8, <2>9 DEF IndInv, TypeOK
  <2>11. ASSUME NEW s \in Shards, NEW o \in Elems(checker'.todo[s])
         PROVE  s \in shardIds /\ o.node.shard = s /\ o \in Held
    <3>1. s \in shardIds
      BY <2>5, <2>11
    <3>2. PICK h \in Availability : o \in Elems(nodes[h][s]) /\ nodes[h] # Nil
      BY <2>5, <2>9, <2>11, <3>1, <1>0 DEF Availability
    <3>3. o.node.shard = s
      BY <3>2 DEF IndInv, HeldOnce, Elems
    <3> QED
      BY <3>1, <3>2, <3>3, HeldFacts
  <2>12. Pending'
    <3>1. SUFFICES ASSUME NEW h \in Availability, NEW s \in Shards, nodes'[h] # Nil,
                          NEW o \in Elems(nodes'[h][s]), o \in Todo'
                   PROVE  AllCached(h, s)'
      BY DEF Pending
    <3>2. PICK r \in Shards : o \in Elems(checker'.todo[r])
      BY <3>1 DEF Todo
    <3>3. o.node.shard = s
      BY <1>0, <3>1 DEF IndInv, HeldOnce, Elems
    <3>4. s \in shardIds
      BY <2>11, <3>2, <3>3
    <3> QED
      BY <1>0, <2>1, <2>2, <2>3, <3>4, FillStep
  <2>13. Round'
    BY <2>4, <2>5, <2>11, EmptyFacts DEF Round
  <2>14. Loads'
    <3>1. InRound' \subseteq Held
      BY <2>4, <2>11, RoundFactsNext, EmptyFacts
    <3> QED
      BY <2>9, <3>1 DEF IndInv, Loads, OneLoad
  <2>15. Holders'
    BY <1>0, <2>4 DEF IndInv, Holders, Crashed
  <2> QED
    BY <2>9, <2>10, <2>12, <2>13, <2>14, <2>15 DEF IndInv
<1> QED
  BY <1>1, <1>2 DEF StartRound

LEMMA ProbeInv ==
    ASSUME IndInv, NEW s \in Shards, NEW st \in Statuses, Probe(s, st)
    PROVE  IndInv'
<1> DEFINE q == checker.todo[s]
           o == Head(q)
<1>0. /\ checker.pc = "ask" /\ q # <<>>
      /\ synced' = IF IsNodeSynced(st) THEN synced \cup {o} ELSE synced \ {o}
      /\ checker' = [checker EXCEPT !.todo[s] = Tail(@), !.done = Append(@, o)]
      /\ UNCHANGED <<shardIds, nodes, cache, answer, loaded>>
  BY DEF Probe
<1>1. /\ checker.todo \in [Shards -> Seq(Objects)] /\ checker.done \in Seq(Objects)
      /\ checker \in [pc : {"idle", "ask", "map", "crashed"},
                      todo : [Shards -> Seq(Objects)], done : Seq(Objects), shards : SUBSET Shards]
      /\ q \in Seq(Objects)
  BY DEF IndInv, TypeOK
<1>2. /\ checker'.pc = checker.pc /\ checker'.shards = checker.shards
      /\ checker'.todo = [checker.todo EXCEPT ![s] = Tail(q)]
      /\ checker'.done = Append(checker.done, o)
  BY <1>0, <1>1
<1>3. /\ o \in Objects /\ Tail(q) \in Seq(Objects)
      /\ Elems(q) = {o} \cup Elems(Tail(q))
      /\ Distinct(Tail(q)) /\ o \notin Elems(Tail(q))
  BY <1>0, <1>1, TailFacts DEF IndInv, Round
<1>4. o \notin Elems(checker.done) /\ o.node.shard = s /\ o \in Todo /\ o \in InRound
  BY <1>3 DEF IndInv, Round, InRound, Todo
<1> HIDE DEF o
<1>5. /\ checker'.done \in Seq(Objects) /\ Elems(checker'.done) = Elems(checker.done) \cup {o}
      /\ Distinct(checker'.done)
  BY <1>1, <1>2, <1>3, <1>4, AppendFacts DEF IndInv, Round
<1>6. /\ checker'.todo \in [Shards -> Seq(Objects)]
      /\ \A r \in Shards : checker'.todo[r] = IF r = s THEN Tail(q) ELSE checker.todo[r]
  BY <1>1, <1>2, <1>3
<1>7. checker' \in [pc : {"idle", "ask", "map", "crashed"},
                    todo : [Shards -> Seq(Objects)], done : Seq(Objects), shards : SUBSET Shards]
  <2>1. checker' = [pc |-> checker.pc, todo |-> [checker.todo EXCEPT ![s] = Tail(q)],
                    done |-> Append(checker.done, o), shards |-> checker.shards]
    BY <1>0, <1>1
  <2> QED
    BY <2>1, <1>1, <1>2, <1>5, <1>6
<1>8. \A r \in Shards : Elems(checker'.todo[r]) \subseteq Elems(checker.todo[r])
  BY <1>3, <1>6
<1>9. InRound' = InRound /\ Todo' \subseteq Todo /\ Held' = Held
  <2>1. \A p : p \in InRound' => p \in InRound
    BY <1>4, <1>5, <1>8, RoundFacts, RoundFactsNext
  <2>2. \A p : p \in InRound => p \in InRound'
    <3>1. SUFFICES ASSUME NEW p \in InRound
                   PROVE  p \in InRound'
      OBVIOUS
    <3>2. CASE p \in Elems(checker.done)
      BY <3>2, <1>5, RoundFactsNext
    <3>3. ASSUME NEW r \in Shards, p \in Elems(checker.todo[r])
          PROVE  p \in InRound'
      <4>1. CASE r = s
        BY <3>3, <4>1, <1>3, <1>5, <1>6, RoundFactsNext
      <4>2. CASE r # s
        BY <3>3, <4>2, <1>6, RoundFactsNext
      <4> QED
        BY <4>1, <4>2
    <3> QED
      BY <3>1, <3>2, <3>3, RoundFacts
  <2>3. Todo' \subseteq Todo
    BY <1>8 DEF Todo
  <2>4. Held' = Held
    BY <1>0 DEF Held
  <2> QED
    BY <2>1, <2>2, <2>3, <2>4
<1>10. TypeOK'
  <2>1. synced' \subseteq Held' \cup InRound'
    BY <1>0, <1>4, <1>9 DEF IndInv, TypeOK
  <2> QED
    BY <1>0, <1>2, <1>7, <1>9, <2>1 DEF IndInv, TypeOK
<1>11. HeldOnce' /\ Cached'
  BY <1>0 DEF IndInv, HeldOnce, Cached
<1>12. Lists'
  <2>1. SUFFICES ASSUME NEW h \in Availability, NEW r \in Shards, nodes[h] # Nil
                 PROVE  Fits(h, r)' \/ (AllCached(h, r)' /\ OneOf(h, r)')
    BY <1>0 DEF Lists
  <2>2. CASE o \notin Elems(nodes[h][r])
    <3>1. \A p \in Elems(nodes[h][r]) : p \in synced' <=> p \in synced
      BY <1>0, <2>2
    <3> QED
      BY <1>0, <2>1, <3>1, KeptHolder
  <2>3. CASE o \in Elems(nodes[h][r])
    <3>1. AllCached(h, r)
      BY <1>4, <2>1, <2>3 DEF IndInv, Pending
    <3>2. OneOf(h, r)
      <4>1. \A t \in CacheTypes : getObservers(h, t, r) = cache[<<h, t, r>>]
        BY <3>1, ObserversFacts DEF IndInv, AllCached
      <4> QED
        BY <2>1, <4>1, ListsApart DEF IndInv, OneOf
    <3> QED
      BY <1>0, <3>1, <3>2 DEF AllCached, OneOf
  <2> QED
    BY <2>2, <2>3
<1>13. Pending'
  BY <1>0, <1>9 DEF IndInv, Pending, AllCached
<1>14. Round'
  <2>1. ASSUME NEW r \in Shards
        PROVE  /\ Distinct(checker'.todo[r])
               /\ Elems(checker'.todo[r]) \cap Elems(checker'.done) = {}
               /\ \A p \in Elems(checker'.todo[r]) : p.node.shard = r
    <3>1. /\ Distinct(checker.todo[r]) /\ Elems(checker.todo[r]) \cap Elems(checker.done) = {}
          /\ \A p \in Elems(checker.todo[r]) : p.node.shard = r
      BY DEF IndInv, Round
    <3>2. o \notin Elems(checker'.todo[r])
      BY <1>3, <1>4, <1>6, <3>1
    <3>3. Distinct(checker'.todo[r])
      BY <1>3, <1>6, <3>1
    <3> QED
      BY <1>5, <1>8, <3>1, <3>2, <3>3
  <2> QED
    BY <1>5, <2>1 DEF Round
<1>15. Loads'
  BY <1>9 DEF IndInv, Loads, OneLoad
<1>16. Holders'
  BY <1>0, <1>2 DEF IndInv, Holders, Crashed
<1> QED
  BY <1>10, <1>11, <1>12, <1>13, <1>14, <1>15, <1>16 DEF IndInv

\* What a holder gets at the end of a round.
LEMMA SplitFacts ==
    ASSUME IndInv, NEW h \in Availability
    PROVE  /\ Split(h) \in Seq(Objects)
           /\ ByShard(Split(h)) \in [Shards -> Seq(Objects)] /\ ByShard(Split(h)) # Nil
           /\ \A s \in Shards :
                 /\ Distinct(ByShard(Split(h))[s])
                 /\ \A o \in Elems(ByShard(Split(h))[s]) :
                       o \in InRound /\ IsNodeValid(o.node, h) /\ o.node.shard = s
<1> DEFINE V == {o \in Elems(checker.done) : IsNodeValid(o.node, h)}
           q == Split(h)
           W(s) == {o \in Elems(q) : o.node.shard = s}
<1>1. checker.done \in Seq(Objects) /\ Distinct(checker.done) /\ Elems(checker.done) \subseteq InRound
  BY TypeFacts DEF IndInv, Round
<1>2. q = Keep(checker.done, V)
  BY DEF Split
<1>3. \A o \in V : IsNodeValid(o.node, h) /\ o \in InRound
  BY <1>1
<1> HIDE DEF V, q
<1>4. q \in Seq(Objects) /\ Distinct(q) /\ Elems(q) = Elems(checker.done) \cap V
  BY <1>1, <1>2, KeepFacts
<1>5. \A s \in Shards : \A o \in W(s) : o.node.shard = s
  OBVIOUS
<1>6. ByShard(q) = [s \in Shards |-> Keep(q, W(s))]
  BY DEF ByShard
<1> HIDE DEF W
<1>7. \A s \in Shards : /\ Keep(q, W(s)) \in Seq(Objects) /\ Distinct(Keep(q, W(s)))
                        /\ Elems(Keep(q, W(s))) = Elems(q) \cap W(s)
  BY <1>4, KeepFacts
<1>8. ByShard(q) \in [Shards -> Seq(Objects)]
  BY <1>6, <1>7
<1>9. ByShard(q) # Nil
  BY <1>8, ProviderConfig
<1>10. \A s \in Shards :
          /\ Distinct(ByShard(q)[s])
          /\ \A o \in Elems(ByShard(q)[s]) : o \in InRound /\ IsNodeValid(o.node, h) /\ o.node.shard = s
  BY <1>3, <1>4, <1>5, <1>6, <1>7
<1> QED
  BY <1>4, <1>8, <1>9, <1>10 DEF q

\* Outside of a round nobody is being asked.
LEMMA NoRound ==
    ASSUME NEW x \in {"idle", "map", "crashed"}, NEW S \in SUBSET Shards,
           checker' = [pc |-> x, todo |-> [s \in Shards |-> <<>>], done |-> <<>>, shards |-> S]
    PROVE  /\ checker'.pc = x /\ checker'.shards = S
           /\ checker' \in [pc : {"idle", "ask", "map", "crashed"},
                            todo : [Shards -> Seq(Objects)], done : Seq(Objects), shards : SUBSET Shards]
           /\ InRound' = {} /\ Todo' = {} /\ Round'
<1>1. /\ checker'.pc = x /\ checker'.done = <<>> /\ checker'.shards = S
      /\ checker'.todo = [s \in Shards |-> <<>>]
  OBVIOUS
<1>2. checker' \in [pc : {"idle", "ask", "map", "crashed"},
                    todo : [Shards -> Seq(Objects)], done : Seq(Objects), shards : SUBSET Shards]
  <2>1. <<>> \in Seq(Objects)
    BY EmptyFacts
  <2> QED
    BY <2>1
<1>3. InRound' = {} /\ Todo' = {}
  BY <1>1, EmptyFacts DEF InRound, Todo
<1>4. Round'
  BY <1>1, EmptyFacts DEF Round
<1> QED
  BY <1>1, <1>2, <1>3, <1>4

LEMMA FinishRoundInv ==
    ASSUME IndInv, FinishRound
    PROVE  IndInv'
<1>0. /\ checker.pc = "ask"
      /\ synced' = synced \cap HeldBy(nodes')
      /\ UNCHANGED <<shardIds, answer, loaded>>
  BY DEF FinishRound
<1>1. Held' = HeldBy(nodes')
  BY DEF Held
<1>2. synced' \subseteq Held' /\ \A o \in Held' : o \in synced' <=> o \in synced
  BY <1>0, <1>1
<1>3. CASE nodes["all"] = Nil /\ checker' = Dead /\ UNCHANGED <<nodes, cache>>
  <2>1. /\ checker'.pc = "crashed"
        /\ checker' \in [pc : {"idle", "ask", "map", "crashed"},
                         todo : [Shards -> Seq(Objects)], done : Seq(Objects), shards : SUBSET Shards]
        /\ InRound' = {} /\ Todo' = {} /\ Round'
    <3>1. Dead = [pc |-> "crashed", todo |-> [s \in Shards |-> <<>>], done |-> <<>>, shards |-> {}]
      BY DEF Dead, Idle
    <3>2. {} \in SUBSET Shards
      OBVIOUS
    <3> QED
      BY <1>3, <3>1, <3>2, NoRound
  <2>2. Held' = Held
    BY <1>3 DEF Held
  <2>3. TypeOK'
    BY <1>0, <1>2, <1>3, <2>1, <2>2 DEF IndInv, TypeOK
  <2>4. HeldOnce' /\ Cached'
    BY <1>3 DEF IndInv, HeldOnce, Cached
  <2>5. Lists'
    <3>1. SUFFICES ASSUME NEW h \in Availability, NEW s \in Shards, nodes[h] # Nil
                   PROVE  Fits(h, s)' \/ (AllCached(h, s)' /\ OneOf(h, s)')
      BY <1>3 DEF Lists
    <3>2. \A o \in Elems(nodes[h][s]) : o \in synced' <=> o \in synced
      BY <1>2, <2>2, <3>1, HeldFacts
    <3> QED
      BY <1>3, <3>1, <3>2, KeptHolder
  <2>6. Pending' /\ Loads'
    BY <2>1, <2>2 DEF IndInv, Pending, Loads, OneLoad
  <2>7. Holders'
    BY <1>0, <1>3 DEF IndInv, Holders
  <2> QED
    BY <2>1, <2>3, <2>4, <2>5, <2>6, <2>7 DEF IndInv
<1>4. CASE /\ ~(nodes["all"] = Nil /\ Split("all") # <<>>)
           /\ UpdateNodes
           /\ checker' = [Idle EXCEPT !.pc = "map",
                                      !.shards = {s \in Shards : s < NumShards \/ s = Meta}]
  <2> DEFINE S == {s \in Shards : s < NumShards \/ s = Meta}
  <2>1. /\ checker'.pc = "map" /\ checker'.shards = S
        /\ checker' \in [pc : {"idle", "ask", "map", "crashed"},
                         todo : [Shards -> Seq(Objects)], done : Seq(Objects), shards : SUBSET Shards]
        /\ InRound' = {} /\ Todo' = {} /\ Round'
    <3>1. checker' = [pc |-> "map", todo |-> [s \in Shards |-> <<>>], done |-> <<>>, shards |-> S]
      BY <1>4 DEF Idle
    <3>2. S \in SUBSET Shards
      OBVIOUS
    <3> HIDE DEF S
    <3> QED
      BY <3>1, <3>2, NoRound
  <2>2. S # {}
    <3>1. Meta \in S
      BY ProviderConfig DEF Shards
    <3> QED
      BY <3>1
  <2> HIDE DEF S
  <2>3. /\ DOMAIN nodes' = Availability
        /\ \A h \in Availability : nodes'[h] = IF Split(h) = <<>> THEN nodes[h] ELSE ByShard(Split(h))
        /\ nodes' = [h \in Availability |-> nodes'[h]]
    BY <1>4 DEF UpdateNodes
  <2>4. \A h \in Availability, t \in CacheTypes, s \in Shards :
           cache'[<<h, t, s>>] = IF Split(h) = <<>> THEN cache[<<h, t, s>>] ELSE NotCached
    BY <1>4 DEF UpdateNodes, Keys
  <2>5. nodes' \in [Availability -> [Shards -> Seq(Objects)] \cup {Nil}]
    <3>1. \A h \in Availability : nodes'[h] \in [Shards -> Seq(Objects)] \cup {Nil}
      BY <2>3, SplitFacts DEF IndInv, TypeOK
    <3> QED
      BY <2>3, <3>1
  <2>6. cache' \in [Keys -> Seq(Objects) \cup {NotCached}]
    BY <1>4 DEF UpdateNodes, IndInv, TypeOK
  <2>7. Cached'
    <3>1. SUFFICES ASSUME NEW h \in Availability, NEW t \in CacheTypes, NEW s \in Shards,
                          cache'[<<h, t, s>>] # NotCached
                   PROVE  /\ nodes'[h] # Nil
                          /\ Elems(cache'[<<h, t, s>>]) \subseteq Elems(nodes'[h][s])
                          /\ Distinct(cache'[<<h, t, s>>])
      BY DEF Cached
    <3>2. Split(h) = <<>> /\ nodes'[h] = nodes[h] /\ cache'[<<h, t, s>>] = cache[<<h, t, s>>]
      BY <2>3, <2>4, <3>1
    <3> QED
      BY <3>1, <3>2 DEF IndInv, Cached
  <2>8. TypeOK'
    <3>1. \A k \in Keys : cache'[k] # NotCached => Elems(cache'[k]) \subseteq Held'
      <4>1. SUFFICES ASSUME NEW h \in Availability, NEW t \in CacheTypes, NEW s \in Shards,
                            cache'[<<h, t, s>>] # NotCached,
                            NEW o \in Elems(cache'[<<h, t, s>>])
                     PROVE  o \in Held'
        BY DEF Keys
      <4>2. nodes'[h] # Nil /\ o \in Elems(nodes'[h][s])
        BY <2>7, <4>1 DEF Cached
      <4> QED
        BY <4>2, HeldFactsNext
    <3> QED
      BY <1>0, <1>2, <2>1, <2>2, <2>5, <2>6, <3>1 DEF IndInv, TypeOK
  <2>9. HeldOnce'
    <3>1. SUFFICES ASSUME NEW h \in Availability, NEW s \in Shards, nodes'[h] # Nil
                   PROVE  /\ \A i \in DOMAIN nodes'[h][s] :
                                /\ IsNodeValid(nodes'[h][s][i].node, h)
                                /\ nodes'[h][s][i].node.shard = s
                          /\ Distinct(nodes'[h][s])
      BY DEF HeldOnce
    <3>2. CASE Split(h) = <<>>
      BY <2>3, <3>1, <3>2 DEF IndInv, HeldOnce
    <3>3. CASE Split(h) # <<>>
      BY <2>3, <3>3, SplitFacts DEF Elems
    <3> QED
      BY <3>2, <3>3
  <2>10. Lists'
    <3>1. SUFFICES ASSUME NEW h \in Availability, NEW s \in Shards, nodes'[h] # Nil
                   PROVE  Fits(h, s)' \/ (AllCached(h, s)' /\ OneOf(h, s)')
      BY DEF Lists
    <3>2. CASE Split(h) # <<>>
      BY <2>4, <3>2 DEF Fits
    <3>3. CASE Split(h) = <<>>
      <4>1. nodes'[h] = nodes[h]
        BY <2>3, <3>3
      <4>2. \A o \in Elems(nodes[h][s]) : o \in synced' <=> o \in synced
        BY <1>2, <3>1, <4>1, HeldFactsNext
      <4> QED
        BY <2>4, <3>1, <3>3, <4>1, <4>2, KeptHolder
    <3> QED
      BY <3>2, <3>3
  <2>11. Pending'
    BY <2>1 DEF Pending
  <2>12. OneLoad(Held)'
    <3>1. SUFFICES ASSUME NEW o \in Held', NEW p \in Held',
                          o.node.snapshotless = p.node.snapshotless
                   PROVE  o.gen = p.gen
      BY DEF OneLoad
    <3>2. PICK h \in Availability, s \in Shards : nodes'[h] # Nil /\ o \in Elems(nodes'[h][s])
      BY HeldFactsNext
    <3>3. PICK k \in Availability, r \in Shards : nodes'[k] # Nil /\ p \in Elems(nodes'[k][r])
      BY HeldFactsNext
    <3>4. IsNodeValid(o.node, h) /\ IsNodeValid(p.node, k)
      BY <2>9, <3>2, <3>3 DEF HeldOnce, Elems
    <3>5. h = k
      BY <3>1, <3>4 DEF IsNodeValid, Availability
    <3>6. CASE Split(h) = <<>>
      <4>1. o \in Held /\ p \in Held
        BY <2>3, <3>2, <3>3, <3>5, <3>6, HeldFacts
      <4> QED
        BY <3>1, <4>1 DEF IndInv, Loads, OneLoad
    <3>7. CASE Split(h) # <<>>
      <4>1. nodes'[h] = ByShard(Split(h))
        BY <2>3, <3>7
      <4>2. o \in InRound /\ p \in InRound
        BY <3>2, <3>3, <3>5, <4>1, SplitFacts
      <4> QED
        BY <3>1, <4>2 DEF IndInv, Loads, OneLoad
    <3> QED
      BY <3>6, <3>7
  <2>13. Loads'
    BY <2>1, <2>12 DEF Loads, OneLoad
  <2>14. Holders'
    <3>1. \A h \in Availability : nodes[h] # Nil => nodes'[h] # Nil
      BY <2>3, SplitFacts
    <3> QED
      BY <1>0, <2>1, <3>1 DEF IndInv, Holders, Availability, Crashed
  <2> QED
    BY <2>1, <2>7, <2>8, <2>9, <2>10, <2>11, <2>13, <2>14 DEF IndInv
<1> QED
  BY <1>3, <1>4 DEF FinishRound

LEMMA RefreshMappingInv ==
    ASSUME IndInv, RefreshMapping
    PROVE  IndInv'
<1> DEFINE s == CHOOSE s \in checker.shards : \A r \in checker.shards : s <= r
           left == checker.shards \ {s}
<1>0. /\ checker.pc = "map"
      /\ cache' = Filled(Touched("all", s))
      /\ checker' = IF Panics("all", s) THEN Dead
                    ELSE IF left = {} THEN Idle ELSE [checker EXCEPT !.shards = left]
      /\ UNCHANGED <<shardIds, nodes, synced, answer, loaded>>
  BY DEF RefreshMapping
<1>1. \A k \in Keys : k \in Touched("all", s) => nodes[k[1]] # Nil
  BY TouchedFacts
<1> HIDE DEF s
<1>2. /\ HeldOnce' /\ Cached' /\ Lists' /\ Held' = Held /\ OneLoad(Held)'
      /\ \A h \in Availability, r \in Shards : AllCached(h, r) => AllCached(h, r)'
      /\ nodes'["recent"] # Nil
      /\ shardIds' \subseteq Shards
      /\ nodes' \in [Availability -> [Shards -> Seq(Objects)] \cup {Nil}]
      /\ cache' \in [Keys -> Seq(Objects) \cup {NotCached}]
      /\ \A k \in Keys : cache'[k] # NotCached => Elems(cache'[k]) \subseteq Held'
      /\ answer' \in {"none", "Reloaded configuration", "not reloaded"}
      /\ loaded' \in Configs
  BY <1>0, <1>1, QuietStep
<1>3. InRound = {}
  BY <1>0 DEF IndInv, TypeOK
<1>4. /\ checker' \in [pc : {"idle", "ask", "map", "crashed"},
                       todo : [Shards -> Seq(Objects)], done : Seq(Objects), shards : SUBSET Shards]
      /\ InRound' = {} /\ Todo' = {} /\ Round'
      /\ checker'.pc = "map" => checker'.shards # {}
      /\ checker'.pc \in {"idle", "map", "crashed"}
      /\ checker'.pc = "crashed" => nodes["all"] = Nil
  <2>1. CASE Panics("all", s)
    <3>1. checker' = [pc |-> "crashed", todo |-> [r \in Shards |-> <<>>], done |-> <<>>, shards |-> {}]
      BY <1>0, <2>1 DEF Dead, Idle
    <3>2. nodes["all"] = Nil
      BY <2>1 DEF Panics
    <3>3. {} \in SUBSET Shards
      OBVIOUS
    <3> QED
      BY <3>1, <3>2, <3>3, NoRound
  <2>2. CASE ~Panics("all", s) /\ left = {}
    <3>1. checker' = [pc |-> "idle", todo |-> [r \in Shards |-> <<>>], done |-> <<>>, shards |-> {}]
      BY <1>0, <2>2 DEF Idle
    <3>2. {} \in SUBSET Shards
      OBVIOUS
    <3> QED
      BY <3>1, <3>2, NoRound
  <2>3. CASE ~Panics("all", s) /\ left # {}
    <3>1. checker' = [checker EXCEPT !.shards = left]
      BY <1>0, <2>3
    <3>2. checker \in [pc : {"idle", "ask", "map", "crashed"},
                       todo : [Shards -> Seq(Objects)], done : Seq(Objects), shards : SUBSET Shards]
      BY DEF IndInv, TypeOK
    <3>3. /\ checker'.pc = "map" /\ checker'.shards = left /\ left \subseteq Shards
          /\ checker'.todo = checker.todo /\ checker'.done = checker.done
      BY <1>0, <3>1, <3>2
    <3>4. InRound' = InRound /\ Todo' \subseteq InRound /\ Round'
      BY <3>3 DEF IndInv, InRound, Todo, Round
    <3>5. checker' \in [pc : {"idle", "ask", "map", "crashed"},
                        todo : [Shards -> Seq(Objects)], done : Seq(Objects), shards : SUBSET Shards]
      BY <3>1, <3>2, <3>3
    <3> QED
      BY <1>3, <2>3, <3>3, <3>4, <3>5
  <2> QED
    BY <2>1, <2>2, <2>3
<1>5. TypeOK'
  BY <1>0, <1>2, <1>3, <1>4 DEF IndInv, TypeOK
<1>6. Pending' /\ Loads'
  BY <1>2, <1>4 DEF Pending, Loads, OneLoad
<1>7. Holders'
  BY <1>0, <1>2, <1>4 DEF IndInv, Holders, Crashed
<1> QED
  BY <1>2, <1>4, <1>5, <1>6, <1>7 DEF IndInv

LEMMA StutterInv ==
    ASSUME IndInv, UNCHANGED vars
    PROVE  IndInv'
<1> USE DEF vars
<1>1. Held' = Held /\ InRound' = InRound /\ Todo' = Todo
  BY DEF Held, InRound, Todo
<1>2. TypeOK'
  BY <1>1 DEF IndInv, TypeOK
<1>3. HeldOnce' /\ Cached'
  BY DEF IndInv, HeldOnce, Cached
<1>4. Lists'
  BY KeptHolder DEF Lists
<1>5. Pending'
  BY <1>1 DEF IndInv, Pending, AllCached
<1>6. Round'
  BY DEF IndInv, Round
<1>7. Loads' /\ Holders'
  BY <1>1 DEF IndInv, Loads, OneLoad, Holders, Crashed
<1> QED
  BY <1>2, <1>3, <1>4, <1>5, <1>6, <1>7 DEF IndInv

LEMMA NextInv == IndInv /\ [Next]_vars => IndInv'
<1> SUFFICES ASSUME IndInv, [Next]_vars
             PROVE  IndInv'
  OBVIOUS
<1>1. ASSUME NEW av \in Availability, LookupAll(av) \/ \E s \in Shards : Lookup(av, s)
      PROVE  IndInv'
  BY <1>1, LookupAllInv, LookupInv
<1>2. ASSUME NEW c \in Configs, Reload(c) \/ ReloadFails(c)
      PROVE  IndInv'
  BY <1>2, ReloadInv, ReloadFailsInv
<1>3. ASSUME ReloadUnreadable
      PROVE  IndInv'
  BY <1>3, ReloadUnreadableInv
<1>4. ASSUME StartRound
      PROVE  IndInv'
  BY <1>4, StartRoundInv
<1>5. ASSUME NEW s \in Shards, NEW st \in Statuses, Probe(s, st)
      PROVE  IndInv'
  BY <1>5, ProbeInv
<1>6. ASSUME FinishRound
      PROVE  IndInv'
  BY <1>6, FinishRoundInv
<1>7. ASSUME RefreshMapping
      PROVE  IndInv'
  BY <1>7, RefreshMappingInv
<1>8. ASSUME UNCHANGED vars
      PROVE  IndInv'
  BY <1>8, StutterInv
<1> QED
  BY <1>1, <1>2, <1>3, <1>4, <1>5, <1>6, <1>7, <1>8 DEF Next
-----------------------------------------------------------------------------
(* The theorems *)

\* The inductive invariant holds in every run of the provider.
THEOREM ProviderInvariance == Spec => []IndInv
  BY InitInv, NextInv, PTL DEF Spec

\* Every variable keeps its type, cached lists hold nodes in use only, and no
\* flag outlives its node, however lookups, rounds and reloads interleave.
THEOREM TypeCorrect == Spec => []TypeOK
<1>1. IndInv => TypeOK
  BY DEF IndInv
<1> QED
  BY <1>1, ProviderInvariance, PTL

\* Whatever the configurations and the order of rounds and reloads, a node is
\* held once, by the holder of its kind and under its shard.
THEOREM NodesAreHeldOnce == Spec => []HeldOnce
<1>1. IndInv => HeldOnce
  BY DEF IndInv
<1> QED
  BY <1>1, ProviderInvariance, PTL

\* The lists of a shard, made at different moments from flags the checker
\* rewrites, divide its nodes among them.
THEOREM ListsDivideNodes == Spec => []ListedOnce
<1>1. IndInv => ListedOnce
  BY ListsApart DEF IndInv, ListedOnce
<1> QED
  BY <1>1, ProviderInvariance, PTL

\* After a reload that reported success the checker does not crash.
THEOREM ReloadsAreSafe == Spec => []ReloadedIsSafe
<1>1. IndInv => ReloadedIsSafe
  BY DEF IndInv, Holders, ReloadedIsSafe
<1> QED
  BY <1>1, ProviderInvariance, PTL

\* The unsigned subtraction of isNodeSynced decides like the one of the integers.
LEMMA WrapIsHarmless ==
    ASSUME NEW st \in Statuses
    PROVE  IsNodeSynced(st) <=> st.answered /\ st.vmReady /\ st.highest < st.nonce + SyncThreshold
<1>1. /\ st.answered \in BOOLEAN /\ st.vmReady \in BOOLEAN
      /\ st.nonce \in 0 .. (NonceMod - 1) /\ st.highest \in 0 .. (NonceMod - 1)
      /\ NonceMod \in Nat \ {0} /\ SyncThreshold \in 1 .. NonceMod
  BY ProviderConfig
<1> DEFINE n == st.nonce
           m == st.highest
           d == (m + NonceMod - n) % NonceMod
<1>2. CASE m <= n
  <2>1. m < n + SyncThreshold
    BY <1>1, <1>2
  <2> QED
    BY <1>2, <2>1 DEF IsNodeSynced
<1>3. CASE ~(m <= n)
  <2>1. m - n \in 0 .. (NonceMod - 1) /\ m + NonceMod - n = (m - n) + NonceMod
    BY <1>1, <1>3
  <2>2. ASSUME NEW a \in Nat, NEW N \in Nat \ {0}, a < N
        PROVE  (a + N) % N = a
    BY <2>2
  <2>3. d = m - n
    BY <1>1, <2>1, <2>2
  <2>4. d < SyncThreshold <=> m < n + SyncThreshold
    <3> HIDE DEF d
    <3> QED
      BY <1>1, <2>3
  <2> QED
    BY <1>3, <2>4 DEF IsNodeSynced
<1> QED
  BY <1>2, <1>3

\* A status request marks its node by the unbounded rule, for every width of
\* the nonces and every threshold that fits in it.
THEOREM ProbesDecideRightly == Spec => SyncRule
<1>1. ASSUME NEW s \in Shards, NEW st \in Statuses, Probe(s, st)
      PROVE  Head(checker.todo[s]) \in synced' <=>
                 st.answered /\ st.vmReady /\ st.highest < st.nonce + SyncThreshold
  BY <1>1, WrapIsHarmless DEF Probe
<1>2. \A s \in Shards, st \in Statuses :
         Probe(s, st) => (Head(checker.todo[s]) \in synced' <=>
                              /\ st.answered /\ st.vmReady
                              /\ st.highest < st.nonce + SyncThreshold)
  BY <1>1
<1> QED
  BY <1>2, PTL DEF SyncRule
-----------------------------------------------------------------------------
(* The provider implements the registry *)

\* The hypothesis: reloads wait for the round, and every file has a regular node
\* and names no node twice.  Without the first a round may undo a reload (the
\* lost reload), without the second a failed reload leaves no holder, and a node
\* named twice is asked twice.
Calm == /\ ~ReloadDuringRound
        /\ \A c \in Configs : HasRegular(c) /\ Distinct(c)

\* In a calm world the round asks exactly the nodes in use, all lists of which
\* it has cached, and between two rounds the lists say what the flags say.
CalmInv ==
    /\ \A h \in Availability : nodes[h] # Nil
    /\ \A o, p \in Held : o.node = p.node => o = p
    /\ \A o \in Held : o.node.shard \in shardIds
    /\ checker.pc = "ask" => /\ InRound = Held
                             /\ \A h \in Availability, s \in shardIds : AllCached(h, s)
    /\ checker.pc # "ask" => \A h \in Availability, s \in Shards : Fits(h, s)

\* A holder's list has the entries of its kind and shard.
LEMMA LoadElems ==
    ASSUME NEW c \in Configs, NEW h \in Availability, NEW g \in Gens, NEW s \in Shards
    PROVE  \A o : o \in Elems(InitialNodes(c, h, g)[s]) <=>
                     \E i \in DOMAIN c : /\ o = [node |-> c[i], entry |-> i, gen |-> g]
                                         /\ IsNodeValid(c[i], h) /\ c[i].shard = s
<1> DEFINE entries == [i \in DOMAIN c |-> [node |-> c[i], entry |-> i, gen |-> g]]
           of(f) == {o \in Elems(entries) : /\ IsNodeValid(o.node, h)
                                            /\ o.node.shard = s
                                            /\ o.node.fallback = f}
           A == Keep(entries, of(FALSE))
           B == Keep(entries, of(TRUE))
<1>1. InitialNodes(c, h, g)[s] = A \o B
  BY DEF InitialNodes
<1>2. Len(c) \in Nat /\ DOMAIN c = 1 .. Len(c) /\ \A i \in 1 .. Len(c) : c[i] \in Nodes
  BY ProviderConfig, LenProperties, ElementOfSeq
<1>3. entries \in Seq(Objects)
  <2>1. \A i \in DOMAIN c : [node |-> c[i], entry |-> i, gen |-> g] \in Objects
    BY <1>2 DEF Objects
  <2> QED
    BY <1>2, <2>1, IsASeq
<1>4. \A i \in DOMAIN c : c[i].fallback \in BOOLEAN
  BY <1>2, ProviderConfig
<1>5. \A o : o \in Elems(entries) <=> \E i \in DOMAIN c : o = [node |-> c[i], entry |-> i, gen |-> g]
  BY DEF Elems
<1> HIDE DEF entries
<1>6. \A o : o \in of(FALSE) \cup of(TRUE) <=>
                /\ o \in Elems(entries) /\ IsNodeValid(o.node, h) /\ o.node.shard = s
                /\ o.node.fallback \in BOOLEAN
  OBVIOUS
<1>7. of(FALSE) \subseteq Elems(entries) /\ of(TRUE) \subseteq Elems(entries)
  OBVIOUS
<1> HIDE DEF of
<1>8. /\ A \in Seq(Objects) /\ Elems(A) = Elems(entries) \cap of(FALSE)
      /\ B \in Seq(Objects) /\ Elems(B) = Elems(entries) \cap of(TRUE)
  BY <1>3, KeepFacts
<1> HIDE DEF A, B
<1>9. Elems(A \o B) = of(FALSE) \cup of(TRUE)
  <2>1. Elems(A \o B) = Elems(A) \cup Elems(B)
    BY <1>8, ConcatFacts
  <2> QED
    BY <1>7, <1>8, <2>1
<1>10. \A o : o \in of(FALSE) \cup of(TRUE) <=>
                 \E i \in DOMAIN c : /\ o = [node |-> c[i], entry |-> i, gen |-> g]
                                     /\ IsNodeValid(c[i], h) /\ c[i].shard = s
  <2> DEFINE e(i) == [node |-> c[i], entry |-> i, gen |-> g]
  <2>1. \A i \in DOMAIN c : e(i).node = c[i]
    OBVIOUS
  <2>2. \A o : o \in Elems(entries) <=> \E i \in DOMAIN c : o = e(i)
    BY <1>5
  <2> HIDE DEF e
  <2>3. \A o : o \in of(FALSE) \cup of(TRUE) <=>
                  \E i \in DOMAIN c : o = e(i) /\ IsNodeValid(c[i], h) /\ c[i].shard = s
    <3>1. ASSUME NEW o \in of(FALSE) \cup of(TRUE)
          PROVE  \E i \in DOMAIN c : o = e(i) /\ IsNodeValid(c[i], h) /\ c[i].shard = s
      <4>1. o \in Elems(entries) /\ IsNodeValid(o.node, h) /\ o.node.shard = s
        BY <1>6
      <4>2. PICK i \in DOMAIN c : o = e(i)
        BY <2>2, <4>1
      <4>3. o.node = c[i]
        BY <2>1, <4>2
      <4> QED
        BY <4>1, <4>2, <4>3
    <3>2. ASSUME NEW i \in DOMAIN c, IsNodeValid(c[i], h), c[i].shard = s
          PROVE  e(i) \in of(FALSE) \cup of(TRUE)
      BY <1>4, <1>6, <2>1, <2>2, <3>2
    <3> QED
      BY <3>1, <3>2
  <2> QED
    BY <2>3 DEF e
<1> QED
  BY <1>1, <1>9, <1>10

\* The two holders together have each node of the file, once.
LEMMA LoadedNodes ==
    ASSUME NEW c \in Configs, NEW g \in Gens, NEW new, Distinct(c),
           new = [h \in Availability |-> InitialNodes(c, h, g)]
    PROVE  /\ NodesOf(HeldBy(new)) = Elems(c)
           /\ \A o, p \in HeldBy(new) : o.node = p.node => o = p
           /\ \A o \in HeldBy(new) : o.node.shard \in ConfigShards(c)
<1> DEFINE e(i) == [node |-> c[i], entry |-> i, gen |-> g]
<1>1. \A i \in DOMAIN c : c[i].shard \in Shards /\ c[i].snapshotless \in BOOLEAN
  <2>1. \A i \in DOMAIN c : c[i] \in Nodes
    BY ProviderConfig, LenProperties, ElementOfSeq
  <2> QED
    BY <2>1, ProviderConfig
<1>2. \A h \in Availability : new[h] = InitialNodes(c, h, g) /\ new[h] # Nil
  BY LoadFacts, ProviderConfig
<1>3. \A o : o \in HeldBy(new) <=>
                \E h \in Availability, s \in Shards, i \in DOMAIN c :
                   o = e(i) /\ IsNodeValid(c[i], h) /\ c[i].shard = s
  <2> HIDE DEF e
  <2>1. \A h \in Availability, s \in Shards : \A o :
           o \in Elems(new[h][s]) <=> \E i \in DOMAIN c : o = e(i) /\ IsNodeValid(c[i], h) /\ c[i].shard = s
    BY <1>2, LoadElems DEF e
  <2>2. \A o : o \in HeldBy(new) <=> \E h \in Availability, s \in Shards : o \in Elems(new[h][s])
    BY <1>2, HeldByFacts
  <2>3. ASSUME NEW o \in HeldBy(new)
        PROVE  \E h \in Availability, s \in Shards, i \in DOMAIN c :
                  o = e(i) /\ IsNodeValid(c[i], h) /\ c[i].shard = s
    <3>1. PICK h \in Availability, s \in Shards : o \in Elems(new[h][s])
      BY <2>2
    <3> QED
      BY <2>1, <3>1
  <2>4. ASSUME NEW h \in Availability, NEW s \in Shards, NEW i \in DOMAIN c,
               IsNodeValid(c[i], h), c[i].shard = s
        PROVE  e(i) \in HeldBy(new)
    <3>1. e(i) \in Elems(new[h][s])
      BY <2>1, <2>4
    <3> QED
      BY <2>2, <3>1
  <2> QED
    BY <2>3, <2>4
<1>4. \A i \in DOMAIN c : \E h \in Availability : IsNodeValid(c[i], h)
  BY <1>1 DEF Availability, IsNodeValid
<1>5. \A i \in DOMAIN c : e(i).node = c[i]
  OBVIOUS
<1> HIDE DEF e
<1>6. \A o : o \in HeldBy(new) <=> \E i \in DOMAIN c : o = e(i)
  BY <1>1, <1>3, <1>4
<1>7. NodesOf(HeldBy(new)) = Elems(c)
  BY <1>5, <1>6 DEF NodesOf, Elems
<1>8. \A o, p \in HeldBy(new) : o.node = p.node => o = p
  BY <1>5, <1>6 DEF Distinct
<1>9. \A o \in HeldBy(new) : o.node.shard \in ConfigShards(c)
  BY <1>5, <1>6 DEF ConfigShards
<1> QED
  BY <1>7, <1>8, <1>9

\* Asking for a list and caching it changes no list.
LEMMA FilledLists ==
    ASSUME IndInv, NEW keys, cache' = Filled(keys), UNCHANGED <<nodes, synced>>
    PROVE  /\ \A h \in Availability, t \in CacheTypes, s \in Shards :
                 getObservers(h, t, s)' = getObservers(h, t, s)
           /\ Good' = Good
<1>1. ASSUME NEW h \in Availability, NEW t \in CacheTypes, NEW s \in Shards
      PROVE  getObservers(h, t, s)' = getObservers(h, t, s)
  <2>1. <<h, t, s>> \in Keys
    BY DEF Keys
  <2>2. cache'[<<h, t, s>>] = IF <<h, t, s>> \in keys THEN getObservers(h, t, s) ELSE cache[<<h, t, s>>]
    BY <2>1 DEF Filled
  <2>3. getObservers(h, t, s) # NotCached
    BY ObserversFacts, ProviderConfig DEF IndInv
  <2>4. Listed(h, t, s)' = Listed(h, t, s)
    BY DEF Listed, getCacheType
  <2>5. CASE <<h, t, s>> \in keys
    BY <2>2, <2>3, <2>5 DEF getObservers
  <2>6. CASE <<h, t, s>> \notin keys
    BY <2>2, <2>4, <2>6 DEF getObservers
  <2> QED
    BY <2>5, <2>6
<1>2. {"synced", "syncedFallback"} \subseteq CacheTypes
  BY DEF CacheTypes
<1> QED
  BY <1>1, <1>2 DEF Good

\* Between two rounds the nodes offered as synced are those flagged as synced.
LEMMA GoodIsSynced == IndInv /\ CalmInv /\ checker.pc # "ask" => Good = Held \cap synced
<1> SUFFICES ASSUME IndInv, CalmInv, checker.pc # "ask"
             PROVE  Good = Held \cap synced
  OBVIOUS
<1>1. \A h \in Availability, t \in CacheTypes, s \in Shards :
         Elems(getObservers(h, t, s)) = Flagged(h, t, s)
  BY ObserversFacts DEF IndInv, CalmInv, Fits
<1>2. \A o : o \in Good <=> \E h \in Availability, s \in Shards, t \in {"synced", "syncedFallback"} :
                                o \in Elems(getObservers(h, t, s))
  BY DEF Good
<1>3. \A h \in Availability, s \in Shards : \A o :
         (\E t \in {"synced", "syncedFallback"} : o \in Flagged(h, t, s))
             <=> o \in Elems(nodes[h][s]) /\ o \in synced
  BY DEF Flagged, getCacheType
<1>4. {"synced", "syncedFallback"} \subseteq CacheTypes
  BY DEF CacheTypes
<1>5. \A o : o \in Good <=> \E h \in Availability, s \in Shards : o \in Elems(nodes[h][s]) /\ o \in synced
  BY <1>1, <1>2, <1>3, <1>4
<1>6. \A o : o \in Held <=> \E h \in Availability, s \in Shards : o \in Elems(nodes[h][s])
  BY HeldFacts DEF CalmInv
<1> QED
  BY <1>5, <1>6

LEMMA GoodIsSyncedNext == (IndInv /\ CalmInv /\ checker.pc # "ask" => Good = Held \cap synced)'
  BY GoodIsSynced, PTL

\* What a step does to the registry follows from what it does to these.
LEMMA SameRegistry ==
    ASSUME Held' = Held, Good' = Good, Elems(checker'.done) = Elems(checker.done),
           Elems(checker.done) \cap synced' = Elems(checker.done) \cap synced,
           checker'.pc = "ask" <=> checker.pc = "ask"
    PROVE  UNCHANGED Registry!vars
  BY DEF Registry!vars, NodesOf

\* What of the invariant a filled list cannot touch.
LEMMA FillCalm ==
    ASSUME IndInv, CalmInv, NEW keys, cache' = Filled(keys), UNCHANGED <<shardIds, nodes, synced>>
    PROVE  /\ Held' = Held /\ Good' = Good
           /\ \A h \in Availability : nodes'[h] # Nil
           /\ \A o, p \in Held' : o.node = p.node => o = p
           /\ \A o \in Held' : o.node.shard \in shardIds'
           /\ \A h \in Availability, s \in Shards :
                 \/ AllCached(h, s)
                 \/ \A t \in CacheTypes : <<h, t, s>> \in keys
                 => AllCached(h, s)'
           /\ checker.pc # "ask" => \A h \in Availability, s \in Shards : Fits(h, s)'
<1>1. \A k \in Keys : k \in keys => nodes[k[1]] # Nil
  BY DEF CalmInv, Keys
<1>2. Held' = Held
  BY DEF Held
<1>3. ASSUME checker.pc # "ask", NEW h \in Availability, NEW s \in Shards
      PROVE  Fits(h, s)'
  <2>1. \A t \in CacheTypes : /\ getObservers(h, t, s)' = getObservers(h, t, s)
                              /\ Elems(getObservers(h, t, s)) = Flagged(h, t, s)
    BY <1>3, FilledLists, ObserversFacts DEF IndInv, CalmInv, Fits
  <2>2. \A t \in CacheTypes : cache'[<<h, t, s>>] # NotCached => getObservers(h, t, s)' = cache'[<<h, t, s>>]
    BY DEF getObservers
  <2>3. \A t \in CacheTypes : Flagged(h, t, s)' = Flagged(h, t, s)
    BY DEF Flagged, getCacheType
  <2> QED
    BY <2>1, <2>2, <2>3 DEF Fits
<1>4. \A h \in Availability, s \in Shards :
         \/ AllCached(h, s)
         \/ \A t \in CacheTypes : <<h, t, s>> \in keys
         => AllCached(h, s)'
  BY <1>1, FillStep
<1> QED
  BY <1>2, <1>3, <1>4, FilledLists DEF CalmInv

\* A lookup is no step of the registry.
LEMMA ReadCalm ==
    ASSUME IndInv, CalmInv, NEW keys, cache' = Filled(keys),
           UNCHANGED <<shardIds, nodes, synced, checker>>
    PROVE  CalmInv' /\ UNCHANGED Registry!vars
<1>1. InRound' = InRound
  BY DEF InRound, Todo
<1>2. CalmInv'
  <2>1. shardIds \subseteq Shards
    BY DEF IndInv, TypeOK
  <2> QED
    BY <1>1, <2>1, FillCalm DEF CalmInv
<1> QED
  BY <1>2, FillCalm, SameRegistry

LEMMA LookupCalm ==
    ASSUME IndInv, CalmInv, NEW av \in Availability,
           LookupAll(av) \/ \E s \in Shards : Lookup(av, s)
    PROVE  CalmInv' /\ UNCHANGED Registry!vars
<1>1. CASE LookupAll(av)
  BY <1>1, ReadCalm DEF LookupAll
<1>2. ASSUME NEW s \in Shards, Lookup(av, s)
      PROVE  CalmInv' /\ UNCHANGED Registry!vars
  BY <1>2, ReadCalm DEF Lookup
<1> QED
  BY <1>1, <1>2

\* Neither is the refresh of the mapping.
LEMMA RefreshCalm ==
    ASSUME IndInv, CalmInv, RefreshMapping
    PROVE  CalmInv' /\ UNCHANGED Registry!vars
<1> DEFINE s == CHOOSE s \in checker.shards : \A r \in checker.shards : s <= r
           rest == checker.shards \ {s}
<1>0. /\ checker.pc = "map"
      /\ cache' = Filled(Touched("all", s))
      /\ checker' \in {Dead, Idle, [checker EXCEPT !.shards = rest]}
      /\ UNCHANGED <<shardIds, nodes, synced>>
  BY DEF RefreshMapping
<1> HIDE DEF s
<1>1. InRound = {} /\ Elems(checker.done) = {}
  BY <1>0, TypeFacts DEF IndInv, TypeOK
<1>2. checker'.pc # "ask" /\ Elems(checker'.done) = {}
  <2>1. checker \in [pc : {"idle", "ask", "map", "crashed"},
                     todo : [Shards -> Seq(Objects)], done : Seq(Objects), shards : SUBSET Shards]
    BY DEF IndInv, TypeOK
  <2>2. CASE checker' = [checker EXCEPT !.shards = rest]
    BY <1>0, <1>1, <2>1, <2>2
  <2>3. CASE checker' \in {Dead, Idle}
    BY <2>3, EmptyFacts DEF Dead, Idle
  <2> QED
    BY <1>0, <2>2, <2>3
<1>3. CalmInv'
  BY <1>0, <1>2, FillCalm DEF CalmInv
<1> QED
  BY <1>0, <1>1, <1>2, <1>3, FillCalm, SameRegistry

\* A round begins with all nodes in use, and with their lists cached.
LEMMA StartCalm ==
    ASSUME IndInv, CalmInv, StartRound
    PROVE  CalmInv' /\ Registry!StartCheck
<1>0. /\ checker.pc = "idle"
      /\ cache' = Filled({k \in Keys : k[3] \in shardIds})
      /\ checker' = [Idle EXCEPT !.pc = "ask", !.todo = GetAllNodesWithSyncState]
      /\ UNCHANGED <<shardIds, nodes, synced>>
      /\ shardIds \subseteq Shards
  BY DEF StartRound, CalmInv, IndInv, TypeOK, Availability
<1>1. /\ checker'.pc = "ask" /\ checker'.done = <<>>
      /\ checker'.todo = [s \in Shards |-> IF s \in shardIds THEN RoundList(s) ELSE <<>>]
  BY <1>0 DEF Idle, GetAllNodesWithSyncState
<1>2. /\ Held' = Held /\ Good' = Good
      /\ \A h \in Availability : nodes'[h] # Nil
      /\ \A o, p \in Held' : o.node = p.node => o = p
      /\ \A o \in Held' : o.node.shard \in shardIds'
  BY <1>0, FillCalm
<1>3. ASSUME NEW h \in Availability, NEW s \in shardIds
      PROVE  AllCached(h, s)'
  <2>1. \A t \in CacheTypes : <<h, t, s>> \in {k \in Keys : k[3] \in shardIds}
    BY <1>0 DEF Keys
  <2>2. s \in Shards
    BY <1>0
  <2> QED
    BY <1>0, <2>1, <2>2, FillCalm
<1>4. InRound' = Held
  <2>1. \A s \in Shards : Elems(checker'.todo[s]) =
           IF s \in shardIds THEN Elems(nodes["all"][s]) \cup Elems(nodes["recent"][s]) ELSE {}
    <3>1. nodes["all"] # Nil
      BY DEF CalmInv, Availability
    <3> QED
      BY <1>1, <3>1, RoundListFacts, EmptyFacts
  <2>2. \A o : o \in InRound' <=>
                  \E s \in shardIds : o \in Elems(nodes["all"][s]) \cup Elems(nodes["recent"][s])
    BY <1>0, <1>1, <2>1, RoundFactsNext, EmptyFacts
  <2>3. \A o : o \in Held <=>
                  \E s \in Shards : o \in Elems(nodes["all"][s]) \cup Elems(nodes["recent"][s])
    BY HeldFacts DEF CalmInv, Availability
  <2>4. ASSUME NEW s \in Shards, NEW o \in Elems(nodes["all"][s]) \cup Elems(nodes["recent"][s])
        PROVE  s \in shardIds
    <3>1. o.node.shard = s
      <4>1. PICK h \in Availability : o \in Elems(nodes[h][s])
        BY DEF Availability
      <4> QED
        BY <4>1 DEF IndInv, CalmInv, HeldOnce, Elems
    <3>2. o \in Held
      BY <2>3
    <3> QED
      BY <3>1, <3>2 DEF CalmInv
  <2> QED
    BY <1>0, <2>2, <2>3, <2>4
<1>5. CalmInv'
  BY <1>0, <1>1, <1>2, <1>3, <1>4 DEF CalmInv
<1>6. Elems(checker.done) = {} /\ Elems(checker'.done) = {}
  BY <1>0, <1>1, EmptyFacts, TypeFacts DEF IndInv, TypeOK
<1>7. Registry!StartCheck
  BY <1>0, <1>1, <1>2, <1>6 DEF Registry!StartCheck, NodesOf
<1> QED
  BY <1>5, <1>7

\* A flag that is written meets no list that is still to be made: a request sees
\* nothing of a round that is under way.
LEMMA ProbeCalm ==
    ASSUME IndInv, CalmInv, NEW s \in Shards, NEW st \in Statuses, Probe(s, st)
    PROVE  CalmInv' /\ Registry!Ask
<1> DEFINE o == Head(checker.todo[s])
<1>0. /\ checker.pc = "ask" /\ checker.todo[s] # <<>>
      /\ \/ synced' = synced \cup {o}
         \/ synced' = synced \ {o}
      /\ checker' = [checker EXCEPT !.todo[s] = Tail(@), !.done = Append(@, o)]
      /\ UNCHANGED <<shardIds, nodes, cache>>
      /\ shardIds \subseteq Shards
  BY DEF Probe, IndInv, TypeOK
<1>1. /\ checker \in [pc : {"idle", "ask", "map", "crashed"},
                      todo : [Shards -> Seq(Objects)], done : Seq(Objects), shards : SUBSET Shards]
      /\ checker.todo[s] \in Seq(Objects) /\ checker.done \in Seq(Objects)
      /\ checker.todo \in [Shards -> Seq(Objects)]
  BY DEF IndInv, TypeOK
<1>2. /\ checker'.pc = "ask" /\ checker'.done = Append(checker.done, o)
      /\ \A r \in Shards : checker'.todo[r] = IF r = s THEN Tail(checker.todo[s]) ELSE checker.todo[r]
  BY <1>0, <1>1
<1>3. o \in Objects /\ Elems(checker.todo[s]) = {o} \cup Elems(Tail(checker.todo[s]))
  BY <1>0, <1>1, TailFacts
<1> HIDE DEF o
<1>4. Elems(checker'.done) = Elems(checker.done) \cup {o}
  BY <1>1, <1>2, <1>3, AppendFacts
<1>5. o \notin Elems(checker.done)
  BY <1>3 DEF IndInv, Round
<1>6. InRound' = InRound /\ o \in InRound /\ Elems(checker.done) \subseteq InRound
  BY <1>2, <1>3, <1>4, RoundFacts, RoundFactsNext
<1>7. Held' = Held /\ InRound = Held
  BY <1>0 DEF Held, CalmInv
<1>8. CalmInv'
  BY <1>0, <1>2, <1>6, <1>7 DEF CalmInv, AllCached
<1>9. ASSUME NEW h \in Availability, NEW t \in CacheTypes, NEW r \in Shards
      PROVE  Elems(getObservers(h, t, r)') = Elems(getObservers(h, t, r))
  <2>1. CASE r \in shardIds
    <3>1. cache[<<h, t, r>>] # NotCached
      BY <1>0, <2>1 DEF CalmInv, AllCached
    <3> QED
      BY <1>0, <3>1 DEF getObservers
  <2>2. CASE r \notin shardIds
    <3>1. Elems(nodes[h][r]) = {}
      <4>1. SUFFICES ASSUME NEW x \in Elems(nodes[h][r]) PROVE FALSE
        OBVIOUS
      <4>2. nodes[h] # Nil /\ x \in Held
        BY <4>1, HeldFacts DEF CalmInv
      <4>3. x.node.shard = r
        BY <4>1, <4>2 DEF IndInv, HeldOnce, Elems
      <4> QED
        BY <2>2, <4>2, <4>3 DEF CalmInv
    <3>2. Elems(getObservers(h, t, r)) \subseteq Elems(nodes[h][r])
      BY ObserversFacts DEF IndInv, CalmInv
    <3>3. Elems(getObservers(h, t, r)') \subseteq Elems(nodes[h][r])
      <4>1. CASE cache[<<h, t, r>>] # NotCached
        BY <1>0, <3>2, <4>1 DEF getObservers
      <4>2. CASE cache[<<h, t, r>>] = NotCached
        <5>1. nodes[h] # Nil /\ nodes[h][r] \in Seq(Objects)
          BY TypeFacts DEF IndInv, CalmInv
        <5>2. getObservers(h, t, r)' = Listed(h, t, r)'
          BY <1>0, <4>2, <5>1 DEF getObservers
        <5>3. Listed(h, t, r)' = Keep(nodes[h][r], {x \in Elems(nodes[h][r]) : getCacheType(x)' = t})
          BY <1>0 DEF Listed
        <5> QED
          BY <5>1, <5>2, <5>3, KeepFacts
      <4> QED
        BY <4>1, <4>2
    <3> QED
      BY <3>1, <3>2, <3>3
  <2> QED
    BY <2>1, <2>2
<1>10. Good' = Good
  <2>1. {"synced", "syncedFallback"} \subseteq CacheTypes
    BY DEF CacheTypes
  <2> QED
    BY <1>9, <2>1 DEF Good
<1>11. o.node \in NodesOf(Held) \ NodesOf(Elems(checker.done))
  BY <1>5, <1>6, <1>7 DEF NodesOf, CalmInv
<1>12. NodesOf(Elems(checker'.done)) = NodesOf(Elems(checker.done)) \cup {o.node}
  BY <1>4 DEF NodesOf
<1>13. NodesOf(Elems(checker'.done) \cap synced') \in
          {NodesOf(Elems(checker.done) \cap synced), NodesOf(Elems(checker.done) \cap synced) \cup {o.node}}
  <2>1. CASE synced' = synced \cup {o}
    <3>1. Elems(checker'.done) \cap synced' = (Elems(checker.done) \cap synced) \cup {o}
      BY <1>4, <1>5, <2>1
    <3> QED
      BY <3>1 DEF NodesOf
  <2>2. CASE synced' = synced \ {o}
    <3>1. Elems(checker'.done) \cap synced' = Elems(checker.done) \cap synced
      BY <1>4, <1>5, <2>2
    <3> QED
      BY <3>1
  <2> QED
    BY <1>0, <2>1, <2>2
<1>14. Registry!Ask
  BY <1>0, <1>2, <1>7, <1>10, <1>11, <1>12, <1>13 DEF Registry!Ask
<1> QED
  BY <1>8, <1>14

\* What a holder gets at the end of a round, exactly.
LEMMA SplitElems ==
    ASSUME IndInv, NEW h \in Availability, NEW s \in Shards
    PROVE  /\ \A o : o \in Elems(Split(h)) <=> o \in Elems(checker.done) /\ IsNodeValid(o.node, h)
           /\ \A o : o \in Elems(ByShard(Split(h))[s]) <=> o \in Elems(Split(h)) /\ o.node.shard = s
<1> DEFINE V == {o \in Elems(checker.done) : IsNodeValid(o.node, h)}
           q == Split(h)
           W == {o \in Elems(q) : o.node.shard = s}
<1>1. checker.done \in Seq(Objects)
  BY TypeFacts DEF IndInv
<1>2. q = Keep(checker.done, V)
  BY DEF Split
<1>3. \A o : o \in V <=> o \in Elems(checker.done) /\ IsNodeValid(o.node, h)
  OBVIOUS
<1> HIDE DEF V, q
<1>4. q \in Seq(Objects) /\ Elems(q) = Elems(checker.done) \cap V
  BY <1>1, <1>2, KeepFacts
<1>5. ByShard(q)[s] = Keep(q, W)
  BY DEF ByShard
<1>6. \A o : o \in W <=> o \in Elems(q) /\ o.node.shard = s
  OBVIOUS
<1> HIDE DEF W
<1>7. Elems(Keep(q, W)) = Elems(q) \cap W
  BY <1>4, KeepFacts
<1> QED
  BY <1>3, <1>4, <1>5, <1>6, <1>7 DEF q

\* The round's verdict takes effect for all nodes at once.
LEMMA FinishCalm ==
    ASSUME IndInv, CalmInv, FinishRound, IndInv'
    PROVE  CalmInv' /\ Registry!Verdict
<1>0. /\ checker.pc = "ask" /\ \A s \in Shards : checker.todo[s] = <<>>
      /\ nodes' = [h \in Availability |-> IF Split(h) = <<>> THEN nodes[h] ELSE ByShard(Split(h))]
      /\ cache' = [k \in Keys |-> IF Split(k[1]) = <<>> THEN cache[k] ELSE NotCached]
      /\ checker'.pc = "map" /\ checker'.done = <<>>
      /\ synced' = synced \cap HeldBy(nodes')
      /\ shardIds' = shardIds
  BY DEF FinishRound, UpdateNodes, CalmInv, Availability, Idle
<1>1. Elems(checker.done) = Held
  <2>1. InRound = Elems(checker.done)
    BY <1>0, RoundFacts, EmptyFacts
  <2> QED
    BY <1>0, <2>1 DEF CalmInv
<1>2. \A o \in Held, h \in Availability, s \in Shards :
         o \in Elems(nodes[h][s]) <=> IsNodeValid(o.node, h) /\ o.node.shard = s
  <2>1. \A h \in Availability, s \in Shards : \A o \in Elems(nodes[h][s]) :
           IsNodeValid(o.node, h) /\ o.node.shard = s
    BY DEF IndInv, CalmInv, HeldOnce, Elems
  <2>2. \A o \in Held : \E h \in Availability, s \in Shards : o \in Elems(nodes[h][s])
    BY HeldFacts
  <2>3. \A o : \A h, g \in Availability : IsNodeValid(o.node, h) /\ IsNodeValid(o.node, g) => h = g
    BY DEF IsNodeValid, Availability
  <2> QED
    BY <2>1, <2>2, <2>3
<1>3. ASSUME NEW h \in Availability, NEW s \in Shards
      PROVE  Elems(nodes'[h][s]) = Elems(nodes[h][s])
  <2>1. \A o : o \in Elems(nodes[h][s]) => o \in Held
    BY HeldFacts DEF CalmInv
  <2>2. CASE Split(h) = <<>>
    BY <1>0, <2>2
  <2>3. CASE Split(h) # <<>>
    <3>1. nodes'[h][s] = ByShard(Split(h))[s]
      BY <1>0, <2>3
    <3>2. \A o : o \in Elems(ByShard(Split(h))[s]) <=>
                    o \in Held /\ IsNodeValid(o.node, h) /\ o.node.shard = s
      BY <1>1, SplitElems
    <3>3. \A o : o \in Elems(nodes[h][s]) <=>
                    o \in Held /\ IsNodeValid(o.node, h) /\ o.node.shard = s
      BY <1>2, <2>1
    <3>4. \A o : o \in Elems(nodes[h][s]) <=> o \in Elems(ByShard(Split(h))[s])
      BY <3>2, <3>3
    <3> QED
      BY <3>1, <3>4
  <2> QED
    BY <2>2, <2>3
<1>4. \A h \in Availability : nodes'[h] # Nil
  BY <1>0, SplitFacts DEF CalmInv
<1>5. Held' = Held
  BY <1>3, <1>4, HeldFacts, HeldFactsNext DEF CalmInv
<1>6. \A o \in Held : o \in synced' <=> o \in synced
  BY <1>0, <1>5 DEF Held
<1>7. ASSUME NEW h \in Availability, NEW s \in Shards
      PROVE  Fits(h, s)'
  <2>0. \A t \in CacheTypes :
           cache'[<<h, t, s>>] = IF Split(h) = <<>> THEN cache[<<h, t, s>>] ELSE NotCached
    BY <1>0 DEF Keys
  <2>1. CASE Split(h) # <<>>
    BY <2>0, <2>1 DEF Fits
  <2>2. CASE Split(h) = <<>>
    <3>1. Elems(nodes[h][s]) = {}
      <4>1. \A o \in Held : ~IsNodeValid(o.node, h)
        BY <1>1, <2>2, SplitElems, EmptyFacts
      <4> QED
        BY <1>2, <4>1, HeldFacts DEF CalmInv
    <3>2. \A t \in CacheTypes : cache'[<<h, t, s>>] # NotCached => Elems(cache'[<<h, t, s>>]) = {}
      BY <2>0, <2>2, <3>1 DEF IndInv, Cached
    <3>3. \A t \in CacheTypes : Flagged(h, t, s)' = {}
      BY <1>3, <3>1 DEF Flagged
    <3> QED
      BY <3>2, <3>3 DEF Fits
  <2> QED
    BY <2>1, <2>2
<1>8. CalmInv'
  BY <1>0, <1>4, <1>5, <1>7 DEF CalmInv
<1>9. Good' = Held \cap synced
  <2>1. Good' = Held' \cap synced'
    BY <1>0, <1>8, GoodIsSyncedNext
  <2> QED
    BY <1>5, <1>6, <2>1
<1>10. Elems(checker'.done) = {}
  BY <1>0, EmptyFacts
<1>11. Registry!Verdict
  BY <1>0, <1>1, <1>5, <1>9, <1>10 DEF Registry!Verdict, NodesOf
<1> QED
  BY <1>8, <1>11

\* A reload replaces the nodes and trusts them.
LEMMA ReloadCalm ==
    ASSUME Calm, IndInv, CalmInv, NEW c \in Configs, Reload(c), IndInv'
    PROVE  CalmInv' /\ Registry!Reload
<1> DEFINE new == [h \in Availability |-> InitialNodes(c, h, Fresh)]
<1>0. /\ checker.pc = "idle" /\ checker' = checker
      /\ shardIds' = ConfigShards(c) /\ nodes' = new
      /\ cache' = [k \in Keys |-> NotCached]
      /\ synced' = HeldBy(new) \cup (synced \cap InRound)
  BY DEF Reload, ReloadAllowed, Calm
<1>1. Fresh \in Gens
  BY FreshLoad DEF IndInv
<1>2. \A h \in Availability : nodes'[h] # Nil
  BY <1>0, <1>1, LoadFacts, ProviderConfig
<1> HIDE DEF new
<1>3. /\ NodesOf(HeldBy(new)) = Elems(c)
      /\ \A o, p \in HeldBy(new) : o.node = p.node => o = p
      /\ \A o \in HeldBy(new) : o.node.shard \in ConfigShards(c)
  BY <1>1, LoadedNodes DEF new, Calm
<1>4. Held' = HeldBy(new)
  BY <1>0 DEF Held
<1>5. \A h \in Availability, s \in Shards : Fits(h, s)'
  BY <1>0 DEF Fits, Keys
<1>6. CalmInv'
  BY <1>0, <1>2, <1>3, <1>4, <1>5 DEF CalmInv
<1>7. Good' = Held'
  BY <1>0, <1>4, <1>6, GoodIsSyncedNext
<1>8. Elems(checker.done) = {}
  BY <1>0, TypeFacts DEF IndInv, TypeOK
<1>9. Registry!Reload
  BY <1>0, <1>3, <1>4, <1>7, <1>8 DEF Registry!Reload, NodesOf
<1> QED
  BY <1>6, <1>9

LEMMA InitCalm ==
    ASSUME Calm, Init
    PROVE  CalmInv /\ Registry!Init
<1>1. PICK c \in Configs, g \in Gens :
         /\ shardIds = ConfigShards(c)
         /\ nodes = [h \in Availability |-> InitialNodes(c, h, g)]
         /\ cache = [k \in Keys |-> NotCached]
         /\ synced = Held
         /\ checker = Idle
  BY DEF Init
<1>2. checker.pc = "idle" /\ Elems(checker.done) = {}
  BY <1>1, EmptyFacts DEF Idle
<1>3. \A h \in Availability : nodes[h] # Nil
  BY <1>1, LoadFacts, ProviderConfig
<1>4. /\ NodesOf(Held) = Elems(c)
      /\ \A o, p \in Held : o.node = p.node => o = p
      /\ \A o \in Held : o.node.shard \in shardIds
  BY <1>1, LoadedNodes DEF Held, Calm
<1>5. \A h \in Availability, s \in Shards : Fits(h, s)
  BY <1>1 DEF Fits, Keys
<1>6. CalmInv
  BY <1>2, <1>3, <1>4, <1>5 DEF CalmInv
<1>7. Good = Held
  BY <1>1, <1>2, <1>6, InitInv, GoodIsSynced
<1>8. Registry!Init
  BY <1>2, <1>4, <1>7 DEF Registry!Init, NodesOf
<1> QED
  BY <1>6, <1>8

LEMMA NextCalm ==
    ASSUME Calm, IndInv, CalmInv, [Next]_vars, IndInv'
    PROVE  CalmInv' /\ [Registry!Next]_Registry!vars
<1> USE DEF Registry!Next
<1>1. ASSUME NEW av \in Availability, LookupAll(av) \/ \E s \in Shards : Lookup(av, s)
      PROVE  CalmInv' /\ [Registry!Next]_Registry!vars
  BY <1>1, LookupCalm
<1>2. ASSUME NEW c \in Configs, Reload(c) \/ ReloadFails(c)
      PROVE  CalmInv' /\ [Registry!Next]_Registry!vars
  <2>1. ~ReloadFails(c)
    BY DEF ReloadFails, Calm
  <2> QED
    BY <1>2, <2>1, ReloadCalm
<1>3. ASSUME ReloadUnreadable \/ UNCHANGED vars
      PROVE  CalmInv' /\ [Registry!Next]_Registry!vars
  <2>1. UNCHANGED <<shardIds, nodes, cache, synced, checker>>
    BY <1>3 DEF ReloadUnreadable, vars
  <2>2. Held' = Held /\ InRound' = InRound
    BY <2>1 DEF Held, InRound, Todo
  <2>3. CalmInv'
    BY <2>1, <2>2 DEF CalmInv, AllCached, Fits, Flagged, getCacheType
  <2>4. Good' = Good
    BY <2>1 DEF Good, getObservers, Listed, getCacheType
  <2> QED
    BY <2>1, <2>2, <2>3, <2>4, SameRegistry
<1>4. CASE StartRound
  BY <1>4, StartCalm
<1>5. ASSUME NEW s \in Shards, NEW st \in Statuses, Probe(s, st)
      PROVE  CalmInv' /\ [Registry!Next]_Registry!vars
  BY <1>5, ProbeCalm
<1>6. CASE FinishRound
  BY <1>6, FinishCalm
<1>7. CASE RefreshMapping
  BY <1>7, RefreshCalm
<1> QED
  BY <1>1, <1>2, <1>3, <1>4, <1>5, <1>6, <1>7 DEF Next

\* The provider implements NodesRegistry: requests see the verdicts of whole
\* rounds only, a round asks every node in use exactly once, and a reload
\* trusts all its nodes, for every set of such files, any number of shards and
\* however lookups fill the lists meanwhile.
THEOREM RegistryIsKept ==
    ASSUME Calm
    PROVE  Spec => ImplementsRegistry
<1>1. Init => CalmInv /\ Registry!Init
  BY InitCalm
<1>2. IndInv /\ IndInv' /\ CalmInv /\ [Next]_vars => CalmInv' /\ [Registry!Next]_Registry!vars
  BY NextCalm
<1> QED
  BY <1>1, <1>2, ProviderInvariance, PTL DEF Spec, ImplementsRegistry, Registry!Spec
-----------------------------------------------------------------------------
(* The timers of the checking goroutine *)

\* While the goroutine waits, the time it has waited and the time left on the
\* timer add up; a second clean-up cannot come before the timer.
Timing ==
    /\ pc = "new" => idle = 0
    /\ pc = "select" /\ ~cleaned => idle + timer <= Delay
    /\ pc = "select" /\ cleaned => /\ idle + timer <= 2 * Delay + MaxCleanup
                                   /\ timer < cleanupTimer
    /\ pc = "cleanup" => ~cleaned /\ idle <= Delay + busy
    /\ idle <= 2 * Delay + MaxCleanup

\* Once a round was begun after Close, the timer that began it is set again and
\* time does not pass before the goroutine sees that it is to end.
Closing ==
    /\ pc = "new" => ~closed
    /\ ~closed => late = 0
    /\ late <= 1
    /\ late = 1 /\ pc = "select" => timer > 0

LoopInv == LoopTypeOK /\ Timing /\ Closing

LEMMA InitLoopInv == LoopInit => LoopInv
<1> SUFFICES ASSUME LoopInit PROVE LoopInv
  OBVIOUS
<1> USE LoopConfig DEF LoopInit
<1>1. LoopTypeOK
  <2>1. timer \in 0 .. Delay /\ cleanupTimer \in 0 .. CleanupPeriod
        /\ busy \in 0 .. MaxCleanup /\ idle \in Nat /\ late \in 0 .. 2
    BY SMT
  <2> QED BY <2>1, Zenon DEF LoopTypeOK
<1>2. Timing
  BY DEF Timing
<1>3. Closing
  BY DEF Closing
<1> QED BY <1>1, <1>2, <1>3 DEF LoopInv

LEMMA BeginRoundLoopInv ==
    ASSUME LoopInv, BeginRound, pc \in {"new", "select"},
           closed => timer = 0 /\ pc = "select"
    PROVE  LoopInv'
<1> USE LoopConfig DEF LoopInv
<1>1. LoopTypeOK'
  BY DEF BeginRound, LoopTypeOK, RoundNodes
<1>2. Timing'
  BY DEF BeginRound, Timing, LoopTypeOK
<1>3. Closing'
  BY DEF BeginRound, Closing, LoopTypeOK
<1> QED BY <1>1, <1>2, <1>3

LEMMA NextLoopInv == LoopInv /\ [LoopNext]_loopVars => LoopInv'
<1> SUFFICES ASSUME LoopInv, [LoopNext]_loopVars PROVE LoopInv'
  OBVIOUS
<1> USE LoopConfig DEF LoopInv
<1>1. CASE Start
  <2>1. ~closed
    BY <1>1 DEF Start, Closing
  <2> QED BY <1>1, <2>1, BeginRoundLoopInv DEF Start
<1>2. ASSUME NEW n \in CheckedNodes, AskNode(n) PROVE LoopInv'
  BY <1>2 DEF AskNode, LoopTypeOK, Timing, Closing
<1>3. CASE EndRound
  <2>1. timer' \in 0 .. Delay /\ idle' \in Nat
    BY <1>3 DEF EndRound
  <2>2. LoopTypeOK'
    BY <1>3, <2>1, Zenon DEF EndRound, LoopTypeOK
  <2>3. Timing'
    BY <1>3 DEF EndRound, Timing, LoopTypeOK
  <2>4. Closing'
    BY <1>3 DEF EndRound, Closing, LoopTypeOK
  <2> QED BY <2>2, <2>3, <2>4
<1>4. CASE TimerFires
  BY <1>4, BeginRoundLoopInv DEF TimerFires
<1>5. CASE BeginCleanup
  BY <1>5 DEF BeginCleanup, LoopTypeOK, Timing, Closing
<1>6. CASE EndCleanup
  BY <1>6 DEF EndCleanup, LoopTypeOK, Timing, Closing
<1>7. CASE Finish
  BY <1>7 DEF Finish, LoopTypeOK, Timing, Closing
<1>8. ASSUME NEW n \in CheckedNodes, FindsOffline(n) PROVE LoopInv'
  <2>1. LoopTypeOK'
    BY <1>8 DEF FindsOffline, LoopTypeOK, RoundNodes
  <2>2. Timing'
    BY <1>8 DEF FindsOffline, Timing, LoopTypeOK
  <2>3. Closing'
    BY <1>8 DEF FindsOffline, Closing, LoopTypeOK, Ready
  <2> QED BY <2>1, <2>2, <2>3
<1>9. CASE Close
  BY <1>9 DEF Close, LoopTypeOK, Timing, Closing
<1>10. CASE Tick
  <2>1. LoopTypeOK'
    BY <1>10 DEF Tick, LoopTypeOK
  <2>2. Timing'
    <3>1. CASE pc = "round"
      BY <1>10, <3>1 DEF Tick, Timing, LoopTypeOK
    <3>2. CASE pc = "select"
      BY <1>10, <3>2 DEF Tick, Timing, LoopTypeOK, Ready
    <3>3. CASE pc = "cleanup"
      BY <1>10, <3>3 DEF Tick, Timing, LoopTypeOK
    <3> QED BY <1>10, <3>1, <3>2, <3>3 DEF Tick
  <2>3. Closing'
    BY <1>10 DEF Tick, Closing, LoopTypeOK, Ready
  <2> QED BY <2>1, <2>2, <2>3
<1>11. CASE UNCHANGED loopVars
  BY <1>11 DEF loopVars, LoopTypeOK, Timing, Closing
<1> QED BY <1>1, <1>2, <1>3, <1>4, <1>5, <1>6, <1>7, <1>8, <1>9, <1>10, <1>11
        DEF LoopNext, Step, Stopped

LEMMA SpecLoopInv == LoopSpec => []LoopInv
BY InitLoopInv, NextLoopInv, PTL DEF LoopSpec

\* TypeOK is an invariant of handleOutOfSyncNodes for every configuration.
THEOREM LoopTypeCorrect == LoopSpec => []LoopTypeOK
<1>1. LoopInv => LoopTypeOK
  BY DEF LoopInv
<1> QED BY <1>1, SpecLoopInv, PTL

\* The bound on the time without a check round, for all durations with
\* Delay < CleanupPeriod (one minute and ten minutes in the code).
THEOREM RoundsNeverStop == LoopSpec => []RoundsKeepComing
<1>1. LoopInv => RoundsKeepComing
  BY DEF LoopInv, Timing, RoundsKeepComing
<1> QED BY <1>1, SpecLoopInv, PTL

\* After Close the goroutine begins at most one more round.
THEOREM ClosingIsPrompt == LoopSpec => []StopsSoon
<1>1. LoopInv => StopsSoon
  BY DEF LoopInv, Closing, StopsSoon
<1> QED BY <1>1, SpecLoopInv, PTL
==============================================================================
