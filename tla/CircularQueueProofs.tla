------------------------- MODULE CircularQueueProofs -------------------------
(***************************************************************************)
(* The balanced provider for lists of any length, any number of shards and  *)
(* availabilities.  A window of positions is described without the modulo:   *)
(* from one position to a later one the counter moved on by the distance, or *)
(* by the distance less the length of the list.                              *)
(***************************************************************************)
EXTENDS CircularQueue, TLAPS

Rotating(w, n) ==
    /\ w \in Seq(Nat)
    /\ Len(w) <= n
    /\ \A i \in 1..Len(w) : w[i] < n
    /\ \A i, j \in 1..Len(w) :
          i <= j => w[j] = w[i] + (j - i) \/ w[j] = w[i] + (j - i) - n

\* One counter: its window rotates and ends in the position it holds.
Cell(n, pos, w) ==
    /\ n \in 0..MaxNodes
    /\ pos \in 0..(MaxNodes - 1)
    /\ Rotating(w, n)
    /\ Len(w) > 0 => w[Len(w)] = pos

IndInv ==
    /\ numNodes \in PerPool(Nat) /\ position \in PerPool(Nat) /\ window \in PerPool(Seq(Nat))
    /\ count \in [Availability -> 0..MaxNodes]
    /\ \A av \in Availability, q \in Pools :
          Cell(numNodes[av][q], position[av][q], window[av][q])
    /\ \A av \in Availability :
          Len(window[av][AllNodes]) > 0 => count[av] = numNodes[av][AllNodes]
-----------------------------------------------------------------------------
\* The modulo of a counter that is moved on by one.
LEMMA Successor ==
    ASSUME NEW n \in Nat \ {0}, NEW p \in Nat
    PROVE  /\ (p + 1) % n \in 0..(n - 1)
           /\ p < n => (p + 1) % n = IF p + 1 = n THEN 0 ELSE p + 1
  <1>1. (p + 1) % n \in 0..(n - 1)
    OBVIOUS
  <1>2. ASSUME p < n PROVE (p + 1) % n = IF p + 1 = n THEN 0 ELSE p + 1
    <2>1. CASE p + 1 = n
      BY <2>1
    <2>2. CASE p + 1 < n
      BY <2>2
    <2> QED BY <1>2, <2>1, <2>2
  <1> QED BY <1>1, <1>2

\* A window that rotates names no position twice.
LEMMA RotatingIsDifferent ==
    ASSUME NEW n \in Nat, NEW w, Rotating(w, n)
    PROVE  Different(w)
  <1> SUFFICES ASSUME NEW i \in 1..Len(w), NEW j \in 1..Len(w), w[i] = w[j], i # j
               PROVE  FALSE
    BY DEF Different, Rotating
  <1>1. w \in Seq(Nat) /\ Len(w) \in Nat /\ Len(w) <= n /\ w[i] \in Nat
    BY DEF Rotating
  <1>2. ASSUME NEW a \in 1..Len(w), NEW b \in 1..Len(w), a < b, w[a] = w[b] PROVE FALSE
    <2>1. w[b] = w[a] + (b - a) \/ w[b] = w[a] + (b - a) - n
      BY <1>1, <1>2 DEF Rotating
    <2>2. w[a] \in Nat
      BY <1>1
    <2> QED BY <2>1, <2>2, <1>1, <1>2
  <1> QED BY <1>1, <1>2

\* The distance from an earlier position to the one after the last.
LEMMA OneFurther ==
    ASSUME NEW n \in Nat, NEW i \in Nat, NEW l \in Nat, NEW a \in Nat, NEW b \in Nat,
           1 <= i, i <= l, l < n, a < n, b < n,
           b = a + (l - i) \/ b = a + (l - i) - n,
           NEW p \in Nat, p = IF b + 1 = n THEN 0 ELSE b + 1
    PROVE  p = a + ((l + 1) - i) \/ p = a + ((l + 1) - i) - n
  <1>1. CASE b + 1 = n
    <2>1. p = 0
      BY <1>1
    <2>2. CASE b = a + (l - i)
      BY <2>1, <2>2, <1>1
    <2>3. CASE b = a + (l - i) - n
      BY <2>1, <2>3, <1>1
    <2> QED BY <2>2, <2>3
  <1>2. CASE b + 1 # n
    <2>1. p = b + 1
      BY <1>2
    <2> QED BY <2>1
  <1> QED BY <1>1, <1>2

\* A position that follows the last one of a window can be added to it.
LEMMA AppendRotates ==
    ASSUME NEW n \in Nat \ {0}, NEW w, Rotating(w, n), Len(w) < n, NEW p \in 0..(n - 1),
           Len(w) > 0 => p = IF w[Len(w)] + 1 = n THEN 0 ELSE w[Len(w)] + 1
    PROVE  /\ Rotating(Append(w, p), n)
           /\ Len(Append(w, p)) > 0
           /\ Append(w, p)[Len(Append(w, p))] = p
  <1> DEFINE x == Append(w, p)
             L == Len(w)
  <1>1. w \in Seq(Nat) /\ L \in Nat /\ \A i \in 1..L : w[i] \in Nat /\ w[i] < n
    BY DEF Rotating
  <1>2. /\ x \in Seq(Nat) /\ Len(x) = L + 1 /\ x[L + 1] = p
        /\ \A i \in 1..L : x[i] = w[i]
    BY <1>1
  <1>3. \A i, j \in 1..L : i <= j => w[j] = w[i] + (j - i) \/ w[j] = w[i] + (j - i) - n
    BY DEF Rotating
  <1> HIDE DEF x, L
  <1>4. ASSUME NEW i \in 1..(L + 1), NEW j \in 1..(L + 1), i <= j
        PROVE  x[j] = x[i] + (j - i) \/ x[j] = x[i] + (j - i) - n
    <2>1. CASE j \in 1..L
      BY <2>1, <1>1, <1>2, <1>3, <1>4
    <2>2. CASE i = L + 1 /\ j = L + 1
      BY <2>2, <1>2
    <2>3. CASE i \in 1..L /\ j = L + 1
      <3>1. L > 0 /\ L \in 1..L /\ i <= L
        BY <2>3, <1>1
      <3>2. w[L] = w[i] + (L - i) \/ w[L] = w[i] + (L - i) - n
        BY <3>1, <2>3, <1>3
      <3>3. p = IF w[L] + 1 = n THEN 0 ELSE w[L] + 1
        BY <3>1 DEF L
      <3>4. w[i] \in Nat /\ w[i] < n /\ w[L] \in Nat /\ w[L] < n /\ L < n
        BY <3>1, <2>3, <1>1 DEF L
      <3>5. i \in Nat /\ 1 <= i /\ p \in Nat /\ n \in Nat /\ L \in Nat
        BY <2>3, <1>1
      <3>6. p = w[i] + ((L + 1) - i) \/ p = w[i] + ((L + 1) - i) - n
        <4> DEFINE a == w[i]
                   b == w[L]
        <4>1. a \in Nat /\ b \in Nat /\ a < n /\ b < n /\ L < n /\ i <= L
          BY <3>1, <3>4
        <4>2. b = a + (L - i) \/ b = a + (L - i) - n
          BY <3>2
        <4>3. p = IF b + 1 = n THEN 0 ELSE b + 1
          BY <3>3
        <4> HIDE DEF a, b
        <4>4. p = a + ((L + 1) - i) \/ p = a + ((L + 1) - i) - n
          BY <4>1, <4>2, <4>3, <3>5, OneFurther
        <4> QED BY <4>4 DEF a
      <3>7. x[i] = w[i] /\ x[j] = p /\ j = L + 1
        BY <2>3, <1>2
      <3> QED BY <3>6, <3>7
    <2> QED BY <2>1, <2>2, <2>3, <1>1, <1>4
  <1>5. Rotating(x, n)
    <2>1. Len(x) <= n
      BY <1>1, <1>2 DEF L
    <2>2. ASSUME NEW i \in 1..(L + 1) PROVE x[i] < n
      <3>1. CASE i = L + 1
        BY <3>1, <1>2
      <3>2. CASE i \in 1..L
        BY <3>2, <1>1, <1>2
      <3> QED BY <3>1, <3>2, <1>1
    <2> QED BY <2>1, <2>2, <1>2, <1>4 DEF Rotating
  <1> QED BY <1>1, <1>2, <1>5 DEF x

\* A full window without its oldest position still rotates.
LEMMA TailRotates ==
    ASSUME NEW n \in Nat \ {0}, NEW w, Rotating(w, n), Len(w) > 0
    PROVE  /\ Rotating(Tail(w), n)
           /\ Len(Tail(w)) = Len(w) - 1
           /\ Len(Tail(w)) > 0 => Tail(w)[Len(Tail(w))] = w[Len(w)]
  <1>1. w \in Seq(Nat) /\ Len(w) \in Nat /\ w # <<>>
    BY DEF Rotating
  <1>2. /\ Tail(w) \in Seq(Nat) /\ Len(Tail(w)) = Len(w) - 1
        /\ \A i \in 1..(Len(w) - 1) : Tail(w)[i] = w[i + 1]
    BY <1>1
  <1>3. \A i, j \in 1..Len(w) : i <= j => w[j] = w[i] + (j - i) \/ w[j] = w[i] + (j - i) - n
    BY DEF Rotating
  <1>4. \A i \in 1..(Len(w) - 1) : Tail(w)[i] < n
    BY <1>1, <1>2 DEF Rotating
  <1>5. ASSUME NEW i \in 1..(Len(w) - 1), NEW j \in 1..(Len(w) - 1), i <= j
        PROVE  Tail(w)[j] = Tail(w)[i] + (j - i) \/ Tail(w)[j] = Tail(w)[i] + (j - i) - n
    <2>1. w[j + 1] = w[i + 1] + ((j + 1) - (i + 1)) \/ w[j + 1] = w[i + 1] + ((j + 1) - (i + 1)) - n
      BY <1>1, <1>3, <1>5
    <2>2. (j + 1) - (i + 1) = j - i
      BY <1>1
    <2> QED BY <2>1, <2>2, <1>2
  <1>6. Len(Tail(w)) <= n
    BY <1>1, <1>2 DEF Rotating
  <1>7. Rotating(Tail(w), n)
    BY <1>2, <1>4, <1>5, <1>6 DEF Rotating
  <1> QED BY <1>1, <1>2, <1>7

\* A lookup moves a counter on and its window with it.
LEMMA SlideCell ==
    ASSUME NEW n \in Nat \ {0}, NEW pos, NEW w, Cell(n, pos, w), NEW p \in 0..(n - 1),
           Len(w) > 0 => p = IF pos + 1 = n THEN 0 ELSE pos + 1
    PROVE  Cell(n, p, Slide(w, p, n)) /\ Len(Slide(w, p, n)) > 0
  <1>1. n <= MaxNodes /\ MaxNodes \in Nat /\ p \in 0..(MaxNodes - 1)
    BY QueueConfig DEF Cell
  <1>2. Rotating(w, n) /\ (Len(w) > 0 => w[Len(w)] = pos) /\ Len(w) \in Nat
    BY DEF Cell, Rotating
  <1>3. CASE Len(w) < n
    <2>1. /\ Rotating(Append(w, p), n)
          /\ Len(Append(w, p)) > 0
          /\ Append(w, p)[Len(Append(w, p))] = p
      BY <1>2, <1>3, AppendRotates
    <2> QED BY <2>1, <1>1, <1>3 DEF Cell, Slide
  <1>4. CASE ~(Len(w) < n)
    <2>1. /\ Rotating(Tail(w), n) /\ Len(Tail(w)) = Len(w) - 1
          /\ Len(Tail(w)) > 0 => Tail(w)[Len(Tail(w))] = w[Len(w)]
      BY <1>2, <1>4, TailRotates
    <2>2. Len(w) = n
      BY <1>2, <1>4 DEF Rotating
    <2>3. /\ Rotating(Append(Tail(w), p), n)
          /\ Len(Append(Tail(w), p)) > 0
          /\ Append(Tail(w), p)[Len(Append(Tail(w), p))] = p
      <3>1. Len(Tail(w)) < n
        BY <2>1, <2>2
      <3>2. Len(Tail(w)) > 0 =>
              p = IF Tail(w)[Len(Tail(w))] + 1 = n THEN 0 ELSE Tail(w)[Len(Tail(w))] + 1
        BY <2>1, <2>2, <1>2
      <3> DEFINE t == Tail(w)
      <3>3. Rotating(t, n)
        BY <2>1
      <3> HIDE DEF t
      <3> QED BY <3>1, <3>2, <3>3, AppendRotates DEF t
    <2> QED BY <2>3, <1>1, <1>4 DEF Cell, Slide
  <1> QED BY <1>3, <1>4
-----------------------------------------------------------------------------
\* Reading back a map of maps after one entry has changed.
LEMMA MovedEntry ==
    ASSUME NEW S, NEW f \in PerPool(S), NEW av \in Availability, NEW q \in Pools, NEW v \in S
    PROVE  /\ Moved(f, av, q, v) \in PerPool(S)
           /\ \A a \in Availability, r \in Pools :
                 Moved(f, av, q, v)[a][r] = IF a = av /\ r = q THEN v ELSE f[a][r]
  BY DEF Moved, PerPool

LEMMA InitInv == Init => IndInv
  <1> SUFFICES ASSUME Init PROVE IndInv
    OBVIOUS
  <1>1. \A n \in 1..MaxNodes : Cell(n, 0, <<>>)
    BY QueueConfig DEF Cell, Rotating
  <1>2. /\ numNodes \in PerPool(Nat) /\ position \in PerPool(Nat) /\ window \in PerPool(Seq(Nat))
        /\ count \in [Availability -> 0..MaxNodes]
    BY QueueConfig DEF Init, PerPool
  <1>3. ASSUME NEW av \in Availability, NEW q \in Pools
        PROVE  /\ Cell(numNodes[av][q], position[av][q], window[av][q])
               /\ window[av][q] = <<>>
    <2>1. numNodes[av][q] \in 1..MaxNodes /\ position[av][q] = 0 /\ window[av][q] = <<>>
      BY <1>3 DEF Init, PerPool
    <2> QED BY <2>1, <1>1
  <1>4. \A av \in Availability : ~(Len(window[av][AllNodes]) > 0)
    BY <1>3 DEF Pools
  <1> QED BY <1>2, <1>3, <1>4 DEF IndInv

\* A lookup of any kind: it moves one counter and leaves the others.
LEMMA MoveInv ==
    ASSUME IndInv, NEW av \in Availability, NEW q \in Pools, numNodes' = numNodes,
           numNodes[av][q] > 0, NEW p \in 0..(numNodes[av][q] - 1), MoveTo(av, q, p),
           Len(window[av][q]) > 0 =>
              p = IF position[av][q] + 1 = numNodes[av][q] THEN 0 ELSE position[av][q] + 1,
           \/ count' = count /\ q # AllNodes
           \/ q = AllNodes /\ count' = [count EXCEPT ![av] = numNodes[av][q]]
    PROVE  IndInv'
  <1> DEFINE n == numNodes[av][q]
             w == window[av][q]
             x == Slide(w, p, n)
  <1>1. n \in Nat \ {0} /\ n \in 0..MaxNodes /\ Cell(n, position[av][q], w)
    BY DEF IndInv, PerPool, Cell
  <1>2. Cell(n, p, x) /\ Len(x) > 0
    BY <1>1, SlideCell
  <1>3. x \in Seq(Nat) /\ p \in Nat
    BY <1>1, <1>2 DEF Cell, Rotating
  <1>4. /\ position' = Moved(position, av, q, p)
        /\ window' = Moved(window, av, q, x)
    BY DEF MoveTo
  <1> HIDE DEF x
  <1>5. /\ position' \in PerPool(Nat) /\ window' \in PerPool(Seq(Nat))
        /\ \A a \in Availability, r \in Pools :
              /\ position'[a][r] = IF a = av /\ r = q THEN p ELSE position[a][r]
              /\ window'[a][r] = IF a = av /\ r = q THEN x ELSE window[a][r]
    BY <1>3, <1>4, MovedEntry DEF IndInv
  <1>6. \A a \in Availability, r \in Pools : Cell(numNodes'[a][r], position'[a][r], window'[a][r])
    BY <1>2, <1>5 DEF IndInv
  <1>7. /\ count' \in [Availability -> 0..MaxNodes]
        /\ \A a \in Availability :
              Len(window'[a][AllNodes]) > 0 => count'[a] = numNodes'[a][AllNodes]
    <2>1. AllNodes \in Pools
      BY DEF Pools
    <2>2. CASE count' = count /\ q # AllNodes
      BY <2>1, <2>2, <1>5 DEF IndInv
    <2>3. CASE q = AllNodes /\ count' = [count EXCEPT ![av] = numNodes[av][q]]
      BY <2>1, <2>3, <1>1, <1>5 DEF IndInv
    <2> QED BY <2>2, <2>3
  <1> QED BY <1>5, <1>6, <1>7 DEF IndInv

LEMMA NextInv == IndInv /\ [Next]_vars => IndInv'
  <1> SUFFICES ASSUME IndInv, [Next]_vars PROVE IndInv'
    OBVIOUS
  <1>1. \A av \in Availability, q \in Pools :
           /\ numNodes[av][q] \in Nat /\ position[av][q] \in Nat
           /\ Len(window[av][q]) > 0 => position[av][q] < numNodes[av][q]
    <2> SUFFICES ASSUME NEW av \in Availability, NEW q \in Pools
                 PROVE  /\ numNodes[av][q] \in Nat /\ position[av][q] \in Nat
                        /\ Len(window[av][q]) > 0 => position[av][q] < numNodes[av][q]
      OBVIOUS
    <2>1. Cell(numNodes[av][q], position[av][q], window[av][q])
      BY DEF IndInv
    <2>2. Len(window[av][q]) \in Nat
      BY <2>1 DEF Cell, Rotating
    <2> QED BY <2>1, <2>2, QueueConfig DEF Cell, Rotating
  <1>2. ASSUME NEW av \in Availability, NEW s \in Shards, numNodes[av][s] > 0,
               MoveTo(av, s, computePositionForShard(position[av][s], numNodes[av][s])),
               UNCHANGED <<numNodes, count>>
        PROVE  IndInv'
    <2> DEFINE p == computePositionForShard(position[av][s], numNodes[av][s])
    <2>1. s \in Pools /\ s # AllNodes
      BY QueueConfig DEF Pools
    <2>2. /\ p \in 0..(numNodes[av][s] - 1)
          /\ Len(window[av][s]) > 0 =>
                p = IF position[av][s] + 1 = numNodes[av][s] THEN 0 ELSE position[av][s] + 1
      <3> DEFINE n == numNodes[av][s]
                 c == position[av][s]
      <3>1. n \in Nat \ {0} /\ c \in Nat /\ (Len(window[av][s]) > 0 => c < n)
        BY <2>1, <1>1, <1>2
      <3>2. p = (c + 1) % n
        BY DEF computePositionForShard
      <3> HIDE DEF p, c, n
      <3>3. p \in 0..(n - 1) /\ (Len(window[av][s]) > 0 => p = IF c + 1 = n THEN 0 ELSE c + 1)
        BY <3>1, <3>2, Successor
      <3> QED BY <3>3 DEF c, n
    <2> HIDE DEF p
    <2>3. MoveTo(av, s, p)
      BY <1>2 DEF p
    <2> QED BY <2>1, <2>2, <2>3, <1>2, MoveInv
  <1>3. ASSUME NEW av \in Availability, GetAllNodes(av) PROVE IndInv'
    <2> DEFINE n == numNodes[av][AllNodes]
               p == computePositionForAllNodes(count[av], position[av][AllNodes], n)
               from == IF n # count[av] THEN 0 ELSE position[av][AllNodes]
    <2>1. AllNodes \in Pools
      BY DEF Pools
    <2>2. n \in Nat \ {0} /\ position[av][AllNodes] \in Nat
      BY <2>1, <1>1, <1>3 DEF GetAllNodes
    <2>3. p = (from + 1) % n /\ from \in Nat
      BY <2>2 DEF computePositionForAllNodes
    <2>4. Len(window[av][AllNodes]) > 0 => from = position[av][AllNodes] /\ from < n
      BY <2>1, <1>1 DEF IndInv
    <2>5. MoveTo(av, AllNodes, p) /\ count' = [count EXCEPT ![av] = n] /\ numNodes' = numNodes
      BY <1>3 DEF GetAllNodes
    <2> HIDE DEF p, from
    <2>6. /\ p \in 0..(n - 1)
          /\ Len(window[av][AllNodes]) > 0 =>
                p = IF position[av][AllNodes] + 1 = n THEN 0 ELSE position[av][AllNodes] + 1
      BY <2>2, <2>3, <2>4, Successor
    <2>7. n > 0
      BY <2>2
    <2> QED BY <2>1, <2>5, <2>6, <2>7, MoveInv
  <1>4. ASSUME NEW av \in Availability, NEW q \in Pools, NEW n \in 0..MaxNodes, Resize(av, q, n)
        PROVE  IndInv'
    <2>1. n \in Nat /\ <<>> \in Seq(Nat)
      BY QueueConfig
    <2>2. /\ numNodes' = Moved(numNodes, av, q, n)
          /\ window' = Moved(window, av, q, <<>>)
          /\ UNCHANGED <<position, count>>
      BY <1>4 DEF Resize
    <2>3. /\ numNodes' \in PerPool(Nat)
          /\ \A a \in Availability, r \in Pools :
                numNodes'[a][r] = IF a = av /\ r = q THEN n ELSE numNodes[a][r]
      BY <2>1, <2>2, MovedEntry DEF IndInv
    <2>4. /\ window' \in PerPool(Seq(Nat))
          /\ \A a \in Availability, r \in Pools :
                window'[a][r] = IF a = av /\ r = q THEN <<>> ELSE window[a][r]
      <3> DEFINE S == Seq(Nat)
                 e == <<>>
      <3>1. e \in S /\ window \in PerPool(S) /\ window' = Moved(window, av, q, e)
        BY <2>1, <2>2 DEF IndInv
      <3> HIDE DEF S, e
      <3>2. /\ window' \in PerPool(S)
            /\ \A a \in Availability, r \in Pools :
                  window'[a][r] = IF a = av /\ r = q THEN e ELSE window[a][r]
        BY <3>1, MovedEntry
      <3> QED BY <3>2 DEF S, e
    <2>5. \A a \in Availability, r \in Pools :
             Cell(numNodes[a][r], position[a][r], window[a][r])
      BY DEF IndInv
    <2>6. Cell(n, position[av][q], <<>>)
      BY <2>1, <2>5 DEF Cell, Rotating
    <2>7. \A a \in Availability, r \in Pools : Cell(numNodes'[a][r], position'[a][r], window'[a][r])
      BY <2>2, <2>3, <2>4, <2>5, <2>6
    <2>8. \A a \in Availability :
             Len(window'[a][AllNodes]) > 0 => count'[a] = numNodes'[a][AllNodes]
      <3>1. AllNodes \in Pools /\ Len(<<>>) = 0
        BY DEF Pools
      <3> QED BY <3>1, <2>2, <2>3, <2>4 DEF IndInv
    <2> QED BY <2>2, <2>3, <2>4, <2>7, <2>8 DEF IndInv
  <1>5. CASE UNCHANGED vars
    BY <1>5 DEF vars, IndInv
  <1>6. ASSUME NEW av \in Availability, NEW s \in Shards, GetNodesByShardId(av, s) PROVE IndInv'
    BY <1>2, <1>6 DEF GetNodesByShardId
  <1>7. ASSUME NEW s \in Shards, RefreshMapping(s) PROVE IndInv'
    BY <1>2, <1>7, QueueConfig DEF RefreshMapping
  <1> QED BY <1>3, <1>4, <1>5, <1>6, <1>7 DEF Next

LEMMA Invariance == Spec => []IndInv
  BY InitInv, NextInv, PTL DEF Spec
-----------------------------------------------------------------------------
\* Every position a lookup returns is an index of the list it was computed for
\* (circularQueueNodesProvider.go slices the list there), whatever the lists'
\* lengths are and however they change.
THEOREM TypeCorrect == Spec => []TypeOK
  <1>1. IndInv => TypeOK
    <2> SUFFICES ASSUME IndInv PROVE TypeOK
      OBVIOUS
    <2>1. \A av \in Availability, q \in Pools :
             Cell(numNodes[av][q], position[av][q], window[av][q])
      BY DEF IndInv
    <2>2. numNodes \in PerPool(0..MaxNodes) /\ position \in PerPool(0..(MaxNodes - 1))
      <3>1. \A av \in Availability, q \in Pools :
               numNodes[av][q] \in 0..MaxNodes /\ position[av][q] \in 0..(MaxNodes - 1)
        BY <2>1 DEF Cell
      <3> QED BY <3>1 DEF IndInv, PerPool
    <2>3. ASSUME NEW av \in Availability, NEW q \in Pools, NEW i \in 1..MaxNodes,
                 i <= Len(window[av][q])
          PROVE  window[av][q][i] < numNodes[av][q]
      <3>1. Rotating(window[av][q], numNodes[av][q])
        BY <2>1 DEF Cell
      <3>2. Len(window[av][q]) \in Nat
        BY <3>1 DEF Rotating
      <3>3. i \in 1..Len(window[av][q])
        BY <3>2, <2>3, QueueConfig
      <3> QED BY <3>1, <3>3 DEF Rotating
    <2> QED BY <2>2, <2>3 DEF TypeOK, IndInv
  <1> QED BY <1>1, Invariance, PTL

\* n lookups in a row of a list of n nodes start at n different nodes, for
\* every n, every value a counter had before and whoever asks.
THEOREM RotationIsFair == Spec => []RotationCoversList
  <1>1. IndInv => RotationCoversList
    <2> SUFFICES ASSUME IndInv, NEW av \in Availability, NEW q \in Pools
                 PROVE  Different(window[av][q])
      BY DEF RotationCoversList
    <2>1. Cell(numNodes[av][q], position[av][q], window[av][q])
      BY DEF IndInv
    <2>2. numNodes[av][q] \in Nat /\ Rotating(window[av][q], numNodes[av][q])
      BY <2>1, QueueConfig DEF Cell
    <2> QED BY <2>2, RotatingIsDifferent
  <1> QED BY <1>1, Invariance, PTL
=============================================================================
