---------------------------- MODULE CircularQueue ----------------------------
(***************************************************************************)
(* observer/circularQueueNodesProvider.go and observer/mapCounters: which    *)
(* node of a list a balanced lookup puts first.  There is one counter per    *)
(* data availability and shard, and one per availability for the list of all *)
(* nodes; whoever looks nodes up moves the counter on.                       *)
(***************************************************************************)
EXTENDS Naturals, Sequences

CONSTANTS Shards,        \* shards with a counter of their own
          AllNodes,      \* the list of all nodes
          Availability,  \* data availabilities, "all" among them
          MaxNodes       \* bound: longest list of nodes

Pools == Shards \cup {AllNodes}

ASSUME QueueConfig == /\ MaxNodes \in Nat \ {0}
                      /\ AllNodes \notin Shards
                      /\ "all" \in Availability

VARIABLES
    numNodes,   \* length of the list each lookup finds now
    position,   \* positions of a mapCounter, and its allNodesPosition
    count,      \* allNodesCount per availability
    window      \* history: the last positions given out, at most numNodes of them

vars == <<numNodes, position, count, window>>

PerPool(S) == [Availability -> [Pools -> S]]

Init == /\ numNodes \in PerPool(1..MaxNodes)
        /\ position = [av \in Availability |-> [q \in Pools |-> 0]]
        /\ count = [av \in Availability |-> 0]
        /\ window = [av \in Availability |-> [q \in Pools |-> <<>>]]
-----------------------------------------------------------------------------
\* Mutant: the counter stops at the last node.
computePositionForShard_Sticks(pos, n) == IF pos + 1 < n THEN pos + 1 ELSE pos % n

computePositionForShard(pos, n) == (pos + 1) % n

computePositionForAllNodes(cnt, pos, n) ==
    ((IF n # cnt THEN 0 ELSE pos) + 1) % n

Slide(w, pos, n) == IF Len(w) < n THEN Append(w, pos) ELSE Append(Tail(w), pos)

Moved(f, av, q, v) == [f EXCEPT ![av][q] = v]

\* A lookup that finds nodes moves the counter to the position it returns.
MoveTo(av, q, pos) ==
    /\ position' = Moved(position, av, q, pos)
    /\ window' = Moved(window, av, q, Slide(window[av][q], pos, numNodes[av][q]))

\* An API request asks for the nodes of a shard; without any the counter
\* stays and the request gets an error.
GetNodesByShardId(av, s) ==
    /\ numNodes[av][s] > 0
    /\ MoveTo(av, s, computePositionForShard(position[av][s], numNodes[av][s]))
    /\ UNCHANGED <<numNodes, count>>

GetAllNodes(av) ==
    LET n == numNodes[av][AllNodes]
    IN /\ n > 0
       /\ MoveTo(av, AllNodes, computePositionForAllNodes(count[av], position[av][AllNodes], n))
       /\ count' = [count EXCEPT ![av] = n]
       /\ UNCHANGED numNodes

\* refreshObserverToShardMapping of the checker, for one shard: it moves the
\* counter that API requests are balanced by.
RefreshMapping(s) ==
    /\ numNodes["all"][s] > 0
    /\ MoveTo("all", s, computePositionForShard(position["all"][s], numNodes["all"][s]))
    /\ UNCHANGED <<numNodes, count>>

\* External: a round of checks or a reload changes a list; its rotation
\* starts anew for the properties, not for the code.
Resize(av, q, n) ==
    /\ numNodes' = Moved(numNodes, av, q, n)
    /\ window' = Moved(window, av, q, <<>>)
    /\ UNCHANGED <<position, count>>

Next == \/ \E av \in Availability :
              \/ \E s \in Shards : GetNodesByShardId(av, s)
              \/ GetAllNodes(av)
              \/ \E q \in Pools, n \in 0..MaxNodes : Resize(av, q, n)
        \/ \E s \in Shards : RefreshMapping(s)

Spec == Init /\ [][Next]_vars
-----------------------------------------------------------------------------
(* Correctness *)

\* Every variable holds a value of its type, and a position given out is an
\* index of the list it was computed for (the code slices the list there).
TypeOK ==
    /\ numNodes \in PerPool(0..MaxNodes)
    /\ position \in PerPool(0..(MaxNodes - 1))
    /\ count \in [Availability -> 0..MaxNodes]
    /\ \A av \in Availability, q \in Pools, i \in 1..MaxNodes :
          i <= Len(window[av][q]) => window[av][q][i] < numNodes[av][q]

Different(w) == \A i, j \in DOMAIN w : w[i] = w[j] => i = j

\* As long as a list of n nodes stays the same, n lookups in a row start at n
\* different nodes, whatever the counter held when the list changed and whoever
\* asks.
RotationCoversList == \A av \in Availability, q \in Pools : Different(window[av][q])
=============================================================================
