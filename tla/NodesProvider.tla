---------------------------- MODULE NodesProvider ----------------------------
(***************************************************************************)
(* observer/baseNodeProvider.go and observer/holder/nodesHolder.go: the     *)
(* nodes of each shard with their IsSynced flag, in a holder for regular    *)
(* and one for snapshotless nodes; each holder computes its four lists per  *)
(* shard when first asked and caches them until its nodes are replaced.     *)
(*                                                                          *)
(* Three kinds of goroutine meet here: the checker of                       *)
(* process/baseProcessor.go (handleNodes), which writes the flags of nodes  *)
(* in use one by one and without a lock while it waits for their status;    *)
(* API requests, which read the lists; and the reload endpoint.  A node     *)
(* object is an entry of a configuration (the node and its place) with the  *)
(* number of the (re)load that created it.                                  *)
(***************************************************************************)
EXTENDS Naturals, Sequences, FiniteSets

CONSTANTS Configs,           \* configurations: sequences of nodes
          NumShards,         \* shards 0..NumShards-1, from the network configuration
          Meta,              \* the metachain's shard number, above all others
          Gens,              \* numbers for (re)loads, used again when free
          Nil, NotCached,    \* no holder; no cached list
          Statuses,          \* what a node's status request can come back with
          NonceMod,          \* nonces are unsigned integers modulo NonceMod
          SyncThreshold,     \* nodeSyncedNonceDifferenceThreshold
          ReloadDuringRound  \* FALSE: nobody reloads while the checker is working

Shards == 0..Meta
Nodes  == UNION {{c[i] : i \in DOMAIN c} : c \in Configs}

Availability == {"all", "recent"}  \* regular holder, snapshotless holder
CacheTypes   == {"synced", "syncedFallback", "outOfSync", "outOfSyncFallback"}
Keys         == Availability \X CacheTypes \X Shards
Objects      == [node : Nodes, entry : UNION {DOMAIN c : c \in Configs}, gen : Gens]

ASSUME ProviderConfig ==
    /\ NumShards \in Nat /\ Meta \in Nat /\ NumShards <= Meta
    /\ NonceMod \in Nat \ {0} /\ SyncThreshold \in 1..NonceMod
    /\ Nodes \subseteq [addr : {n.addr : n \in Nodes}, shard : Shards,
                        fallback : BOOLEAN, snapshotless : BOOLEAN]
    /\ Statuses \subseteq [answered : BOOLEAN, vmReady : BOOLEAN,
                           nonce : 0..(NonceMod - 1), highest : 0..(NonceMod - 1)]
    /\ ReloadDuringRound \in BOOLEAN
    /\ Configs \subseteq Seq(Nodes)
    /\ Nil \notin [Shards -> Seq(Objects)] /\ NotCached \notin Seq(Objects)

\* At most four loads are alive: one per holder and one per kind of node in
\* the running round.
ASSUME SpareGen ==
    /\ Gens # {}
    /\ \A a, b, c, d \in Gens : \E g \in Gens : g \notin {a, b, c, d}

VARIABLES
    shardIds,  \* shards of the configuration in use
    nodes,     \* allNodes of the two holders, or Nil
    cache,     \* the cached lists
    synced,    \* the objects whose IsSynced is true
    checker,   \* the checker: where it is, nodes to ask, nodes asked, shards to map
    answer,    \* what the last reload reported
    loaded     \* history: the configuration of the last successful (re)load

vars == <<shardIds, nodes, cache, synced, checker, answer, loaded>>

Elems(q)   == {q[i] : i \in DOMAIN q}

Distinct(q) == \A i, j \in DOMAIN q : q[i] = q[j] => i = j

\* The elements of q that are in S, in the order of q.
Keep(q, S) ==
    LET at == {i \in DOMAIN q : q[i] \in S}
    IN [k \in 1..Cardinality(at) |->
            q[CHOOSE i \in at : Cardinality({j \in at : j <= i}) = k]]

Crashed    == checker.pc = "crashed"
HeldBy(ns) == UNION {Elems(ns[h][s]) : h \in {a \in Availability : ns[a] # Nil}, s \in Shards}
Held       == HeldBy(nodes)
Todo       == UNION {Elems(checker.todo[s]) : s \in Shards}
InRound    == Todo \cup Elems(checker.done)
-----------------------------------------------------------------------------
(* The holders *)

IsNodeValid(n, h) == n.snapshotless <=> h = "recent"

ConfigShards(c) == {c[i].shard : i \in DOMAIN c}

\* computeInitialNodeList: the nodes in configuration order, fallbacks last.
InitialNodes(c, h, g) ==
    LET entries == [i \in DOMAIN c |-> [node |-> c[i], entry |-> i, gen |-> g]]
        of(s, f) == {o \in Elems(entries) : /\ IsNodeValid(o.node, h)
                                            /\ o.node.shard = s
                                            /\ o.node.fallback = f}
    IN [s \in Shards |-> Keep(entries, of(s, FALSE)) \o Keep(entries, of(s, TRUE))]

getCacheType(o) ==
    IF o.node.fallback
    THEN IF o \in synced THEN "syncedFallback" ELSE "outOfSyncFallback"
    ELSE IF o \in synced THEN "synced" ELSE "outOfSync"

\* The nodes of a list, as the flags are now.
Listed(h, t, s) == Keep(nodes[h][s], {o \in Elems(nodes[h][s]) : getCacheType(o) = t})

\* Mutant: lists are never cached.
getObservers_NoCache(h, t, s) ==
    IF nodes[h] = Nil THEN <<>>
    ELSE Listed(h, t, s)

\* The list a holder returns; a nil holder has no list (see Panics).
getObservers(h, t, s) ==
    IF cache[<<h, t, s>>] # NotCached THEN cache[<<h, t, s>>]
    ELSE IF nodes[h] = Nil THEN <<>>
    ELSE Listed(h, t, s)

\* Mutant: an empty list is not kept.
Filled_SkipsEmpty(keys) ==
    [k \in Keys |-> IF k \in keys /\ getObservers(k[1], k[2], k[3]) # <<>>
                    THEN getObservers(k[1], k[2], k[3]) ELSE cache[k]]

\* What is in the cache once the lists of keys have been asked for.
Filled(keys) ==
    [k \in Keys |-> IF k \in keys THEN getObservers(k[1], k[2], k[3]) ELSE cache[k]]
-----------------------------------------------------------------------------
(* Lookups: getSyncedNodesForShardUnprotected *)

Tiers == <<"synced", "syncedFallback", "outOfSync", "outOfSyncFallback">>

getNodesByType(av, t, s) ==
    LET snapshotless == getObservers("recent", t, s)
    IN IF av = "recent" /\ snapshotless # <<>>
       THEN snapshotless
       ELSE getObservers("all", t, s)

\* A tier is tried when the ones before it are empty.
Tried(av, s) == {i \in DOMAIN Tiers :
                    \A j \in 1..(i - 1) : getNodesByType(av, Tiers[j], s) = <<>>}

\* The lists read on the way.
Read(av, s) ==
    UNION {{k \in {<<"recent", Tiers[i], s>>} : av = "recent"}
           \cup {k \in {<<"all", Tiers[i], s>>} :
                    ~(av = "recent" /\ getObservers("recent", Tiers[i], s) # <<>>)}
           : i \in Tried(av, s)}

\* Asking a nil holder dereferences it; it is asked in the first tier or never.
Panics(av, s)  == nodes["all"] = Nil /\ \E k \in Read(av, s) : k[1] = "all"
Touched(av, s) == IF Panics(av, s)
                  THEN Read(av, s) \cap {<<"recent", "synced", s>>}
                  ELSE Read(av, s)

\* The nodes a lookup answers with; none means ErrShardNotAvailable.
Served(av, s) ==
    LET hits == {i \in Tried(av, s) : getNodesByType(av, Tiers[i], s) # <<>>}
    IN IF hits = {} \/ Panics(av, s) THEN <<>>
       ELSE getNodesByType(av, Tiers[CHOOSE i \in hits : TRUE], s)

\* GetNodesByShardId.  In a request's goroutine a panic ends that request only.
Lookup(av, s) ==
    /\ ~Crashed
    /\ cache' = Filled(Touched(av, s))
    /\ UNCHANGED <<shardIds, nodes, synced, checker, answer, loaded>>

\* GetAllNodes: shard after shard, up to the first without nodes.
LookupAll(av) ==
    LET reached == {s \in shardIds : \A r \in shardIds : r < s => Served(av, r) # <<>>}
    IN /\ ~Crashed
       /\ cache' = Filled(UNION {Touched(av, s) : s \in reached})
       /\ UNCHANGED <<shardIds, nodes, synced, checker, answer, loaded>>
-----------------------------------------------------------------------------
(* Reloads *)

\* initNodes, at start only.
ValidConfig(c) ==
    /\ c # <<>>
    /\ \A s \in ConfigShards(c) :
          /\ s < NumShards \/ s = Meta
          /\ \E i \in DOMAIN c : c[i].shard = s /\ ~c[i].snapshotless

Fresh == CHOOSE g \in Gens : \A o \in Held \cup InRound : o.gen # g

HasRegular(c) == \E i \in DOMAIN c : ~c[i].snapshotless

ReloadAllowed == ~Crashed /\ (ReloadDuringRound \/ checker.pc = "idle")

\* Mutant: the new nodes come with the old cached lists.
Reload_KeepsCache(c) ==
    LET new == [h \in Availability |-> InitialNodes(c, h, Fresh)]
    IN /\ ReloadAllowed
       /\ HasRegular(c)
       /\ shardIds' = ConfigShards(c)
       /\ nodes' = new
       /\ synced' = HeldBy(new) \cup (synced \cap InRound)
       /\ answer' = "Reloaded configuration"
       /\ loaded' = c
       /\ UNCHANGED <<cache, checker>>

Reload(c) ==
    LET new == [h \in Availability |-> InitialNodes(c, h, Fresh)]
    IN /\ ReloadAllowed
       /\ HasRegular(c)
       /\ shardIds' = ConfigShards(c)
       /\ nodes' = new
       /\ cache' = [k \in Keys |-> NotCached]
       /\ synced' = HeldBy(new) \cup (synced \cap InRound)
       /\ answer' = "Reloaded configuration"
       /\ loaded' = c
       /\ UNCHANGED checker

\* Mutant: the error of NewNodesHolder is not looked at.
ReloadFails_ErrorIgnored(c) ==
    /\ ReloadAllowed
    /\ ~HasRegular(c)
    /\ shardIds' = ConfigShards(c)
    /\ nodes' = [nodes EXCEPT !["all"] = Nil]
    /\ cache' = [k \in Keys |-> IF k[1] = "all" THEN NotCached ELSE cache[k]]
    /\ synced' = synced \cap (HeldBy(nodes') \cup InRound)
    /\ answer' = "Reloaded configuration"
    /\ UNCHANGED <<checker, loaded>>

\* Without a regular node NewNodesHolder fails, after shardIds was replaced,
\* and its nil result replaces the regular holder.
ReloadFails(c) ==
    /\ ReloadAllowed
    /\ ~HasRegular(c)
    /\ shardIds' = ConfigShards(c)
    /\ nodes' = [nodes EXCEPT !["all"] = Nil]
    /\ cache' = [k \in Keys |-> IF k[1] = "all" THEN NotCached ELSE cache[k]]
    /\ synced' = synced \cap (HeldBy(nodes') \cup InRound)
    /\ answer' = "not reloaded"
    /\ UNCHANGED <<checker, loaded>>

\* The configuration file cannot be read.
ReloadUnreadable ==
    /\ ReloadAllowed
    /\ answer' = "not reloaded"
    /\ UNCHANGED <<shardIds, nodes, cache, synced, checker, loaded>>
-----------------------------------------------------------------------------
(* The checker *)

Idle == [pc |-> "idle", todo |-> [s \in Shards |-> <<>>], done |-> <<>>, shards |-> {}]
Dead == [Idle EXCEPT !.pc = "crashed"]

\* Mutant: the difference of the nonces is trusted.
IsNodeSynced_NoWrapTest(st) ==
    /\ st.answered
    /\ (st.highest + NonceMod - st.nonce) % NonceMod < SyncThreshold
    /\ st.vmReady

\* isNodeSynced: the unsigned difference wraps around when the node is ahead.
IsNodeSynced(st) ==
    /\ st.answered
    /\ \/ st.highest <= st.nonce
       \/ (st.highest + NonceMod - st.nonce) % NonceMod < SyncThreshold
    /\ st.vmReady

\* The lists of a shard, in the order the round asks for their nodes.
RoundList(s) ==
    LET of(h) == getObservers(h, "synced", s) \o getObservers(h, "outOfSync", s) \o
                 getObservers(h, "syncedFallback", s) \o
                 getObservers(h, "outOfSyncFallback", s)
    IN of("all") \o of("recent")

\* The lists of every shard; they are worked off in ascending order.
GetAllNodesWithSyncState ==
    [s \in Shards |-> IF s \in shardIds THEN RoundList(s) ELSE <<>>]

\* Reads all lists of all shards; outside of a request a panic ends the process.
StartRound ==
    /\ checker.pc = "idle"
    /\ \/ /\ nodes["all"] = Nil /\ shardIds # {}
          /\ checker' = Dead
          /\ UNCHANGED cache
       \/ /\ ~(nodes["all"] = Nil /\ shardIds # {})
          /\ cache' = Filled({k \in Keys : k[3] \in shardIds})
          /\ checker' = [Idle EXCEPT !.pc = "ask", !.todo = GetAllNodesWithSyncState]
    /\ UNCHANGED <<shardIds, nodes, synced, answer, loaded>>

\* getNodesWithSyncStatus: one status request, one flag.
Probe(s, st) ==
    LET o == Head(checker.todo[s])
    IN /\ checker.pc = "ask"
       /\ checker.todo[s] # <<>>
       /\ \A r \in Shards : r < s => checker.todo[r] = <<>>
       /\ synced' = IF IsNodeSynced(st) THEN synced \cup {o} ELSE synced \ {o}
       /\ checker' = [checker EXCEPT !.todo[s] = Tail(@), !.done = Append(@, o)]
       /\ UNCHANGED <<shardIds, nodes, cache, answer, loaded>>

\* splitNodesByDataAvailability, for one holder.
Split(h) == Keep(checker.done, {o \in Elems(checker.done) : IsNodeValid(o.node, h)})

\* What a holder makes of the nodes it is given.
ByShard(q) == [s \in Shards |-> Keep(q, {o \in Elems(q) : o.node.shard = s})]

\* Mutant: the new nodes join the old ones.
UpdateNodes_KeepsOld ==
    /\ nodes' = [h \in Availability |->
                    IF Split(h) = <<>> THEN nodes[h]
                    ELSE [s \in Shards |-> nodes[h][s] \o ByShard(Split(h))[s]]]
    /\ cache' = [k \in Keys |-> IF Split(k[1]) = <<>> THEN cache[k] ELSE NotCached]

\* A holder that gets no node keeps what it has.
UpdateNodes ==
    /\ nodes' = [h \in Availability |->
                    IF Split(h) = <<>> THEN nodes[h]
                    ELSE ByShard(Split(h))]
    /\ cache' = [k \in Keys |-> IF Split(k[1]) = <<>> THEN cache[k] ELSE NotCached]

FinishRound ==
    /\ checker.pc = "ask"
    /\ \A s \in Shards : checker.todo[s] = <<>>
    /\ \/ /\ nodes["all"] = Nil /\ Split("all") # <<>>
          /\ checker' = Dead
          /\ UNCHANGED <<nodes, cache>>
       \/ /\ ~(nodes["all"] = Nil /\ Split("all") # <<>>)
          /\ UpdateNodes
          /\ checker' = [Idle EXCEPT !.pc = "map",
                                     !.shards = {s \in Shards : s < NumShards \/ s = Meta}]
    /\ synced' = synced \cap HeldBy(nodes')
    /\ UNCHANGED <<shardIds, answer, loaded>>

\* refreshObserverToShardMapping looks every shard up.  Nothing reads the map
\* it builds, so only the lookups are modelled.
RefreshMapping ==
    /\ checker.pc = "map"
    /\ LET s == CHOOSE s \in checker.shards : \A r \in checker.shards : s <= r
           left == checker.shards \ {s}
       IN /\ cache' = Filled(Touched("all", s))
          /\ checker' = IF Panics("all", s) THEN Dead
                        ELSE IF left = {} THEN Idle
                        ELSE [checker EXCEPT !.shards = left]
    /\ UNCHANGED <<shardIds, nodes, synced, answer, loaded>>
-----------------------------------------------------------------------------
Init ==
    \E c \in Configs, g \in Gens :
        /\ ValidConfig(c)
        /\ \A f \in Gens : g <= f
        /\ shardIds = ConfigShards(c)
        /\ nodes = [h \in Availability |-> InitialNodes(c, h, g)]
        /\ cache = [k \in Keys |-> NotCached]
        /\ synced = Held
        /\ checker = Idle
        /\ answer = "none"
        /\ loaded = c

Next == \/ \E av \in Availability : LookupAll(av) \/ \E s \in Shards : Lookup(av, s)
        \/ \E c \in Configs : Reload(c) \/ ReloadFails(c)
        \/ ReloadUnreadable
        \/ StartRound
        \/ \E s \in Shards, st \in Statuses : Probe(s, st)
        \/ FinishRound
        \/ RefreshMapping

Spec == Init /\ [][Next]_vars
-----------------------------------------------------------------------------
(* Correctness *)

\* Every variable holds a value of its type; lists hold known objects.
TypeOK ==
    /\ shardIds \subseteq Shards
    /\ nodes \in [Availability -> [Shards -> Seq(Objects)] \cup {Nil}]
    /\ cache \in [Keys -> Seq(Objects) \cup {NotCached}]
    /\ \A k \in Keys : cache[k] # NotCached => Elems(cache[k]) \subseteq Held
    /\ synced \subseteq Held \cup InRound
    /\ checker \in [pc : {"idle", "ask", "map", "crashed"},
                    todo : [Shards -> Seq(Objects)], done : Seq(Objects),
                    shards : SUBSET Shards]
    /\ checker.pc # "ask" => InRound = {}
    /\ checker.pc = "map" => checker.shards # {}
    /\ answer \in {"none", "Reloaded configuration", "not reloaded"}
    /\ loaded \in Configs

\* Although the four lists of a shard are computed and cached at different
\* moments while the checker rewrites the flags they are made of, every node
\* is in exactly one of them: no request loses a node or meets it twice.
ListedOnce ==
    \A h \in Availability, s \in Shards :
        nodes[h] # Nil =>
            \A o \in Elems(nodes[h][s]) :
                \E t \in CacheTypes :
                    /\ o \in Elems(getObservers(h, t, s))
                    /\ \A u \in CacheTypes \ {t} : o \notin Elems(getObservers(h, u, s))

\* However rounds and reloads interleave, a node is held once, by the holder
\* of its kind and under its own shard.
HeldOnce ==
    \A h \in Availability, s \in Shards :
        nodes[h] # Nil =>
            LET q == nodes[h][s]
            IN /\ \A i \in DOMAIN q : IsNodeValid(q[i].node, h) /\ q[i].node.shard = s
               /\ Distinct(q)

\* After a reload that reported success the checker never brings the process
\* down, whatever reloads failed before and whatever round was running.
ReloadedIsSafe == answer = "Reloaded configuration" => ~Crashed

\* A status request leaves its node marked as synced exactly when the node
\* answered, is ready for queries and is less than SyncThreshold blocks behind
\* in unbounded arithmetic, whatever way the unsigned subtraction wraps.
SyncRule ==
    [][\A s \in Shards, st \in Statuses :
           Probe(s, st) => (Head(checker.todo[s]) \in synced' <=>
                                /\ st.answered /\ st.vmReady
                                /\ st.highest < st.nonce + SyncThreshold)]_vars

NodesOf(os) == {o.node : o \in os}

\* What the lists offer as synced.
Good == UNION {Elems(getObservers(h, t, s)) : h \in Availability, s \in Shards,
                                              t \in {"synced", "syncedFallback"}}

\* The provider keeps the promise of NodesRegistry: requests see the verdicts
\* of whole rounds only, and every round asks every node exactly once.
Registry == INSTANCE NodesRegistry WITH
    Configs <- {Elems(c) : c \in Configs},
    config  <- NodesOf(Held),
    good    <- NodesOf(Good),
    asked   <- NodesOf(Elems(checker.done)),
    passed  <- NodesOf(Elems(checker.done) \cap synced),
    phase   <- IF checker.pc = "ask" THEN "checking" ELSE "idle"

ImplementsRegistry == Registry!Spec

\* "Reloaded configuration. New configuration: ...": the nodes in use are
\* those of the last configuration reported as loaded.
ReloadIsKept == NodesOf(Held) = Elems(loaded)
=============================================================================
