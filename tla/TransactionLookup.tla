-------------------------- MODULE TransactionLookup --------------------------
(***************************************************************************)
(* How the proxy puts a transaction together from several shards:           *)
(* getTxFromObservers and getTxWithSenderAddr of                            *)
(* process/transactionProcessor.go.                                         *)
(*                                                                          *)
(* A transaction is known to the shards of its sender and its receiver, and *)
(* so is every smart contract result (SCR) it produced; SCRs lead to more   *)
(* shards.  The lookup asks shard after shard for the transaction, merges   *)
(* the answers of the source and the destination shard and then, in passes  *)
(* over a map of shards, fetches SCRs until no shard they mention is left.  *)
(* Meanwhile the chain goes on, and shards learn of more SCRs.              *)
(*                                                                          *)
(* The list of nodes of a shard is walked in one step: somebody answered,   *)
(* or nobody did.                                                           *)
(***************************************************************************)
EXTENDS Naturals, FiniteSets

CONSTANTS Shards, SCRs,
          Tx,          \* the transaction
          None         \* "no entry" in the map of shards

Items == SCRs \cup {Tx}

ASSUME LookupConfig ==
    /\ IsFiniteSet(Shards)
    /\ Tx \notin SCRs /\ None \notin Items

VARIABLES
    snd, rcv,    \* external: the shards of sender and receiver of each item
    know,        \* external: <<s, i>>: shard s has item i
    entry,       \* "hash": getTxFromObservers, "sender": getTxWithSenderAddr
    withResults,
    pc,
    toAsk,       \* shards not asked for the transaction yet
    scrs,        \* SmartContractResults of the transaction to be returned
    hash,        \* shardIDWasFetch: the hash to ask a shard with, None if no key
    fetched,     \* shardIDWasFetch: the shards whose entry says fetched
    pass,        \* shards left in the running pass over the map
    result,      \* what the request returned
    \* history
    know0,       \* what the shards had when the request arrived
    missed,      \* shards whose SCRs were asked for and nobody answered
    passes       \* passes over the map

chain   == <<snd, rcv, know, know0>>
request == <<entry, withResults>>
vars == <<chain, request, pc, toAsk, scrs, hash, fetched, pass, result, missed, passes>>

Touches(i) == {snd[i], rcv[i]}

\* An item reaches the sender's shard first.
Consistent(k) == \A i \in Items : <<rcv[i], i>> \in k => <<snd[i], i>> \in k

Init ==
    /\ snd \in [Items -> Shards] /\ rcv \in [Items -> Shards]
    /\ know \in SUBSET {si \in Shards \X Items : si[1] \in Touches(si[2])}
    /\ Consistent(know)
    /\ know0 = know
    /\ entry \in {"hash", "sender"} /\ withResults \in BOOLEAN
    /\ toAsk \in IF entry = "hash" THEN {Shards} ELSE {{s} : s \in Shards}
    /\ pc = "ask"
    /\ scrs = {}
    /\ hash = [s \in Shards |-> None]
    /\ fetched = {} /\ pass = {} /\ missed = {} /\ passes = 0
    /\ result = "none"
-----------------------------------------------------------------------------
\* External: the SCRs of the transaction a shard returns.
ScrsAt(s) == {x \in SCRs : <<s, x>> \in know}

\* The SCRs in the answer to a request for the transaction.
Answer(s) == IF withResults THEN ScrsAt(s) ELSE {}

Return(r) == pc' = "done" /\ result' = r

\* Mutants: only the receivers' shards are added; the hash of an entry that is
\* there is replaced.
extraShardFromSCRs_Receivers(h, S) ==
    {g \in [Shards -> Items \cup {None}] :
        \A s \in Shards :
            LET new == {x \in S : s = rcv[x]}
            IN IF h[s] # None \/ new = {} THEN g[s] = h[s] ELSE g[s] \in new}

extraShardFromSCRs_AnyHash(h, S) ==
    {g \in [Shards -> Items \cup {None}] :
        \A s \in Shards :
            IF h[s] # None \/ \A x \in S : s \notin Touches(x) THEN g[s] = h[s]
                                                               ELSE g[s] \in S}

\* The map with an entry more for every shard that the SCRs mention and that
\* has none.  The order of the SCRs, and so the hash, is not determined.
extraShardFromSCRs(h, S) ==
    {g \in [Shards -> Items \cup {None}] :
        \A s \in Shards :
            LET new == {x \in S : s \in Touches(x)}
            IN IF h[s] # None \/ new = {} THEN g[s] = h[s] ELSE g[s] \in new}

\* Mutant: a pass skips nothing that has been fetched.
Unfetched_All(h, f) == {s \in Shards : h[s] # None}

Unfetched(h, f) == {s \in Shards : h[s] # None /\ s \notin f}

\* The head of the loop of fetchSCRSBasedOnShardMap.
TestMap(h, f) ==
    /\ pass' = Unfetched(h, f)
    /\ IF pass' = {} THEN Return("found") /\ UNCHANGED passes
                     ELSE pc' = "fetch" /\ passes' = passes + 1 /\ UNCHANGED result

\* Nobody is configured for the shard, or nobody there has the transaction.
NoNodes(s) ==
    /\ pc = "ask" /\ s \in toAsk
    /\ Return("error")
    /\ UNCHANGED <<chain, request, toAsk, scrs, hash, fetched, pass, missed, passes>>

NotThere(s) ==
    /\ pc = "ask" /\ s \in toAsk
    /\ toAsk' = toAsk \ {s}
    /\ IF toAsk' = {} THEN Return("notfound") ELSE UNCHANGED <<pc, result>>
    /\ UNCHANGED <<chain, request, scrs, hash, fetched, pass, missed, passes>>

\* getTxFromObservers: shard s answers.
Found(s) ==
    /\ pc = "ask" /\ s \in toAsk /\ entry = "hash"
    /\ <<s, Tx>> \in know
    /\ scrs' = Answer(s)
    /\ LET h == [t \in Shards |-> IF t \in Touches(Tx) THEN Tx ELSE None]
           intra == snd[Tx] = rcv[Tx]
       IN /\ fetched' = IF intra THEN {snd[Tx]} ELSE {}
          /\ \/ /\ intra /\ scrs' = {}
                /\ hash' = h
                /\ Return("found")
             \/ /\ intra /\ scrs' # {}
                /\ hash' \in extraShardFromSCRs(h, scrs')
                /\ pc' = "source" /\ UNCHANGED result
             \/ /\ ~intra
                /\ hash' = h
                /\ pc' = IF s = rcv[Tx] THEN "source" ELSE "dest"
                /\ UNCHANGED result
    /\ UNCHANGED <<chain, request, toAsk, pass, missed, passes>>

\* The answer came from the destination shard:
\* alterTxWithScResultsFromSourceIfNeeded, then the map.  The source shard is
\* not asked if the transaction has no SCRs and no logs.
MergeSource ==
    /\ pc = "source"
    /\ \/ UNCHANGED <<scrs, fetched>> /\ hash' \in extraShardFromSCRs(hash, scrs)
       \/ /\ withResults /\ <<snd[Tx], Tx>> \in know
          /\ scrs' = scrs \cup Answer(snd[Tx])
          /\ fetched' = fetched \cup {snd[Tx]}
          /\ hash' \in extraShardFromSCRs([hash EXCEPT ![snd[Tx]] = Tx], scrs')
    /\ TestMap(hash', fetched')
    /\ UNCHANGED <<chain, request, toAsk, missed>>

\* The answer came from the source shard: getTxFromDestShard, and
\* mergeScResultsFromSourceAndDestIfNeeded if it finds the transaction.
MergeDest ==
    /\ pc = "dest" /\ entry = "hash"
    /\ \/ UNCHANGED <<scrs, hash>>
       \/ /\ <<rcv[Tx], Tx>> \in know
          /\ scrs' = scrs \cup Answer(rcv[Tx])
          /\ hash' \in extraShardFromSCRs(hash, Answer(rcv[Tx]))
    /\ TestMap(hash', fetched)
    /\ UNCHANGED <<chain, request, toAsk, fetched, missed>>

\* fetchSCRs in one shard of the pass: no nodes, no answer, or an answer.
FetchFails(s) ==
    /\ pc = "fetch" /\ s \in pass
    /\ Return("error")
    /\ UNCHANGED <<chain, request, toAsk, scrs, hash, fetched, pass, missed, passes>>

Fetch(s) ==
    /\ pc = "fetch" /\ s \in pass
    /\ \/ scrs' = scrs \cup ScrsAt(s) /\ UNCHANGED missed
       \/ missed' = missed \cup {s} /\ UNCHANGED scrs
    /\ fetched' = fetched \cup {s}
    /\ pass' = pass \ {s}
    /\ UNCHANGED <<chain, request, pc, toAsk, hash, result, passes>>

\* Mutant: the loop ends after its first pass.
EndPass_Once ==
    /\ pc = "fetch" /\ pass = {}
    /\ hash' \in extraShardFromSCRs(hash, scrs)
    /\ Return("found")
    /\ UNCHANGED <<chain, request, toAsk, scrs, fetched, pass, missed, passes>>

\* A pass is over: the shards of the SCRs found are added.
EndPass ==
    /\ pc = "fetch" /\ pass = {}
    /\ hash' \in extraShardFromSCRs(hash, scrs)
    /\ TestMap(hash', fetched)
    /\ UNCHANGED <<chain, request, toAsk, scrs, fetched, missed>>

\* getTxWithSenderAddr: the shard of the given sender answers; then the
\* destination shard is asked, and no other.
FoundBySender(s) ==
    /\ pc = "ask" /\ s \in toAsk /\ entry = "sender"
    /\ <<s, Tx>> \in know
    /\ scrs' = Answer(s)
    /\ IF rcv[Tx] = s THEN Return("found") ELSE pc' = "dest" /\ UNCHANGED result
    /\ UNCHANGED <<chain, request, toAsk, hash, fetched, pass, missed, passes>>

MergeDestBySender ==
    /\ pc = "dest" /\ entry = "sender"
    /\ \/ UNCHANGED scrs
       \/ <<rcv[Tx], Tx>> \in know /\ scrs' = scrs \cup Answer(rcv[Tx])
    /\ Return("found")
    /\ UNCHANGED <<chain, request, toAsk, hash, fetched, pass, missed, passes>>

\* External: a shard executes the transaction or one of its SCRs.
Learn(s, i) ==
    /\ pc # "done"
    /\ s \in Touches(i) /\ <<s, i>> \notin know
    /\ know' = know \cup {<<s, i>>} /\ Consistent(know')
    /\ UNCHANGED <<snd, rcv, know0, request, pc, toAsk, scrs, hash, fetched, pass,
                   result, missed, passes>>

Returned == pc = "done" /\ UNCHANGED vars

Next == \/ \E s \in Shards : \/ NoNodes(s) \/ NotThere(s)
                             \/ Found(s) \/ FoundBySender(s)
                             \/ FetchFails(s) \/ Fetch(s)
        \/ MergeSource \/ MergeDest \/ MergeDestBySender
        \/ EndPass
        \/ \E s \in Shards, i \in Items : Learn(s, i)
        \/ Returned

Spec == Init /\ [][Next]_vars
-----------------------------------------------------------------------------
(* Correctness *)

Keys == {s \in Shards : hash[s] # None}

\* Every variable holds a value of its type; what is fetched has an entry.
TypeOK ==
    /\ snd \in [Items -> Shards] /\ rcv \in [Items -> Shards]
    /\ know \subseteq Shards \X Items /\ know0 \subseteq know
    /\ entry \in {"hash", "sender"} /\ withResults \in BOOLEAN
    /\ pc \in {"ask", "source", "dest", "fetch", "done"}
    /\ toAsk \subseteq Shards /\ scrs \subseteq SCRs
    /\ hash \in [Shards -> Items \cup {None}]
    /\ fetched \subseteq Keys /\ pass \subseteq Keys \ fetched
    /\ missed \subseteq Shards
    /\ result \in {"none", "found", "notfound", "error"}
    /\ passes \in Nat

\* C holds the shards of the transaction and, with a shard, those of every SCR
\* it had when the request arrived.
Closed(C) ==
    /\ Touches(Tx) \subseteq C
    /\ \A s \in C, x \in SCRs : <<s, x>> \in know0 => Touches(x) \subseteq C

\* The reference: the shards in every closed set, and the SCRs they had.
ReachableShards == {s \in Shards : \A C \in SUBSET Shards : Closed(C) => s \in C}
ReachableSCRs   == {x \in SCRs : \E s \in ReachableShards : <<s, x>> \in know0}

\* A transaction asked for with its results comes with every SCR that was
\* there, through any number of shards, when the request arrived, unless a
\* shard on the way did not answer.
ResultsAreComplete ==
    /\ result = "found" /\ entry = "hash" /\ withResults /\ missed = {}
    => ReachableSCRs \subseteq scrs

\* A transaction is not returned with an SCR of a shard that was not asked.
NoShardForgotten ==
    /\ result = "found" /\ entry = "hash"
    => \A x \in scrs : Touches(x) \subseteq fetched

\* A shard is asked with the hash of something it executes, so that its nodes
\* can find it.
AskedWithItsHash == \A s \in Keys : s \in Touches(hash[s])

\* The loop over the map ends: every pass takes care of a shard that none
\* before it did, so there is at most one pass per shard.
PassesAreBounded == passes <= Cardinality(Shards)
=============================================================================
