------------------------------- MODULE BulkSend -------------------------------
(***************************************************************************)
(* SendMultipleTransactions of process/transactionProcessor.go: a client's  *)
(* batch is freed of invalid transactions, split by the sender's shard, and *)
(* each group is offered to the observers of its shard, one after the       *)
(* other, until one of them answers.  The client gets one reply, made from  *)
(* the answers of all shards: how many transactions were sent, and a map    *)
(* from indices to hashes.                                                  *)
(*                                                                          *)
(* A transaction is its position in the client's batch, and that also       *)
(* stands for its hash.                                                     *)
(***************************************************************************)
EXTENDS Naturals, FiniteSets

CONSTANTS Shards,
          MaxBatch,      \* longest batch
          MaxObservers   \* longest list of observers

ASSUME BulkConfig == /\ MaxBatch \in Nat /\ MaxObservers \in Nat \ {0}
                     /\ "invalid" \notin Shards /\ "noShard" \notin Shards

\* What a transaction of the batch is: one that checkTransactionFields refuses,
\* one whose sender has no shard, or one with its shard.
TxKind == Shards \cup {"invalid", "noShard"}

VARIABLES
    batch,      \* the client's transactions
    pc,         \* "group": between two groups, "post": at an observer, "done"
    groups,     \* the shards whose group is still to come
    shard,      \* the shard of the group at work
    left,       \* observers of that shard still to try
    hashes,     \* txsHashes
    sent,       \* totalTxsSent
    reply,      \* what the client gets
    \* history
    listed,     \* per shard: how many observers the provider listed for its group
    offers,     \* per shard: how often its group was posted
    answered,   \* the shards an observer of which answered
    acked       \* the transactions an observer answered it took

vars == <<batch, pc, groups, shard, left, hashes, sent, reply, listed, offers, answered, acked>>

Positions == DOMAIN batch

\* txsToSend, and the place of a transaction in it: tx.Index.
Valid == {p \in Positions : batch[p] # "invalid"}

\* Mutant: the index is the place in the group of the shard.
Index_InGroup(p) == Cardinality({q \in Valid : q < p /\ batch[q] = batch[p]})

Index(p) == Cardinality({q \in Valid : q < p})

\* groupTxsByShard; a transaction without a shard is in no group.
Group(s) == {p \in Valid : batch[p] = s}

Init == /\ batch \in UNION {[1 .. n -> TxKind] : n \in 0 .. MaxBatch}
        /\ IF Valid = {} THEN pc = "done" /\ reply = "noValidTx"
                         ELSE pc = "group" /\ reply = "none"
        /\ groups = {s \in Shards : Group(s) # {}}
        /\ shard \in Shards /\ left = 0
        /\ hashes = [i \in {} |-> 0] /\ sent = 0
        /\ listed = [s \in Shards |-> 0] /\ offers = [s \in Shards |-> 0]
        /\ answered = {} /\ acked = {}
-----------------------------------------------------------------------------
\* The next group, in the order of a Go map: any.  The provider has a list for
\* its shard, or it has none and the whole request is answered with an error.
NextGroup(s, n) ==
    /\ pc = "group" /\ s \in groups
    /\ shard' = s /\ groups' = groups \ {s} /\ left' = n
    /\ pc' = "post"
    /\ listed' = [listed EXCEPT ![s] = n]
    /\ UNCHANGED <<batch, hashes, sent, reply, offers, answered, acked>>

MissingObserver(s) ==
    /\ pc = "group" /\ s \in groups
    /\ pc' = "done" /\ reply' = "missingObserver"
    /\ UNCHANGED <<batch, groups, shard, left, hashes, sent, listed, offers, answered, acked>>

\* txsHashes with the hashes of A added.
AddHashes(A) ==
    LET new == {Index(p) : p \in A}
    IN [i \in DOMAIN hashes \cup new |-> IF i \in new THEN CHOOSE p \in A : Index(p) = i
                                                     ELSE hashes[i]]

\* Mutant: the loop goes on after an answer.
Answers_NoBreak(A) ==
    /\ pc = "post" /\ left > 0
    /\ A \subseteq Group(shard)
    /\ hashes' = AddHashes(A)
    /\ sent' = sent + Cardinality(A)
    /\ left' = left - 1
    /\ offers' = [offers EXCEPT ![shard] = @ + 1]
    /\ answered' = answered \cup {shard}
    /\ acked' = acked \cup A
    /\ UNCHANGED <<batch, groups, shard, pc, reply, listed>>

\* The observer answers that it took the transactions A.
Answers(A) ==
    /\ pc = "post" /\ left > 0
    /\ A \subseteq Group(shard)
    /\ hashes' = AddHashes(A)
    /\ sent' = sent + Cardinality(A)
    /\ left' = 0 /\ pc' = "group"
    /\ offers' = [offers EXCEPT ![shard] = @ + 1]
    /\ answered' = answered \cup {shard}
    /\ acked' = acked \cup A
    /\ UNCHANGED <<batch, groups, shard, reply, listed>>

\* Mutant: the first failure gives the group up.
Fails_GivesUp ==
    /\ pc = "post" /\ left > 0
    /\ left' = 0
    /\ offers' = [offers EXCEPT ![shard] = @ + 1]
    /\ UNCHANGED <<batch, pc, groups, shard, hashes, sent, reply, listed, answered, acked>>

\* The call fails.
Fails ==
    /\ pc = "post" /\ left > 0
    /\ left' = left - 1
    /\ offers' = [offers EXCEPT ![shard] = @ + 1]
    /\ UNCHANGED <<batch, pc, groups, shard, hashes, sent, reply, listed, answered, acked>>

\* Nobody in the list answered: the group is passed over.
GiveUpGroup ==
    /\ pc = "post" /\ left = 0
    /\ pc' = "group"
    /\ UNCHANGED <<batch, groups, shard, left, hashes, sent, reply, listed, offers, answered, acked>>

Reply ==
    /\ pc = "group" /\ groups = {}
    /\ pc' = "done" /\ reply' = "ok"
    /\ UNCHANGED <<batch, groups, shard, left, hashes, sent, listed, offers, answered, acked>>

Returned == pc = "done" /\ UNCHANGED vars

Next == \/ \E s \in Shards : \/ \E n \in 1 .. MaxObservers : NextGroup(s, n)
                             \/ MissingObserver(s)
        \/ \E A \in SUBSET Positions : Answers(A)
        \/ Fails \/ GiveUpGroup \/ Reply
        \/ Returned

Spec == Init /\ [][Next]_vars
-----------------------------------------------------------------------------
(* Correctness *)

\* Every variable holds a value of its type.
TypeOK ==
    /\ \E n \in 0 .. MaxBatch : batch \in [1 .. n -> TxKind]
    /\ pc \in {"group", "post", "done"}
    /\ groups \subseteq Shards /\ shard \in Shards /\ left \in 0 .. MaxObservers
    /\ DOMAIN hashes \subseteq 0 .. (Cardinality(Valid) - 1) /\ sent \in Nat
    /\ reply \in {"none", "ok", "noValidTx", "missingObserver"}
    /\ listed \in [Shards -> 0 .. MaxObservers] /\ offers \in [Shards -> 0 .. MaxObservers]
    /\ answered \subseteq Shards
    /\ acked \subseteq Positions

\* The answers of the shards fit together in one reply: each index belongs to
\* the transaction whose hash it carries, no hash of one shard replaces that of
\* another, every acknowledged transaction has its hash, and the number sent is
\* the number of hashes.
ReplyFitsTogether ==
    /\ \A i \in DOMAIN hashes : hashes[i] \in acked /\ Index(hashes[i]) = i
    /\ \A p \in acked : Index(p) \in DOMAIN hashes
    /\ Cardinality(DOMAIN hashes) = sent

\* A reply without an error leaves out no transaction silently: an observer of
\* its shard answered, or every observer listed for its shard was tried.
MissingIsExplained ==
    reply = "ok" =>
        \A s \in Shards : Group(s) # {} =>
            s \in answered \/ (listed[s] > 0 /\ offers[s] = listed[s])

\* A group that was answered is not offered to another observer: nothing that
\* is acknowledged is sent twice, whatever happens to the other groups.
AnsweredOnce == [][\A s \in answered : offers'[s] = offers[s]]_vars
=============================================================================
