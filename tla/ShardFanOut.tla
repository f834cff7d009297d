------------------------------ MODULE ShardFanOut ------------------------------
(***************************************************************************)
(* Operations that need an answer from every shard, and the caches that     *)
(* some of them fill.  Per shard the processor goes through the observers   *)
(* until one answers; what a shard without observers, or one where nobody   *)
(* answers, does to the whole reply differs:                                *)
(*   "accounts"  GetAccounts, one goroutine per shard                       *)
(*   "supply"    GetESDTSupply's getSupplyFromShards                        *)
(*   "nonce"     GetLatestFullySynchronizedHyperblockNonce                  *)
(*   "blocks"    GetBlocksByRound                                           *)
(*   "pool"      GetTransactionsPool                                        *)
(*   "heartbeat" getHeartbeatsFromApi                                       *)
(*   "valstats", "economics"   from the metachain only                      *)
(* The last three are what the refreshers run (StartCacheUpdate).  One      *)
(* operation runs at a time: they share nothing but the cache, which a      *)
(* request reads in its first step and never writes.                        *)
(***************************************************************************)
EXTENDS Naturals, FiniteSets

CONSTANTS Shards, Meta,     \* all shards; the metachain is one of them
          MaxObservers,     \* longest list of observers
          FailsThreshold,   \* thresholdCountConsecutiveFails
          FailsCap          \* bound on failed refreshes in a row

ASSUME FanOutConfig ==
    /\ Meta \in Shards /\ IsFiniteSet(Shards)
    /\ MaxObservers \in Nat \ {0}
    /\ FailsThreshold \in Nat \ {0} /\ FailsCap \in Nat /\ FailsCap >= FailsThreshold

Kinds == {"heartbeat", "valstats", "economics"}
Ops   == {"accounts", "supply", "nonce", "blocks", "pool"} \cup Kinds
Never == FailsCap + 1
Fates == {"todo", "asking", "answered", "rejected", "errorBody", "exhausted", "noObservers"}

VARIABLES
    kind,    \* whose cache this is
    role,    \* "idle"; "api": a client's request; "refresh"; "stopped"
    op,      \* the operation at work
    need,    \* the shards it asks
    fate,    \* what became of each shard
    left,    \* observers of each shard still to try
    failed,  \* shardErr: set by the goroutine of a shard
    reply,   \* "none" while at work
    entry,   \* heartbeat: what responseMap says of one public key
    heard,   \* history: what the messages about that key said that belong to their shard
    cache,   \* "empty", "filled"
    fails,   \* countConsecutiveFails (economics)
    since    \* history: refreshes since the last one that was stored, or Never

work == <<op, need, fate, left, failed, entry, heard>>
vars == <<kind, role, op, need, fate, left, failed, reply, entry, heard, cache, fails, since>>

Init == /\ kind \in Kinds /\ role = "idle"
        /\ op = kind /\ need = {} /\ reply = "none" /\ failed = FALSE
        /\ fate = [s \in Shards |-> "todo"] /\ left = [s \in Shards |-> 0]
        /\ entry = "none" /\ heard = {}
        /\ cache = "empty" /\ fails = 0 /\ since = Never
-----------------------------------------------------------------------------
(* Starting *)

Begin(r, o, S) ==
    /\ role' = r /\ op' = o /\ need' = S
    /\ fate' = [s \in Shards |-> "todo"] /\ left' = [s \in Shards |-> 0]
    /\ failed' = FALSE /\ entry' = "none" /\ heard' = {}

\* getShardsIDs: the shards of the observers the provider lists at this moment.
\* A shard of the network for which none is configured is not among them.
ListedShards == (SUBSET Shards) \ {{}}

\* The shards an operation asks: those of the addresses, all but the metachain,
\* the listed ones, only the metachain, or all.
Asks(o) == CASE o = "accounts"                -> SUBSET Shards
             [] o = "supply"                  -> {Shards \ {Meta}}
             [] o = "nonce"                   -> ListedShards
             [] o \in {"valstats", "economics"} -> {{Meta}}
             [] OTHER                         -> {Shards}

\* A client's request.  What is cached is answered from the cache, and economics
\* only from there.
Serve(o) ==
    /\ role = "idle"
    /\ \/ /\ o = kind /\ (cache = "filled" \/ o = "economics")
          /\ reply' = IF cache = "filled" THEN "cached" ELSE "error"
          /\ Begin("api", o, {})
       \/ /\ o \notin Kinds \/ (o = kind /\ cache = "empty" /\ o # "economics")
          /\ reply' = "none"
          /\ \E S \in Asks(o) : Begin("api", o, S)
       \/ /\ o = "nonce"             \* the provider has no list at all
          /\ reply' = "error"
          /\ Begin("api", o, {})
    /\ UNCHANGED <<kind, cache, fails, since>>

\* The refresher's timer.
Refresh == /\ role = "idle"
           /\ reply' = "none"
           /\ \E S \in Asks(kind) : Begin("refresh", kind, S)
           /\ UNCHANGED <<kind, cache, fails, since>>
-----------------------------------------------------------------------------
(* Asking the shards *)

Working    == role \in {"api", "refresh"} /\ reply = "none"
Parallel   == op = "accounts"

\* A shard's turn: its goroutine runs, or the loop has come to it.
CanList(s) == /\ Working /\ s \in need /\ fate[s] = "todo"
              /\ Parallel \/ \A r \in need : fate[r] # "asking"

\* An error of one shard: remembered by accounts, which waits for the others;
\* the end of the operation elsewhere.
ShardError == IF Parallel THEN failed' = TRUE /\ UNCHANGED reply
                          ELSE reply' = "error" /\ UNCHANGED failed

NoError == UNCHANGED <<failed, reply>>

\* The provider has a list for the shard, or none.
List(s, n) == /\ CanList(s)
              /\ fate' = [fate EXCEPT ![s] = "asking"] /\ left' = [left EXCEPT ![s] = n]
              /\ NoError
              /\ UNCHANGED <<kind, role, op, need, entry, heard, cache, fails, since>>

NoObservers(s) ==
    /\ CanList(s)
    /\ fate' = [fate EXCEPT ![s] = "noObservers"]
    /\ IF op \in {"heartbeat", "pool"} THEN NoError ELSE ShardError
    /\ UNCHANGED <<kind, role, op, need, left, entry, heard, cache, fails, since>>

\* What it means that nobody in the list answered.
Exhausted == IF op \in {"blocks", "pool"} THEN NoError ELSE ShardError

\* An observer does not answer, or, for heartbeats, has none.
Fails(s) ==
    /\ Working /\ fate[s] = "asking"
    /\ left' = [left EXCEPT ![s] = @ - 1]
    /\ IF left[s] = 1 THEN fate' = [fate EXCEPT ![s] = "exhausted"] /\ Exhausted
                      ELSE UNCHANGED fate /\ NoError
    /\ UNCHANGED <<kind, role, op, need, entry, heard, cache, fails, since>>

\* A heartbeat message about the public key, as an observer of shard s reports it.
Messages == [computed : Shards, received : Shards, active : BOOLEAN]

Belongs(m, s) == m.computed = s \/ m.received = s

\* Mutant: the last message wins.
AddMessage_LastWins(m) == IF m.active THEN "active" ELSE "inactive"

\* addMessagesToMap, for one public key.
AddMessage(m) == CASE entry = "none" -> IF m.active THEN "active" ELSE "inactive"
                   [] entry = "inactive" /\ m.active -> "active"
                   [] OTHER -> entry

\* Mutant: the goroutine of a good shard overwrites shardErr.
Answers_ClearsError(s) ==
    /\ Working /\ fate[s] = "asking"
    /\ fate' = [fate EXCEPT ![s] = "answered"]
    /\ \/ UNCHANGED <<entry, heard>>
       \/ /\ op = "heartbeat"
          /\ \E m \in Messages : /\ Belongs(m, s)
                                 /\ entry' = AddMessage(m)
                                 /\ heard' = heard \cup {m.active}
    /\ failed' = FALSE
    /\ UNCHANGED <<kind, role, op, need, left, reply, cache, fails, since>>

\* An observer answers; its heartbeats have a message about the key that belongs
\* to the shard, or they have not.
Answers(s) ==
    /\ Working /\ fate[s] = "asking"
    /\ fate' = [fate EXCEPT ![s] = "answered"]
    /\ \/ UNCHANGED <<entry, heard>>
       \/ /\ op = "heartbeat"
          /\ \E m \in Messages : /\ Belongs(m, s)
                                 /\ entry' = AddMessage(m)
                                 /\ heard' = heard \cup {m.active}
    /\ NoError
    /\ UNCHANGED <<kind, role, op, need, left, cache, fails, since>>

\* Status 200 and an error in the body, or a status nobody can read.
AnswersError(s) ==
    /\ Working /\ fate[s] = "asking" /\ op \in {"accounts", "nonce"}
    /\ fate' = [fate EXCEPT ![s] = "errorBody"]
    /\ ShardError
    /\ UNCHANGED <<kind, role, op, need, left, entry, heard, cache, fails, since>>

\* Status 400 or 500: getAccountsInShard takes it for an answer and looks for
\* the error in a response that executePostRequest left untouched.
Rejects(s) ==
    /\ Working /\ fate[s] = "asking" /\ op = "accounts"
    /\ fate' = [fate EXCEPT ![s] = "rejected"]
    /\ NoError
    /\ UNCHANGED <<kind, role, op, need, left, entry, heard, cache, fails, since>>
-----------------------------------------------------------------------------
(* Finishing *)

\* Every shard is behind.  Heartbeats: an error if responseMap is empty; with
\* nothing about our key it may or may not be.
Conclude ==
    /\ Working /\ \A s \in need : fate[s] \notin {"todo", "asking"}
    /\ \/ /\ failed \/ (op = "heartbeat" /\ entry = "none")
          /\ reply' = "error"
       \/ /\ ~failed /\ (op = "heartbeat" => \E s \in need : fate[s] = "answered")
          /\ reply' = "ok"
    /\ UNCHANGED <<kind, role, cache, fails, since>> /\ UNCHANGED work

Return == /\ role = "api" /\ reply # "none"
          /\ role' = "idle" /\ reply' = "none"
          /\ UNCHANGED <<kind, cache, fails, since>> /\ UNCHANGED work

Capped(n) == IF n < FailsCap THEN n + 1 ELSE n

\* Mutant: a good refresh does not reset the count.
HandleEconomics_NoReset(ok) ==
    LET n == IF ok THEN fails ELSE Capped(fails)
    IN /\ fails' = n
       /\ cache' = IF ok THEN "filled" ELSE IF n >= FailsThreshold THEN "empty" ELSE cache

\* handleCacheUpdate of the economics; the others keep what they have.
HandleEconomics(ok) ==
    LET n == IF ok THEN fails ELSE Capped(fails)
        dropped == IF n >= FailsThreshold THEN "empty" ELSE cache
    IN /\ fails' = IF ok THEN 0 ELSE n
       /\ cache' = IF ok THEN "filled" ELSE dropped

\* What the cacher does with what was fetched: StoreValStats refuses an answer
\* without statistics, and the refresher only logs it.
Stored == IF reply = "ok" /\ kind = "valstats" THEN BOOLEAN ELSE {reply = "ok"}

HandleCacheUpdate ==
    /\ role = "refresh" /\ reply # "none"
    /\ \E stored \in Stored :
          /\ IF kind = "economics" THEN HandleEconomics(stored)
             ELSE /\ cache' = IF stored THEN "filled" ELSE cache
                  /\ UNCHANGED fails
          /\ since' = IF stored THEN 0 ELSE IF since = Never THEN since ELSE Capped(since)
    /\ role' = "idle" /\ reply' = "none"
    /\ UNCHANGED kind /\ UNCHANGED work

\* Close: the refresher's select sees ctx.Done; requests go on without it, so
\* the model ends here.
Close == /\ role = "idle"
         /\ role' = "stopped"
         /\ UNCHANGED <<kind, reply, cache, fails, since>> /\ UNCHANGED work

Stopped == role = "stopped" /\ UNCHANGED vars

Next == \/ \E o \in Ops : Serve(o)
        \/ Refresh
        \/ \E s \in Shards : \/ \E n \in 1 .. MaxObservers : List(s, n)
                             \/ NoObservers(s) \/ Fails(s)
                             \/ Answers(s) \/ AnswersError(s) \/ Rejects(s)
        \/ Conclude \/ Return \/ HandleCacheUpdate
        \/ Close \/ Stopped

Spec == Init /\ [][Next]_vars
-----------------------------------------------------------------------------
(* Correctness *)

\* Every variable holds a value of its type.
TypeOK ==
    /\ kind \in Kinds /\ role \in {"idle", "api", "refresh", "stopped"}
    /\ op \in Ops /\ need \subseteq Shards
    /\ fate \in [Shards -> Fates] /\ left \in [Shards -> 0 .. MaxObservers]
    /\ \A s \in Shards : fate[s] = "asking" => left[s] > 0
    /\ failed \in BOOLEAN /\ (failed => op = "accounts") /\ reply \in {"none", "ok", "error", "cached"}
    /\ entry \in {"none", "active", "inactive"} /\ heard \subseteq BOOLEAN
    /\ cache \in {"empty", "filled"} /\ fails \in 0 .. FailsCap
    /\ since \in 0 .. Never

\* What a shard may have contributed to a reply without an error.
AcceptedFates(o) ==
    {"answered"} \cup CASE o = "accounts"  -> {"rejected"}
                        [] o = "heartbeat" -> {"noObservers"}
                        [] o = "blocks"    -> {"exhausted"}
                        [] o = "pool"      -> {"exhausted", "noObservers"}
                        [] OTHER           -> {}

\* Whatever the order in which the shards end, a reply without an error covers
\* every shard the operation asks: supply and economics to the last one, the
\* others up to the gaps their code accepts.  The nonce covers every shard that
\* the provider listed when the request came, and says nothing of a shard of the
\* network that was not listed.
SuccessCoversShards ==
    reply = "ok" => \A s \in need : fate[s] \in AcceptedFates(op)

\* The heartbeat reply shows the key as active exactly when some shard it
\* belongs to said so, whichever shard was asked first, and has the key exactly
\* when some shard spoke of it.
ActiveWins ==
    op = "heartbeat" => /\ entry = "active" <=> TRUE \in heard
                        /\ entry = "none" <=> heard = {}

\* The cache is filled exactly when some refresh was stored and, for economics,
\* fewer than FailsThreshold refreshes failed since.  Heartbeats and validator
\* statistics stay, however long ago that was: what config.toml calls the maximum
\* number of seconds the data is valid is only the period of the refreshes.
CacheFollowsRefreshes ==
    cache = "filled" <=> /\ since # Never
                         /\ kind = "economics" => since < FailsThreshold
=============================================================================
