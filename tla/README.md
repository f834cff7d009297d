# A TLA+ model of mx-chain-proxy-go

The proxy stands between API clients and the nodes ("observers") of a sharded
blockchain. It keeps no chain state. What can go wrong in it is the *routing*:
which observers it knows, which of them it believes to be synced, which of them
a request is sent to, in which order, when it gives up, how the answers of
several shards become one reply, and what the circuit breakers, the rate
limiter, a background checker, clean-ups, caches and reloads of the
configuration do to all of that at the same time. This directory models these
parts, checks them with TLC and proves the safety properties it checks, for all
values of the parameters, with TLAPS.

## 1. The system

| Part | Source | State | Operations |
|---|---|---|---|
| circuit breaker | `common/circuitbreaker.go` | state, failure / success / trial counters, time of the last failure, RW lock | `CanExecute`, `Call`, `Reset`, getters |
| circuit breaker manager | `common/circuitbreaker_manager.go` | map observer → breaker, RW lock | `GetBreaker`, `CanExecute`, `Execute`, `ResetBreaker`, `ResetAllBreakers`, `GetBreakerStats`, `CleanupStaleBreakers` |
| nodes holder, nodes provider | `observer/holder`, `observer/baseNodeProvider.go`, `observer/simpleNodesProvider.go` | node objects per shard with an `IsSynced` flag, eight cached lists per shard, the shard ids in use, two locks | lookups, `GetAllNodesWithSyncState`, `UpdateNodesBasedOnSyncState`, `ReloadNodes` |
| balanced provider | `observer/circularQueueNodesProvider.go`, `observer/mapCounters` | one position per data availability and shard, one for all nodes | balanced lookups |
| base processor | `process/baseProcessor.go` | the HTTP client, the checker goroutine with two timers and a trigger channel | `CallGetRestEndPoint`, `CallPostRestEndPoint`, the check round, the mapping refresh |
| processors | `process/*Processor.go` | none of their own, apart from response caches | one loop over the observers of a shard per API operation; loops over shards |
| response caches | `process/nodeGroupProcessor.go`, `validatorStatisticsProcessor.go`, `economicMetrics.go`, `process/cache` | one cached response each, a counter of failed refreshes | load, refresh on a timer |
| number of shards | `process/numShardsProcessor.go` | none | waits at start for an observer that knows it |
| API routes, rate limiter | `api/api.go`, `api/groups/baseGroup.go`, `api/middleware` | requests per endpoint and client, behind a mutex | register routes, authenticate, count a request, reset on a timer |
| documentation page | `cmd/proxy/config/swagger` | the page in a browser | served as static files; `swagger-initializer.js` |
| metrics | `metrics` | sums behind a mutex | add, report |
| facade, versions | `facade`, `versions` | none at run time | delegation |

How they interact. A processor asks the provider for the observers of a shard
(the balanced provider rotates the list) and calls them one after the other.
Every call asks the manager's `CanExecute` and then runs the HTTP request inside
`Execute`, that is, inside the breaker's `Call`, which keeps the breaker's write
lock until the answer is there. A call that fails in the connection triggers a
check round. The checker's goroutine reads all nodes, asks each for its status,
writes the flag of each node object *while requests use it*, stores the nodes and
looks every shard up once more; every ten minutes it runs the clean-up of the
breakers. The reload endpoint replaces the nodes at any moment.

Hard behaviours, and what correctness means for them:

* *Check, then act on a breaker.* `CanExecute` and `Call` take the lock
  separately. No request may slip through an open circuit; no trial slot may be
  lost so that a recovered observer stays cut off; a run of failures must be
  counted over all callers, and only once.
* *Two levels of locks.* The clean-up holds the map's lock while it waits for a
  breaker that is locked over an HTTP request. Everyone must get through, one
  observer must have one breaker, and what the clean-up may forget must be
  bounded.
* *Flags written under the readers.* Lists are computed from flags that change,
  at different moments, and cached. No node may vanish from the lists or be in
  two of them, and requests must see the verdicts of whole rounds.
* *Long read-modify-write.* A round holds what it read over many HTTP requests
  and then stores it. Reloads happen meanwhile.
* *Fail-over.* The loops must tell "this observer is dead" from "this observer
  answered". A transaction must not be sent again after an answer.
* *A loop with two timers and a deaf channel.* The checker resets a timer in
  every turn, also in those of clean-ups and triggers, and hears a trigger only
  while it is parked. Rounds must keep coming and the offline node must be asked.
* *One reply from several shards.* Answers come in any order and some do not
  come. Indices, results, heartbeats and errors must be combined so that the
  order does not show and a failure is not taken for a result.
* *A closure computed over a moving chain.* The lookup of a transaction follows
  its results from shard to shard; it must end, and miss nothing that was there.
* *Counting under overlap.* Requests of one client overlap each other and the
  reset of the counts.

`PROJECT.json` lists each of these hazards with its line and its properties.

## 2. Modules

| Module | Models | Used by |
|---|---|---|
| `CircuitBreakerOps` | a breaker as a record, one operator per piece of code that reads or writes it | `CircuitBreaker`, `CircuitBreakerManager`, `RequestFailover` |
| `CircuitBreaker` | one breaker, the goroutines that call its observer, resets, the clock | `CircuitBreakerProofs` |
| `CircuitBreakerManager` | the map of breakers with all its locks and users | `CircuitBreakerProofs` |
| `NodesRegistry` | abstract: what a provider of observers promises | refinement target |
| `NodesProvider` | holders, caches, lookups, reloads and the check round | `MCNodesProvider`, `NodesProviderProofs` |
| `CircularQueue` | counters and positions of the balanced provider | `CircularQueueProofs` |
| `SyncCheckLoop` | the checker's goroutine: timers, trigger, clean-up, shutdown | `NodesProviderProofs` |
| `RequestFailover` | the processors' loops over observers, on top of the breakers | `MCRequestFailover`, `RequestFailoverProofs` |
| `BulkSend` | `SendMultipleTransactions` | `BulkSendProofs` |
| `TransactionLookup` | a transaction and its results, put together from many shards | `MCTransactionLookup`, `TransactionLookupProofs` |
| `ShardFanOut` | operations over all shards, the response caches and their refreshers | `ShardFanOutProofs` |
| `ApiServer` | routes, authentication, rate limiter, documentation page | `MCApiServer`, `ApiServerProofs` |

The `...Proofs` modules hold theorems only; the `MC...` modules give constants
their values. An operator `X_Something` marked "Mutant" is a wrong version of
`X`, used to show that the property beside it in `PROJECT.json` notices.

### CircuitBreaker

`breaker` is the shared object; its field `age` stands for
`time.Since(lastFailureTime)` and saturates at `AgeCap`, as the code only compares
it with the recovery timeout. `mutex` is the write lock. A caller goes
idle → check → call → wire → idle: `CheckCanExecute` is the guard of
`executeGetRequest` / `executePostRequest`, `RefuseCall` and `AdmitCall` are the
first half of `Call`, `SucceedCall` and `FailCall` the end of the HTTP request
with `onSuccess` / `onFailure`. `up`, `Flip` and `Age` are the world. `fails` is a
history variable: the failures in a row that callers really saw. (The names keep
clear of `CircuitBreakerManager`'s, so that one module can extend both.)

### CircuitBreakerManager

Adds the map. A request looks the breaker up twice (once for `CanExecute`, once
for `Execute`), each time under the read lock and, if it is missing, again under
the write lock, and then keeps a reference: `caller[p].ref` may be an object that
the clean-up has since removed (`removed`). The clean-up is six actions, because
it reads the state, the failure count and, without a lock, the time of the last
failure, and then deletes, in four steps: the map's lock keeps nobody from
reporting to a breaker that was looked up before. `cleaner.late` is history: the
requests whose failure came after the time was read. `ResetBreaker` releases the map before it resets;
`ResetAllBreakers` and `GetBreakerStats` keep the read lock over their loop.
Objects nobody refers to are collected, so a few identities are enough for any
number of removals: one per observer and one per caller, and the proofs count
them. `streak` is history again: the failures in a row on the breaker that is in
the map, up to the number that opens it.

Not in the model: `SetEnabled` has no caller, so the flag is constant; the read
of `lastFailureTime` without the lock is taken to be atomic (a `time.Time` is
three words and a torn read is possible in principle); Go's preference of waiting
writers over new readers.

### NodesProvider

A node object is an entry of a configuration file (the node and its place in the
file, since `cloneNodesSlice` makes one object per entry) with the number of the
(re)load that created it: `IsSynced` lives in the object that lists share. `Keep`
is the loop that copies the elements of a list that pass a test; it is defined by
counting places, and not with `SelectSeq`, so that the provers can work with it.
`nodes` is `allNodes` of the regular ("all") and of the snapshotless ("recent")
holder, `cache` the eight cached lists per shard, `synced` the set of objects whose
flag is true. `Lookup` tries the four tiers and fills exactly the lists it reads. `Reload` and
`ReloadFails` are `ReloadNodes` with and without a regular node in the new
configuration; a failed `NewNodesHolder` leaves `Nil` behind, and a lookup on
`Nil` panics (recovered in a request's goroutine, fatal in the checker's).
`StartRound`, `Probe`, `FinishRound`, `RefreshMapping` are a check round with one
step per status request; what is left of the round's list is kept per shard and
worked off in ascending order. The sync rule subtracts unsigned integers modulo
`NonceMod`. When rounds happen is the business of `SyncCheckLoop`.

`ReloadDuringRound = FALSE` restricts reloads to the time between rounds. It
separates what the provider gets right by itself from what a reload in the
middle of a round does to it; a second run lifts it.

Left out: the full-history provider (a second instance of the same code), the
mode without status checks, and the observer → shard map, which nothing reads.

### NodesRegistry

Five variables and four actions: what a provider promises to those who ask it.
The map to `NodesProvider` reads "the nodes offered as synced" off the lists a
lookup would return now, so a cached list that shows a half-finished round, a
node lost between two lists or a round that skips a node is a violation of the
refinement (`ImplementsRegistry`).

### CircularQueue

One position per availability and list. The lists themselves are lengths here,
and `Resize` is anything that changes one (it is `NodesProvider`'s business).
`window` remembers the last positions given out while a list stayed the same.

### RequestFailover

Each request has a list of observers and a kind, which is the decision rule of
its loop: "send" (`SendTransaction`, `simulateTransaction`), "query"
(`ExecuteQuery`), "key" (`GetValueForKey` and the other details of an account),
"block" (blocks, `GetAccount`). `Status` is what the call returns in each case:
404 or 408 when there was no answer, 503 when `CanExecute` said no, the
observer's own status otherwise. `Called` is a whole `Call`: the breaker is locked
meanwhile, so for everybody who uses it this is one step. Whether the breakers
are enabled is chosen in `Init` (the shipped configuration has them off).
Answers are statuses; bodies are "parses" or "does not parse". A *world* is what
may happen: in a calm one only some observers go down and requests are
well-formed, in the other everything goes.

### SyncCheckLoop

`pc` is where the goroutine is: in a round, parked in its select, in a clean-up.
`timer` and `cleanupTimer` count down to 0, which means that their channel is
ready; `timer.Reset` at the top of each turn discards an expiry nobody received,
which is what timers do since Go 1.23 (`go.mod` asks for 1.23). `FindsOffline` is
a request that calls `triggerNodesSyncCheck`: it starts a round if the goroutine
is parked with nothing ready, and is lost otherwise. `unseen` (nodes a request
found offline that no round has asked since), `idle` (time without a round),
`cleaned` and `late` are history. A round may take any time, its requests have
the HTTP client's timeout; a clean-up takes at most `MaxCleanup`.

### BulkSend

A transaction is its position in the client's batch, which also stands for its
hash. `Index` is what `groupTxsByShard` writes into it, counted after invalid
transactions were dropped; a transaction without a shard keeps its number and is
in no group. Groups come in the order of a Go map, that is, in any. An observer
may acknowledge any part of a group; what it counts as sent is what it returns
hashes for (external).

### TransactionLookup

`know` says which shard has executed what, and grows during the lookup
(`Learn`). `hash` and `fetched` are `shardIDWasFetch`, `pass` the shards left in
the running pass over that map. `Found`, `MergeSource`, `MergeDest` and `Fetch`
are the four kinds of answers, each with its merge; `extraShardFromSCRs` returns
a set of maps because the order of results decides which hash becomes a
shard's. Walking a shard's nodes is one step: somebody answered or nobody did
(`RequestFailover` has the walk). The reference for completeness is not a loop:
`ReachableShards` are the shards in every set closed under the results known at
the start. Logs, and gas and fee of the merged transaction, are left out.

### ShardFanOut

One automaton for eight operations which differ in the shards they ask
(`Asks`), in whether shards are asked in parallel (`GetAccounts`) and in what a
shard without observers, without an answer or with an error does (`NoObservers`,
`Exhausted`, `AnswersError`, `Rejects`). Accounts ask the shards of the addresses,
the nonce the shards of which the provider lists an observer (`ListedShards`, any
non-empty set, or an error). `fate` is what became of each shard. For
heartbeats one public key is followed (`entry`), keys being independent. The three
caches share `Refresh` and `HandleCacheUpdate`; `Stored` says whether the cacher takes
what was fetched (`StoreValStats` refuses statistics that are not there). `fails` is the economics' counter
and `since` its history. Requests only read the cache, in their first step, and
one refresher writes it, so one operation at a time shows every combination.

### ApiServer

A request carries the handlers that `RegisterRoutes` put before its endpoint's
own (`Chain`) and runs them one at a time, interleaved with those of other
connections and with the resets. The limiter's counts are kept per version, path
and client. `addInRequestsMap` returns the count it made under the lock, so
counting and comparing are one step. `known` and `checked` are history: the
request passed the authentication, the limiter. The page is four states; `OnLoad`
gets any subset of the three scripts, and a page that is shown sends requests. No
property is about the page.

## 3. Runs

| Run | cfg | Expected | Shows |
|---|---|---|---|
| `breaker` | `CircuitBreaker` | pass | three callers, thresholds 3 / 2 / 2: accounting of the counters, no wedge, no lost or repeated failure, no stale admission, recovery |
| `manager` | `CircuitBreakerManager` | pass | one breaker per observer, the one in the map counts all failures in a row, the clean-up forgets only failures that came between its last test and its delete, every request returns |
| `nodes` | `NodesProvider` | pass | the sync rule is right at the wrap-around, `NodesRegistry` is implemented |
| `nodes_reload` | `NodesProviderReload` | pass | the lists of a shard stay a partition under reloads at any moment, of configurations nobody validated |
| `nodes_lost_reload` | `NodesProviderLostReload` | violation | a reload is undone by the round that was running |
| `queue` | `CircularQueue` | pass | lookups in a row cover the list |
| `failover` | `RequestFailover` | pass | all loops, all answers, breakers on and off: no second send after an answer, a success of a send or block loop is an answer, a dead observer is skipped, one flaky observer of two never costs a good request |
| `sync_check` | `SyncCheckLoop` | pass | rounds keep coming, offline nodes are followed up, the clean-up runs, `Close` ends the goroutine after at most one more round |
| `tx_lookup` | `TransactionLookup` | pass | the lookup ends, misses no result that was reachable, forgets no shard, asks with hashes the shard can find |
| `bulk_send` | `BulkSend` | pass | hashes under the right indices, nothing left out silently, no answered group sent again |
| `shard_fanout` | `ShardFanOut` | pass | a success covers the shards it asked, heartbeats merge in any order, caches follow what their refreshes stored |
| `api_server` | `ApiServer` | pass | limits are kept under overlap and resets, closed, secured and limited endpoints are reached as configured |

### Bounds, and why they are enough

* Breakers: the thresholds are compared with counters by `>=` and `<`; 2 and 3 are
  the smallest values at which a boundary, one below it and a reset on the way
  are different states. `HalfOpenMaxCalls = SuccessThreshold` is the tightest
  configuration that works. `AgeCap = RecoveryTimeout + 1`: later ages are not
  told apart. Three callers allow one on the wire, one admitted and one asking.
* Manager: breakers of different observers meet only in the map's lock, which one
  observer with two callers, the clean-up and one administrative request
  already contend for; a caller on the wire, one waiting and the clean-up in any
  of its steps occur. A failure threshold of 2 makes a streak take two calls, of
  both callers or of one; success threshold and trials of 1 keep the liveness check
  feasible (223,768 distinct states).
  `StaleMultiplier` is 10 in the code and 1 here: only
  "stale" against "not stale" matters. With `Ids` = observers + callers an unused
  identity always exists.
* Nodes: one shard and the metachain; configurations with regular, fallback and
  snapshotless nodes, a missing metachain, a moved node, and (unvalidated) ones
  with only snapshotless nodes or none. Five generations are enough: objects are
  held by one of the two holders or by the running round, and those of one kind
  come from one load in each (`SpareGen`; the invariant `Loads` of the proofs). `NonceMod = 8`, `SyncThreshold = 2`
  with statuses ahead, equal, just within and just beyond.
* Queue: lists of up to four nodes, growing and shrinking, empty included.
* Fail-over: two observers in both orders, two concurrent requests. The
  theorems cover any number of both.
* Checker: two observers and a full-history node; `Delay = 2`, `CleanupPeriod = 3`,
  so that the two timers expire together, one before the other and during a
  clean-up. `Delay < CleanupPeriod` is assumed (10 minutes in the code, seconds for
  the delay).
* Lookup: three shards and two results, which is a chain from the source over a
  second to a third shard, and a branch. `SYMMETRY` over shards and results: no
  definition names one.
* Bulk send: batches of up to three over two shards, with invalid ones anywhere,
  two observers.
* Fan-out: two shards and the metachain, two observers, threshold 2 (10 in the
  code: only "reached" matters), one failure beyond it.
* Server: two clients, two overlapping requests, two versions, one endpoint of
  each kind, a limit of 2 and one request beyond it (`MaxCount`).

Deadlock is checked everywhere but in `nodes_reload`: a crashed process stops.

### Fairness

`CircuitBreaker`: weak fairness of every caller's steps (a goroutine that can run
does run, and the HTTP client's timeout ends a request) and of the clock. Nothing
makes requests arrive or observers recover; `Recovery` assumes both.
`CircuitBreakerManager`: strong fairness of each caller, of a clean-up that has
begun and of an administrative request, because each waits for locks that others
take and release again and again, and Go's mutexes do not starve a waiter.
`SyncCheckLoop`: weak fairness of the goroutine's steps and of time. Time does not
pass while the goroutine could run (`Tick`); nobody is assumed to send requests or
to call `Close`. The other specifications are safety only.

## 4. Proofs

All theorems hold for every value of the constants that satisfies the module's
named assumptions, which TLC evaluates in each run. The type invariants of all
ten specifications (all but the abstract `NodesRegistry`) are theorems; the runs
`manager` and `nodes` check theirs as well. Each part proves one inductive invariant (`Init => IndInv`, a lemma per difficult action, a step
lemma with one case per action) and reads the properties off it. Where TLAPS was
the harder judge, the parts of `IndInv` were checked with TLC first.

`CircuitBreakerProofs` and `NodesProviderProofs` each extend two specifications
that belong together and hold the theorems of both; the definitions of
`CircuitBreaker` and `SyncCheckLoop` that the other module has too are prefixed
(`BreakerSpec`, `LoopSpec`, ...).

| Module | Theorems (property) | What the invariant adds, and why |
|---|---|---|
| `CircuitBreakerProofs`, one breaker | `BreakerTypeCorrect`, `TrialsAreAccountedFor` (`HalfOpenAccounting`), `BreakerNeverWedges` (`NeverWedged`), `StreakOpensCircuit` (`ClosedOnShortStreak`), `OpeningNeedsStreak` (`OpensOnlyOnStreak`), `StaleAdmissionsAreRefused` (`StaleAdmissionRefused`) | `LockHeldOnWire`: the mutex is held by exactly the caller on the wire, so at most one call is in flight. `HalfOpenAccounting`: trial calls = successes + the one in flight; this bounds the counters, and fails if the lock is released during the request. `ClosedAccounting`: the failure counter is the streak callers saw. |
| `CircuitBreakerProofs`, the manager | `TypeCorrect`, `BreakersAreShared` (`OneBreakerPerObserver`), `NoFailureIsLost` (`FailuresAreCounted`), `CleanupLosesLittle` (`CleanupForgetsOnlyLate`) | `Locks`: the clean-up holds the map's write lock while it works, and nobody loops over the map then; `Map`: every observer has a breaker of its own, and a removed one is not in the map; `References`: who holds a breaker, and that it is the one in the map or a removed one; `Loops`: a loop over the map meets only entries that exist; `Reads`: what the clean-up read of a breaker that was long without failure is still true when it reads the time; `Late`: from then to the delete, the failures it has counted are at most one per late request, each of which is past its call and cannot fail on it again; `Counts`: a closed breaker in the map has counted the streak. `FreshIdentity` counts references to show that an unused object exists. |
| `NodesProviderProofs`, the provider | `TypeCorrect`, `NodesAreHeldOnce` (`HeldOnce`), `ListsDivideNodes` (`ListedOnce`), `ReloadsAreSafe` (`ReloadedIsSafe`), `ProbesDecideRightly` (`SyncRule`) | `ListedOnce` alone is not inductive. `Lists`: either the cached lists of a shard say what the flags say, or all four are cached and were made together. `Pending`: a node in use that the round is still to ask has all lists of its shard cached, so the flag it gets is in no list that is yet to be made; this rests on `StartRound` reading every list first and on `Fresh`. `Loads`: one load per kind of node in the holders and in the round, so a number is left for the next one. `Round`: the round asks every node once. `Holders`: only a failed reload takes a holder away. |
| `NodesProviderProofs`, the refinement | `RegistryIsKept` (`ImplementsRegistry`) | Hypothesis `Calm`: reloads wait for the round, and every configuration has a regular node and names no node twice. Each part is needed: a round may undo a reload made meanwhile (run `nodes_lost_reload`), a file without a regular node leaves no holder, and a node named twice is asked twice. The `nodes` run satisfies it. `CalmInv`: a round has in it exactly the nodes in use, and all their lists are cached, so a flag it writes reaches no lookup; between rounds the lists say what the flags say (`GoodIsSynced`), so the end of a round publishes its verdicts at once. A lookup, a mapping refresh and a failed read are stutters, every other action is one action of the registry. |
| `NodesProviderProofs`, the goroutine | `LoopTypeCorrect`, `RoundsNeverStop` (`RoundsKeepComing`), `ClosingIsPrompt` (`StopsSoon`) | `Timing`: time waited and time left on the timer add up, and after a clean-up the round's timer is due before the next clean-up, so a clean-up delays a round once. `Closing`: a round begun after `Close` leaves the timer running, and time stands still until the goroutine sees the context. |
| `TransactionLookupProofs` | `TypeCorrect`, `HashesAreKnown` (`AskedWithItsHash`), `EveryShardIsAsked` (`NoShardForgotten`), `LookupIsComplete` (`ResultsAreComplete`), `LookupEnds` (`PassesAreBounded`) | what a fetched shard had at the start is in the result; at the return the map is closed under the results found, hence contains the least closed set; every pass is charged to a shard of its own (`PassCount`). |
| `BulkSendProofs` | `TypeCorrect`, `AnswersFitTogether` (`ReplyFitsTogether`), `NothingLeftOutSilently` (`MissingIsExplained`), `NoAnsweredGroupAgain` (`AnsweredOnce`) | `Phases`: a shard's group is to come, at work or behind, with its counters; acknowledged transactions belong to answered groups, so a new answer cannot collide. `IndexFacts`: `Index` is injective and has no gaps. |
| `ShardFanOutProofs` | `TypeCorrect`, `SuccessIsComplete` (`SuccessCoversShards`), `ActiveMessageWins` (`ActiveWins`), `CacheContents` (`CacheFollowsRefreshes`) | while no error is remembered, a shard that is behind has a fate its operation accepts; the entry of a key sums up what was heard; the counter equals the failures since the last good refresh. |
| `RequestFailoverProofs` | `TypeCorrect`, `NoTransactionTwice` (`NoSecondSend`), `SuccessNeedsAnswer` (`SuccessIsAnswered`), `DeadObserversAreSkipped` (`DeadObserverIsSkipped`), `SteadyObserverServes` (`GoodRequestsServed`) | every attempt but the last one said "next" and the last one says why the loop ended; in a calm world the breaker of a steady observer stays closed and no request at work has passed its steady observer. |
| `CircularQueueProofs` | `TypeCorrect`, `RotationIsFair` (`RotationCoversList`) | a window of positions is described without the modulo: a later position is the distance further, or the distance less the length of the list; two equal ones in a window no longer than the list are then impossible. |
| `ApiServerProofs` | `TypeCorrect`, `LimiterKeepsLimit` (`LimitIsKept`), `ConfigurationIsEnforced` (`HandledAsConfigured`) | the limiter's count of a limited path is the number of requests since the reset, and exactly those below the limit passed (`PassedExactly`); a request of a secured endpoint that is past its authentication was known, and one of a limited endpoint that was not checked has the limiter before it. |

Lemmas of general use: `Ranks`, `KeepFacts`, `ConcatFacts`, `TailFacts` and
`AppendFacts` in `NodesProviderProofs` say which elements the operations on lists
keep and when they repeat none; they replace an induction over the lists.

Only model-checked: all liveness (`Recovery`, `RequestsReturn`, `OfflineIsFollowedUp`,
`CleanupRuns`, `CloseEnds`), which is out of the prover's reach. Every other property
of the passing runs is a theorem.

## 5. Findings

One disagreement is a run of its own, `nodes_lost_reload`, quoted with its lines in
`PROJECT.json`. The others were met while modelling; the models reproduce them, and
the properties are stated so that they say what the code does guarantee.

Breakers and fail-over:

* Trial slots of a half-open breaker are not given back: with
  `HalfOpenMaxCalls < SuccessThreshold`, which nothing refuses, the trials run out,
  and the circuit neither closes nor opens again (`common/circuitbreaker.go:66`;
  `CIRCUIT_BREAKER_IMPLEMENTATION.md:100` promises automatic recovery).
  `NeverWedged` has the inequality as a premise, and the `breaker` run, with
  `Recovery`, configures the two equal.
* A request that looked its breaker up before the clean-up dropped it counts its
  failure on an object nobody else sees (`common/circuitbreaker_manager.go:161`).
  `FailuresAreCounted` is about the breaker in the map.
* The clean-up tests a breaker and deletes it while calls that hold only the
  breaker's lock go on. A failure counted after the last test
  (`common/circuitbreaker_manager.go:160`) is deleted with the breaker, and with enough
  such calls the breaker is open when it is dropped, against the comment on line 157,
  "Only clean up breakers in closed state that haven't failed recently". It takes a
  breaker without failures for ten recovery timeouts and `FailureThreshold` requests
  in flight; `CleanupForgetsOnlyLate` says that nothing else is forgotten.
* An open breaker returns status 503, which ends the "send" and "query" loops
  although the next observer may be up (`process/transactionProcessor.go:164`;
  the same document, line 108, says requests are routed to healthy observers).
  `DeadObserverIsSkipped` is about observers that do not answer.
* An observer that answers error statuses is cut off like a dead one: every status
  other than 200 is a failure to the breaker (`process/baseProcessor.go:361`). A client
  that asks for blocks that do not exist can open the breakers of a whole shard.
  `GoodRequestsServed` therefore assumes well-formed requests.
* The "key" loops take 400 and 500 for an answer and return the untouched, empty
  response as a success (`process/accountProcessor.go:169`), and the "query" loop does so
  with a 200 that does not parse (`process/scQueryProcessor.go:90`).
  `SuccessIsAnswered` is stated for the send and block loops only.

Nodes:

* A reload that reports "not reloaded" has already replaced the shard list and the
  regular holder, by nil if there is no regular node; the next check round then
  ends the process (`observer/baseNodeProvider.go:162`).
* A reload does not repeat the validation of the start
  (`observer/baseNodeProvider.go:156`): shards with only snapshotless nodes are
  accepted.
* A round stores synced nodes before unsynced ones, so the order of the
  configuration file is lost with the first node that misses a round.
* The checker's mapping refresh uses the balanced lookup and moves the counter
  that requests are balanced by (`process/baseProcessor.go:507`).
* A check round may be late by a whole delay: a clean-up that is chosen while both
  timers are ready throws the other expiry away (`process/baseProcessor.go:540`).

Replies from several shards:

* `GetAccounts` takes 400 and 500 for an answer and looks for the error in a
  response that `executePostRequest` left untouched: such a shard contributes no
  accounts and no error (`process/accountProcessor.go:142`), while
  `accountProcessor_test.go:531` expects an error "if a shard returns error" (its stub
  fills the error in together with a nil error).
* A bulk send whose groups nobody answers is a success with 0 transactions sent;
  a shard without observers turns the whole reply into an error although other
  groups were sent (the TODO at `process/transactionProcessor.go:279` knows).
  The indices of the reply count the batch without its invalid transactions.
* A cross-shard lookup returns smart contract results also when they were not
  asked for. A lookup with the sender's address asks two shards only. A shard
  whose nodes all fail is marked as fetched (`process/transactionProcessor.go:895`).
* `GetBlocksByRound` and the pool leave out shards that fail; heartbeats leave out
  shards without observers. The latest synchronized hyperblock nonce asks only the
  shards of which the provider lists an observer (`process/nodeStatusProcessor.go:344`):
  a shard without any, by configuration or after a reload, is silently left out of
  the minimum. `SuccessCoversShards` is about the shards that were asked.
* Validator statistics that come as a 200 without statistics are a successful
  refresh that the cacher refuses (`process/cache/validatorStatsMemCacher.go:37`): the
  cache keeps what it had.
* The heartbeat and validator statistics caches are served for as long as
  refreshes fail, whatever their age, though `config.toml:9-15` speaks of "the maximum
  number of seconds" the data is valid.

API:

* The request that reaches a rate limit is refused (`api/middleware/rateLimiter.go:49`):
  a limit of 5 lets 4 pass, where `config.toml:33-34` says "after 5 requests".
  `rateLimiter_test.go` expects what the code does. `LimitIsKept` leaves that one
  request open; the proof's `PassedExactly` says what the code does with it.
* Limits are keyed without the version's prefix (`api/api.go:211`) and looked up by
  the full path, so `/v1.0/...` is not limited although `v1_0.toml:9-10` says so: such
  a request goes through the limiter (`HandledAsConfigured`), which does not count it.
* Counts are reset at fixed times: a client may make twice its number of
  requests around a reset. A refused authentication is not counted.
* Answers 401 and 429 are given before the metrics middleware runs and are in no
  metric. The metrics report is read from records that change meanwhile
  (`metrics/statusMetrics.go:67`).
* At start, the timeout for the number of shards is created anew in each turn of
  its loop (`process/numShardsProcessor.go:98`) and never elapses when it is longer
  than the ticker's period, as with the shipped 90 seconds (`config.toml:42-43`).

## 6. Not modelled

* The status of a transaction, transaction costs, the logs merger, the hyperblock
  builder, sums of supplies and minima of nonces: pure functions of answers.
* The number of shards at start, command line and wiring: they run once, before
  anything else does.
* Status metrics, loggers, facade, versions, request validation and formatting:
  no state that a decision depends on. The circuit breaker endpoints are written
  but not registered.
* The other JavaScript files beside the page's initializer are the minified
  bundles of Swagger UI.
* Two reloads with files of different age, read before the lock is taken
  (`observer/baseNodeProvider.go:142`): the model has reloads with any
  configuration in any order, and no age.
* The chain itself: an observer is whatever answers.

What would come next: a composition of `SyncCheckLoop` with `NodesProvider`, so that
the rounds come from the goroutine's timers; a second refinement, of
`CircuitBreakerManager` by one `CircuitBreaker` per observer between two clean-ups;
`computeTransactionStatus` against a reference definition.
