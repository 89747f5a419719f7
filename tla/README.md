# ScreenerCD: specifications and proofs

TLA+ models of the screener (`cmd/screener-core`, `internal/`): a Go service that
keeps WebSocket sessions to centralised exchanges and Uniswap pools, derives USD
prices of DEX tokens over a shared graph, and writes every quote into Redis. The
models are translated from the code; TLC checks them on small instances, and TLAPS
proves every safety property the runs check for every value of the constants.

## 1. Inventory

| Part | State | Operations | Interacts with |
|---|---|---|---|
| Worker pool (`main.go:263-329`) | per worker: batch, flush timer; shared counters | receive, append two entries, flush on size or timer | takes from `dataChannel`, calls `HSetBatch` |
| Redis wrapper (`redisclient/client.go`) | connection pool, retries of the library | `HSetBatch`, single-key helpers, `Ping` | Redis |
| Shutdown (`main.go:386-394`) | `stop` | close `stop`, sleep 2 s, return | supervisors, launchers; *not* the workers |
| Supervisor (`main.go:24-61`) | backoff | run, wait, back off, restart | launchers' functions, `stop` |
| CEX launchers (`launcher/register_cex.go`) | one client per run | dial, subscribe, start goroutines, forward, close | clients, `dataChannel`, `stop` |
| CEX clients (`exchange/*.go`) | connection, `out` | `ReadLoop`, `KeepAlive`, `Close` | venue, forwarder |
| Graph pricer (`dex/pricing`) | edges, symbols, anchors under one RWMutex | `RegisterStable`, `UpdatePair`, `ResolveUSD` | all DEX connectors |
| Uniswap V2 connector | pools and the order of their tokens, last prices | load and check the pools, run loop, reader, ping, drop threshold, USD emission | token registry, RPC, pricer, `dataChannel` |
| Uniswap V3 connector | package variables: pools, token cache, WETH price | run loop, reader, ping, metadata check on the chain, quotes, WETH price | RPC, pricer, `dataChannel` |
| Uniswap V4 connector | pool states, acknowledgement state | bootstrap, subscribe, acknowledge/retry, swap handling, once mode | token registry, pricer, `dataChannel` |
| Token registry (`internal/assets`, `v2_connector.go:66-245`) | built once from a file | validate, fall back, resolve | connectors |
| DEX launchers (`launcher/register_dex.go`) | the context of a run | configure, turn `stop` into a cancelled context | connectors, supervisor |
| Key normaliser (`redisclient/normalize.go`) | none of its own | scan, merge, delete | Redis (not called by the service) |
| Launcher registry, config, symbol loading | built once at start | load, validate, resolve | `main` |
| Logger | file of bounded length | write, trim | everybody |
| Health monitor, metrics logger | previous counters | tick | counters, log |
| `exchange/connector.go`, `exchange/uniswap.go`, `processor` | | never reached | |

What is hard in it, and what has to be true:

* **Ordering.** A pool of workers shares one channel, batches on its own and writes
  without transactions or versions. A hash should move forward in time, and where it
  cannot, it must be clear why. A venue's quotes pass three hand-overs (unbuffered
  channel with drop, blocking send, shared channel) and must stay in order.
* **Failure.** Pipelines fail as a whole, in part, or only from the client's point of
  view, and the Redis library sends them again on its own. What was received must be
  accounted for, and what is counted as written must be there.
* **Shutdown.** `stop`, a fixed sleep and goroutines that do or do not watch `stop`
  decide what is lost.
* **Restarts.** Exactly one live session per venue; a broken one is replaced.
* **Subscriptions.** An acknowledgement may come late, twice, negative or never, while
  the timer, the connection and the shutdown go their own ways. The stream must not
  end up listening to nothing.
* **Orientation.** A pool is described by a file, by a registry and by its contract,
  and they disagree; the contract is asked over RPC calls that fail. A price must
  belong to the name it is published under, and be priced in money.
* **Left-over goroutines.** Readers, pingers and handlers watch different contexts, or
  none, and block on each other's buffers and on the shared channel.
* **Shared graph.** Updates take the lock several times, quotes arrive out of order,
  the search visits neighbours in the arbitrary order of a Go map.

Every hazard, with its line and the properties that cover it, is in `PROJECT.json`.

## 2. Modules

```
QuoteStore  <-- refined by --  RedisPipeline     CexFeed     GraphPricer
                                 MCRedisPipeline   MCCexFeed   MCGraphPricer
                                 RedisPipeline-    CexFeed-    GraphPricerProofs
                                   Proofs            Proofs      <-- GraphSearchProofs

TokenRegistry  <-- extended by --  UniswapV2         UniswapV3         UniswapV4
                                   MCUniswapV2       MCUniswapV3       MCUniswapV4
                                   UniswapV2Proofs   UniswapV3Proofs   UniswapV4Proofs
```

Below a component module stand the modules that extend it: its instances for TLC and
its theorems.

Each component module holds its state, one action per operation, its properties, and,
just before the definition they would replace, plausible wrong versions of single
actions (comments "Mutant"). With each of them TLC finds a violation of the property it
is listed with, so the properties do look at the code. `MC` modules give constants
their values and, for the searches, a set of initial graphs.

### RedisPipeline (`main.go:178-191, 263-329, 386-394`, `client.go:68-117`)

A quote is the number of its entry into the channel. `published` remembers what each
was about, `taker` who received it (both history variables). A hash holds the number
of the quote stored in it, 0 when it is absent. The code writes price, timestamp,
exchange and symbol of one quote with one HSET, so the number stands for all fields.

| Code | Model |
|---|---|
| `forward` and the connectors' sends | `Send` |
| receive case, both appends, size comparison | `Take` |
| timer case | `TimerFlush` |
| `HSetBatch` up to `Exec`, the answers of Redis | `BeginExec`; `Exec`, `Reject` (external), one command each |
| a broken connection or a timeout inside `Exec` (client.go:107): the library sends the whole pipeline again | `Retry` |
| the same in the last attempt, or no connection to send it on | `Fail`: `HSetBatch` returns the error, `flush` counts it and drops the batch |
| `flush` after an answered pipeline, re-arming the timer | `Return` |
| commands of an attempt given up, still on the wire | `LateExec`, `LateLost` (external) |
| signal, `close(stop)`; 2 s sleep; `return` | `Stop`; `Tick` (100 ms of the sleep), phase `exited` |

The options of the client (client.go:18-22) leave `MaxRetries` at the default of
go-redis v8, which is 3: an attempt that breaks or times out is repeated from its first
command on another connection, and the worker, which waits inside `Exec`, sees the
outcome of the last attempt only. `attempt` counts the attempts given up; each of them
leaves its unanswered commands in `late`, where they may be executed at any time, or
never. A command that Redis refuses is an answer: the others are executed, and nothing
is repeated. `lateHashes` (the hashes such a leftover wrote to last) and `resends` (how
often a pipeline was repeated) are history variables for the properties.

`Tick` is the passing of one flush interval. It waits for every goroutine that can
run. A worker inside `HSetBatch` does not hold it up once it had `CommandsPerTick`
answers in the interval (`owed` counts down the rest): that is how fast Redis is at
least, and with 0 it may stall for as long as it likes. A backlog of the channel thus
takes as many intervals as its commands need, one pipeline after the other. That makes
the two timeouts, 100 ms and 2 s, and the speed of Redis comparable without a clock;
`GraceTicks` is the second in units of the first. Sends stop with the first interval
after `stop`, because the forwarders return then; a DEX connector that is slower to end
is outside the model.
The channel is never closed by the code, so the `!ok` branch (main.go:294) is dead
and left out.

### QuoteStore

What readers of Redis would like to rely on: quotes are published one after the other,
and a hash only moves to later quotes of its own. `RedisPipeline` implements it with
one worker and no failing pipeline, mapping `store` to `redis`. With several workers, or
with one pipeline sent again, it does not; `SameWorkerOrder` and `SettledStore` say what
holds then. Note what they exclude: a hash may go back while a worker repeats a pipeline
with two quotes of it, and a leftover of an attempt given up may put an old quote into it
for good, while the counters show no error, because a later attempt succeeded.

### GraphPricer (`graph_pricer.go`)

`UpdatePair` is four steps (arguments; two registrations; both edges), as the code
takes the lock three times. `ResolveUSD` is a search that holds the read lock:
`StartSearch`, `Pop`, `Visit` for one neighbour, `Return`. The write steps wait until
no search runs (`Unlocked`). Which neighbour comes next is free, as in Go. Weights are
natural numbers in units of `Epsilon`; a price is an abstract value with an inverse or
`Overflow`, the price of a route is the product along it and is represented by the
route. Calls that return before the first lock (bad price, empty address) and the
answer for an anchor change nothing and are no steps. Not modelled: a product along a
route that leaves the range of float64 (the code skips that neighbour).

### CexFeed (`main.go:24-61`, `register_cex.go`, `bybit.go` and its siblings)

Per venue a supervisor (`sup`, `backoff`) and the function it runs (`fn`, `session`,
`held`); per session of a venue a connection, a `ReadLoop` and a `KeepAlive`. A quote
is the number of the frame it came with. `ReadFrame` hands a quote to a waiting
forwarder, or drops it; that stands for the skipped frames too. `ForwardSend` blocks
on the shared channel and ignores `stop`. A delay of a second or more is always
interrupted by `stop` when it comes first, so `DelayOver` needs `stop` open.
A panic of the function closes `done` like a return and adds nothing. The four clients
have their loops alike; the definitions are mapped to one or the other of them.

### UniswapV4 (`v4_connector.go`, `register_dex.go:184-195`)

The connector under its supervisor. A connection is a number, and all that belongs to
one is a record of `ses`: its link, its reader with the frame in hand, its buffer, the
requests the venue has yet to answer (`asked`), the subscriptions it serves (`subs`).

| Code | Model |
|---|---|
| `ensureABI`, `bootstrapPools` | `Bootstrap` with `Prepared`, `FromFile` |
| loop of `Run` | `Dial`, `Subscribe`, `EndStream`, `Sleep` |
| `select` of `runStream` | `StreamCancelled`, `ReaderEnded`, `AckTimeout`, `TakeFrame` |
| a failed subscription, the sleep and the retry | `Failed`, `Resubscribe` |
| `handleSwapEvent`, `storeSwapMetrics`; the sends | `HandleSwap`, `Completes`; `SwapDone` |
| `readLoop` | `ReadFrame`, `ReadError`, `Push` |
| goroutine of the launcher; supervisor | `PropagateStop`; `Supervise`, `Restart` |

The timer of an acknowledgement fires whenever it is armed (`waiting`), so that every
answer may be late. A write into a broken connection may succeed. `emitted` is the
code's own mark of a pool, `seen` a history variable that says what it should be.

### TokenRegistry and UniswapV2 (`internal/assets`, `v2_connector.go`)

`TokenRegistry` holds operators only: when a file is refused (`Valid`), what stands in
for it (`NewTokenRegistry`), and what a token is taken for (`Kind`). `UniswapV2`
extends it. Its initial states are what the launcher has built: the pools of one of
`Files` (`LoadPools`: filters, base token, first entry of a pool, reference pools).

| Code | Model |
|---|---|
| `AdjustPoolsOrdering`, for any set of pools whose call succeeds | `AdjustOrder`, `Swapped` |
| loop of `Run` | `Dial`, `Subscribe`, `StreamCancelled`, `ReaderEnded`, `Sleep` |
| `handleRaw`, `shouldDrop` | `TakeFrame`, `HandleRaw`, `Kept`, `Near` |
| `publish`: quote, `UpdatePair`, both tokens in USD | `SendSpot`, `UpdatePair`, `SendUSD` (twice) |
| `readLoop`; `keepAlive` | `ReadFrame`, `ReadError`, `Push`; `PingerEnds` |
| another connector at the pricer | `OtherUpdate` |

A price is a fraction of the two reserves. Decimals multiply all prices of a pool by
one factor, which cancels out of every comparison here, so that they are left out.
Of the graph the model keeps, per pool, whose update of its pair is in it;
`UpdatePair` leaves another connector's update where it is when `setEdgeLocked` refuses
ours as not newer and not heavier.

### UniswapV3 (`connect_uniswap_v3_all.go`)

One run of the connector; its package variables are variables. Of a price the model
keeps whose tokens it relates, in which order, under which symbols (those of the
tokens, or made up), and whether the decimals were applied.

| Code | Model |
|---|---|
| `v3Run`, `v3LoadPools`; supervisor | `Load`, `LoadPools`; `Restart` |
| `v3RunLoop`, `v3SubscribeAll` | `Dial`, `Subscribe`, `Sleep`, `StreamCancelled`, `ReaderEnded` |
| `v3EnsurePoolMeta`, `v3FetchTokenMeta`, the lazy check | `Ensured`, `FetchTokenMeta`, `Checked` |
| `v3HandleSwap` up to the quotes, `v3MaybeSetWETHUSD` | `HandleSwap`, `MaybeSetWETHUSD` |
| `v3EmitPair`; `v3UpdatePricing`; `v3EmitUSDWithPricer` | `EmitPair`; `UpdatePricing`; `EmitUSD` |
| `v3Read`, `v3Ping` | `ReadFrame`, `ReadError`, `Push`, `PingerEnds` |
| `util.Fatalf` on a rejected subscription | phase `exit` in `TakeFrame` |

The entries of the file name both tokens by their symbols (`Configured`; an entry
without a symbol is not modelled), and of the quotes in USD the model has the step, not
the price, which is the pricer's.
Every RPC call may fail, each time anew; what the cache remembers is `cache`. The
handler is the only one to take a slot of the metadata semaphore, so that it is always
free.

In the three connectors a send into the shared channel is a step that fairness lets
happen: the workers of `RedisPipeline` take quotes for as long as the process lives.

## 3. Runs

| Run | Question | Bounds |
|---|---|---|
| `pipeline_pool` | whole batches, accounting, order, settled store | 2 workers, 2 raw keys with one canonical key, 3 quotes, channel 2, pipeline size 3, 2 faults, 1 retry per pipeline, stalling Redis, 1 grace interval |
| `pipeline_single` | convergence (liveness), implements `QuoteStore`, drained exit | 1 worker, 5 quotes, no failure, 5 commands per interval, 4 grace intervals |
| `pipeline_shutdown` | *violated:* batches are flushed before the end | 1 worker, 2 quotes, stalling Redis |
| `pricer_updates` | one quote per pair, registration, sound candidates | 3 tokens, 2 updaters, 1 reader, 2 calls, 2 times, weights bad/3, prices 2, 1/2, tiny |
| `pricer_search` | heaviest route, freshest direct anchor | every graph of 4 tokens, 2 weights, 2 times |
| `pricer_shortest` | *violated:* the route is a shortest one | every graph of 4 tokens, 2 weights |
| `feed_safety` | one live session, order per venue | 2 venues, 2 frames and 2 sessions each, channel 1 |
| `feed_liveness` | restart, shutdown (liveness) | 1 venue, 3 sessions, 2 frames |
| `v4_stream` | never deaf, complete once mode, delay held; every wait, connection, reader and run ends (liveness) | 2 pools, 4 files, 2 runs, 2 connections of 2 answers and 1 swap, 2 attempts, buffer 1, delays 2, 4 s |
| `v2_stream` | orientation, money, threshold, one reader, USD with the event; breaks and runs end (liveness) | 1 pool, 4 files, 2 connections of 2 events, 4 pairs of reserves, threshold a 4th, buffer 1, delays 1, 2 s |
| `v3_stream` | right after the check, stables anchored, best WETH price; connections end (liveness) | 2 pools, 4 tokens, 3 files, 2 connections of 2 frames, buffer 1, delays 2, 4 s |
| `v3_normalised` | *violated:* every quote is normalised | as `v3_stream` |

Why these bounds are enough for the interesting cases. Pipeline size 3 is odd, so that
a batch overshoots it (4 entries) and the timer flushes shorter ones. Three quotes over
two workers allow a hash to be overwritten in either direction, within one batch and
between workers, and a leftover to come after a newer quote; two faults are a retry that
succeeds, one that fails too, and leftovers of two attempts at once. In
`pipeline_single` the grace intervals and the speed of Redis just satisfy the hypotheses
of `ShutdownDrains`, and the backlog of a full channel takes more than one interval.
Two updates of one pair with two times and a replaced weight reach every branch of
`setEdgeLocked`; `tiny` has no finite inverse. Four tokens with three hops contain every route the code admits, with ties and detours. A channel of
one and two venues makes forwarders wait for each other's quotes. Three sessions go
through two delays.
In the connectors a buffer of one frame is full with the next, so that a reader
blocks while the handler sends; two connections are one break and one replacement,
and the delay reaches its limit with the first doubling. Two answers per V4 connection
are enough for a late acknowledgement after a repeated request, and for a rejection
after an acknowledgement; two attempts for a retry and for giving up; two pools and
one swap each for a once mode that is complete only over two connections. The V2
reserves make a step below the threshold, one exactly at it, and two small ones that
add up; its files have the tokens right, flipped, with a second stable, with a foreign
token, and twice. The V3 pools price WETH in stables of different priority, and their
files have the tokens right, flipped, foreign, without decimals, twice and incomplete.
`MaxQuotes`, `MaxFaults`, `MaxUpdates`, `MaxFrames`, `MaxSessions`, `MaxRuns`,
`MaxAnswers`, `MaxSwaps` and `MaxEvents` are bounds of the models; the code has no
such limits, and the proofs hold for every value of them. `pricer_search` starts in every graph that one update per pair can build, so
that no update has to be taken in it.

The largest spaces are `pipeline_pool` (3.1 million distinct states, under symmetry of
workers and keys), `feed_safety` (1.6 million, under venue symmetry), `pricer_updates`
(0.9 million), `pricer_search` and `v3_stream` (0.5 million each), `v2_stream`
(0.2 million) and `v4_stream` (0.1 million); the others are below 16,000. The runs
with liveness use no symmetry.

Deadlock is checked where the system goes on for ever (the pipeline: after `exited`
only `Terminated` stutters; the pricer). The feed and the connectors may stop when their bounds are used up
or after a shutdown, and their runs do not check it.

**Fairness.** `RedisPipeline!FairSpec`: weak fairness of the workers' own steps, of
Redis answering, and of time; nothing obliges a venue to send, a pipeline to fail or a
late command to be executed. `CexFeed!FairSpec`: weak fairness of the goroutines, of
timers and of the workers consuming the channel; separately of `SupervisorStops` and
`ForwardEnds`, because a `select` with a closed `stop` cannot prefer its other cases
for ever (the frames of a behaviour are bounded, so that weak fairness says as much
here as strong fairness would without the bound). The venue need not send, connections need not break, no signal need come.
The `Fairness` of each connector: weak fairness of the goroutine of `Run` as a whole
(`RunStep`), of the readers' errors and sends and of the pingers, as Go schedules
every goroutine that can run and timers fire; in `UniswapV4` also of the launcher's
goroutine and of the supervisor. `ReadFrame` is not fair: a venue may stay silent, and
then no acknowledgement and no event ever comes. Neither are breaks, `stop` and other
connectors. A ready `ctx.Done` competes with frames in a `select`; the frames are
bounded, and a select that is always offered both picks each with a chance of a half.

What a passing run leaves as it is: the delay of V4 stays at 30 s after a few breaks,
however long a stream lasted (`DelayHeld` says why it must not shrink on a break); a
V4 connector in once mode is started again by the supervisor; a V2 connection whose
subscription was rejected stays open and silent; the V3 WETH price is set once per
stable and used in log lines only; a V2 or V3 reader before a full buffer stays there
for good after its run was cancelled. None of these contradicts a document.

### Findings

* The architecture guide (`docs/project_documentation.md:12`) says shutdown happens
  after the remaining batches are flushed. `main` waits 2 s and returns; with a Redis
  slower than that, batches and queued quotes are lost (`pipeline_shutdown`).
  `ShutdownDrains` says which speed is enough.
* The comment on `ResolveUSD` (`graph_pricer.go:225`) and the guide (line 22) promise
  the shortest route. The code prefers the heaviest bottleneck, then freshness
  (`pricer_shortest`); `HeaviestRoute` states what it does compute.
* The guide (line 20) says the V3 connector checks tokens and decimals on the chain and
  emits normalised quotes. While the check has not succeeded, it publishes in the order
  of the file, and at the raw scale when decimals are missing
  (`connect_uniswap_v3_all.go:801-807`, `v3_normalised`); `VerifiedRight` states what
  holds from the check on.

## 4. Theorems

All in the `...Proofs` modules, for every value of the constants that satisfies the
assumption named in the component's module. What these assume, and why the code
justifies it:

* `PipelineAssumption`, `FeedAssumption`, and in the other modules the lines about
  numbers: there are workers, finitely many, sizes and capacities are positive (the
  configuration replaces others), bounds of the model are natural numbers.
* `PricerAssumption`, `NoEdgeAssumption`: anchors are tokens, an inverse of an inverse
  is the price again, a weight is at most `math.MaxFloat64`.
* `V2Assumption`, `V3Assumption`, `V4Assumption`: the two tokens of a contract differ
  (the factories see to it), files have entries, the names that stand for frames which
  are no events are no pools, and the limit of a delay is not below the first delay
  (V4's `Run` has them as constants, 30 s and 2 s).

Two theorems have a hypothesis of their own, `Separated`: two weights that occur are
equal or more than `equalWeightEpsilon` apart. It says nothing when weights are compared
exactly (`ExactSeparated`). The code compares with a tolerance of 1e-6 on reserves and
swapped amounts; of two ways whose weights differ by less, the search may take the
lighter one, so that the two properties do not hold without the hypothesis.

| Theorem | Says | Argument |
|---|---|---|
| `RedisPipelineProofs!TypeCorrect` | `Spec => []TypeOK` | with `ChannelInOrder` (the channel is the tail of the published numbers, `taker` covers the rest) and `ControlInv` |
| `OrderPerWorker` | `Spec => SameWorkerOrder` | `OrderInv`: a batch holds only quotes its worker took, in order and without a gap (`BatchOwned`, `BatchInOrder`, `BatchComplete`); no hash, and no leftover of an attempt, holds a quote of a worker that is newer than one that worker has still to execute, unless the worker is sending again the pipeline that quote is in (`StoreNotAhead`, `LateNotAhead`) |
| `StoreSettles` | `Spec => []SettledStore` | `StoreInv`: a hash holds a quote that was published for it (`StoreOwned`), and a hash a leftover wrote to last holds something (`LateWritten`); while no error is counted, every other quote that is newer than the one of its worker in a hash, or belongs to an empty hash, still waits in its worker's batch behind what that is known to have stored (`NothingLost`). A retry forgets what was stored and keeps the batch, which is why nothing is lost by it |
| `QuotesAddUp` | `Spec => []QuotesAccounted` | `AccountInv`: the collected entries are as many as the sum of the batches (`Slots`); a receive adds two, a flush takes out the length of its batch, which `WholeInv` keeps between 2 and the size plus one |
| `BatchesWhole` | `Spec => []WholeQuotes` | `WholeInv`: `WholeQuotes` is inductive beside `TypeInv`; only `Take` lengthens a batch, and it compares the size at once |
| `ShutdownDrains` | `Spec => []DrainedAtExit` if `CommandsPerTick > PipelineSize + 1` and `Cardinality(Workers) * CommandsPerTick * (GraceTicks - 2) >= 2 * ChanCap + Cardinality(Workers) * (PipelineSize + 1)` | `DrainInv`: as long as quotes wait in the channel after `stop`, no worker can idle, so that what is left in channel and batches shrinks by `CommandsPerTick` per worker and interval (`Backlog`); in the last interval the channel is therefore empty and every worker has nothing left or gets through the rest (`LastInterval`) |
| `ImplementsStore` | `Spec => StoreSpec` with one worker, `~RedisMayFail` | `Exec` is `Write` of a later quote or a rewrite of the same one, `Send` is `Publish`, everything else stutters; needs `OrderInv`, `late = {}` and that no worker is in a second attempt |
| `GraphPricerProofs!TypeCorrect` | `Spec => []TypeOK` | with `CallInv` and `WeightsBounded` |
| `CandidatesSound` | `Spec => []CandidateSound` | `SearchInv`: every queued item, the current one and the candidate is a walk of the graph, measured correctly (`ItemOK`, `BestOK`); stable because no edge changes under the read lock |
| `TokensRegistered` | `Spec => []EdgesRegistered` | `RegisterInv`: a call past a registration has its token registered |
| `PairsReciprocal` | `Spec => []Reciprocal` | both directions decide alike because they carry the same weight and time |
| `GraphSearchProofs!HeaviestWins` | `Spec => []HeaviestRoute` if `Separated` | `AnswerInv`, see below |
| `FreshestWins` | `Spec => []FreshestDirect` if `Separated` | `Direct` in `AnswerInv`: every pair with an anchor is dominated by the candidate, or the first item is still in the queue or being expanded |
| `CexFeedProofs!TypeCorrect` | `Spec => []TypeOK` | inductive as it stands; the delay stays between 1 and 60 s |
| `NoOverlap` | `Spec => []OneLiveSession` | `SessionsApart`: a session to come has nothing, one that is over has neither a connection nor a `ReadLoop`; a function that ended with its `ReadLoop` alive ended because of `stop` and is not run again |
| `InVenueOrder` | `Spec => []VenueOrder` | `QuotesOrdered`: what is held, in the channel or consumed of a venue is numbered in this order, and nothing beyond its last frame |
| `UniswapV4Proofs!TypeCorrect`, `AlwaysSubscribed` | `Spec => [](TypeOK /\ ConnectionInv)`, `Spec => []NotDeaf` | `ConnectionInv`: an acknowledgement on its way, read or buffered, means a subscription on its connection (`Sound`), so that the timer is stopped only on one that has some |
| `OnceIsComplete` | `Spec => []OnceComplete` | `OnceInv`: a marked pool had its swap, and the swap in hand completes the mode only if it marked the last pool |
| `DelayNeverShrinks` | `Spec => DelayHeld` | each step of `Run` doubles the delay up to the limit or leaves it |
| `UniswapV2Proofs!TypeCorrect` | `Spec => [](TypeOK /\ EventInv)` | with `RunInv`: the handler has a connection, an event of one of its pools, and positive reserves |
| `ReadersApart` | `Spec => []OneReader` | `RunInv`: every connection before the current one is over, and none is begun before its time |
| `MoneyPrices` | `Spec => []PricedInMoney` | `MetaInv`: the kinds and the name of the two tokens survive `AdjustOrder`, which turns tokens and base together |
| `NoDriftEver` | `Spec => []NoDrift` | `PricesInv`: the reference is the price last quoted, but for the moment between the decision and the quote, and the last event is near the reference |
| `RightWayRound` | `Spec => []Oriented` | `MetaInv` and `PricesInv`: a confirmed pool has the order of the chain, and quotes are made from the metadata |
| `UsdAfterEvent` | `Spec => []UsdHasEvent` | `GraphInv`: once updated, the graph holds the event or a later update |
| `UniswapV3Proofs!TypeCorrect` | `Spec => []TypeOK` | with `RunInv` |
| `ContractOrder` | `Spec => []VerifiedRight` | `RightInv`: a verified pool has the tokens of its contract, and was published and priced since, or the handler is about to |
| `AnchorsFirst` | `Spec => []StablesAnchored` | `AnchorInv`: a registered pool has its stables among the anchors, and the handler registers before it prices |
| `BestWethPrice` | `Spec => []WethBest` | inductive beside `TypeInv`: a price is replaced only by one of a better rank |

The hypotheses of `ShutdownDrains` say how fast Redis has to be for the 2 s of `main`.
With a channel of 8192 quotes, 8 workers, pipelines of 300 entries and 20 intervals,
302 commands per worker and 100 ms are enough. A slower Redis may leave quotes behind
(`pipeline_shutdown`), and so may a pipeline that has to be repeated, which takes time
again.

None of the properties is inductive as it stands: `SameWorkerOrder`, for example, says
nothing about what a batch may contain, so a state with a batch of old quotes
satisfies it although its next step breaks it. `RedisPipelineProofs!IInv` is `TypeInv` with
`OrderInv`, `GraphPricerProofs!IInv` is `TypeInv` with `SearchInv`.

**The search.** `HeaviestRoute` speaks of all routes of a graph at the end of a loop
that prunes: a token is not queued again unless its new way is heavier, or as heavy and
shorter. `AnswerInv` therefore follows every route p to an anchor through the search.
If the search has reached the j-th token of p by a way as heavy as p and shorter than j
(`Reached`), then either the candidate already beats p, or an item as good as p waits
at p's j-th or a later token (`Covers`). When the last such item is expanded along p, it
either arrives at the anchor and competes, or is queued, or is passed over. In the last
case the next token has a label at least as heavy and at most as long, because the
search is breadth-first (`Levels`), so that it too was reached, and something waits
further on; that nothing does is a contradiction. An empty queue leaves the first
alternative only, and the source is reached from the beginning. The step from "something
waits" to "a last one waits" (`LargestExists`) uses a theorem on well-founded relations
over sets, as induction over a predicate is out of reach here. The limit of hops enters
where a token is cut off: p has no more than `MaxHops` edges, and its item has no more
than p. TLC checked `AnswerInv` on the instances of `pricer_search` and
`pricer_updates` before it was proved.

Only model-checked, because it is out of the prover's reach: liveness under fairness
(`Converges`, `Restarts`, `ShutsDown`, `WaitEnds`, `BreakNoticed`, `ReadersEnd`,
`RunReturns`, `SessionEnds`), freedom of deadlock, and `ENABLED`. Sums over the workers
(`Collected` in `QuotesAccounted`, `Slots` in the proofs) are cardinalities of sets of
pairs, because a recursive fold would need induction over a predicate.

## 5. Not modelled, and the plan

* `keepAlive` of V4 changes no state but the connection it pings, and its write is not
  told apart from the connection breaking; three goroutines writing to one websocket
  at once is a matter of the library.
* Numbers: the arithmetic of ticks, liquidity and big fractions; a price that does not
  fit a float, which the connectors drop; the decimals V2 reads from the chain for
  tokens it has below 10.
* The key normaliser, which the service does not call. The logger's file, the health and
  metrics loggers, on which nothing depends. Configuration and symbol conversions
  happen before anything runs; their results are constants.
* Parsing, formatting, ABI decoding, code the service never reaches (about a quarter of
  the repository's Go lines is in `test_scripts` and `scripts`, early versions of the
  connectors and one-off tools).
* A composition of the feeds and connectors with `RedisPipeline` over the shared channel:
  they meet in that channel only, in `Send` on one side and a blocking send on the
  other, and their product is beyond TLC at useful bounds.

Every safety property the runs check is proved. Proofs to come, in this order: safety
facts the liveness properties rest on (what a goroutine waits for is there, such as a
blocked reader with a context that is done); the orders of steps of the V2 and V4
handlers as refinements of one abstract feed, like `QuoteStore` for the pipeline; how much
lighter than the heaviest route an answer can be without `Separated`. The modules declare
no recursive operator.

## 6. Running

`tlc -config pipeline_pool.cfg MCRedisPipeline` and so on: `pipeline_*` with
`MCRedisPipeline`, `pricer_*` with `MCGraphPricer`, `feed_*` with `MCCexFeed`,
`v2_stream`, `v3_*` and `v4_stream` with `MCUniswapV2`, `MCUniswapV3`, `MCUniswapV4`.
`tlapm RedisPipelineProofs.tla` for the proofs, and likewise `GraphPricerProofs`,
`GraphSearchProofs`, `CexFeedProofs`, `UniswapV2Proofs`, `UniswapV3Proofs` and
`UniswapV4Proofs`.
