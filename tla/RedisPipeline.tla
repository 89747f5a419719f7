--------------------------- MODULE RedisPipeline ---------------------------
(***************************************************************************)
(* The consumer side of cmd/screener-core/main.go: the shared DataChannel, *)
(* the pool of Redis workers with their batches, flush timers and          *)
(* pipelines, the Redis hashes they write, and the shutdown of the         *)
(* process.                                                                *)
(*                                                                         *)
(* A quote (pb.MarketData) is its number: the n-th quote that entered the  *)
(* channel.  published[n] is the key, a venue and a raw symbol, it is      *)
(* about, and a hash of Redis is modelled by the number of the quote       *)
(* stored in it.  Price, timestamp and the two names a hash repeats are    *)
(* functions of that number.                                               *)
(***************************************************************************)
EXTENDS Naturals, Sequences, FiniteSetsExt

CONSTANTS
    Workers,        (* the goroutines of the pool, cfg.RedisWorkers         *)
    Keys,           (* pairs of a venue and a raw symbol                    *)
    CanonOf,        (* function: NormalizeSpotSymbol of a key, per venue    *)
    ChanCap,        (* cfg.DataChannelBuffer                                *)
    PipelineSize,   (* cfg.RedisPipelineSize, in entries (two per quote)    *)
    GraceTicks,     (* the 2 s shutdown sleep in flush intervals of 100 ms  *)
    MaxRetries,     (* of the Redis client, 3 where the options name none   *)
    CommandsPerTick, (* what Redis answers a waiting worker per interval    *)
    RedisMayFail,   (* commands may be refused, connections break, time out *)
    MaxQuotes,      (* bound on the quotes of a behaviour                   *)
    MaxFaults       (* bound on the failed attempts of a behaviour          *)

ASSUME PipelineAssumption ==
    /\ Workers # {} /\ IsFiniteSet(Workers)
    /\ ChanCap \in Nat \ {0}
    /\ PipelineSize \in Nat \ {0}
    /\ GraceTicks \in Nat \ {0}
    /\ MaxRetries \in Nat
    /\ CommandsPerTick \in Nat
    /\ RedisMayFail \in BOOLEAN
    /\ MaxQuotes \in Nat
    /\ MaxFaults \in Nat

VARIABLES
    published,      (* history: the key of every quote sent to the channel  *)
    dataChannel,    (* the buffered channel                                 *)
    taker,          (* history: the worker that received each quote         *)
    batch,          (* per worker, the entries collected since the flush    *)
    wpc,            (* per worker, "select" or "exec" (inside HSetBatch)    *)
    acked,          (* per worker, commands of its pipeline Redis answered  *)
    execErr,        (* per worker, one of those answers was an error        *)
    attempt,        (* per worker, attempts at its pipeline given up so far *)
    owed,           (* per worker, answers due before the interval is over  *)
    timer,          (* per worker, "armed" or "fired"                       *)
    redis,          (* per hash, the quote it holds, 0 when absent          *)
    late,           (* what attempts given up may still make Redis execute  *)
    lateHashes,     (* history: the hashes such an attempt wrote to last    *)
    resends,        (* history: how often a pipeline was sent again         *)
    totalRedisOps,
    totalRedisErrors,
    phase,          (* "running", "stopping" (stop closed) or "exited"      *)
    grace           (* flush intervals left of the shutdown sleep           *)

execVars   == <<wpc, acked, execErr, attempt>>
workerVars == <<batch, execVars, owed, timer>>
storeVars  == <<redis, late, lateHashes>>
counters   == <<resends, totalRedisOps, totalRedisErrors>>
vars == <<published, dataChannel, taker, workerVars, storeVars, counters, phase, grace>>

-----------------------------------------------------------------------------
(* A quote is written twice, under price:<venue>:<symbol> and under        *)
(* price_canon:<canonical symbol>:<venue>.                                 *)
RawHash(k)   == <<"price", k>>
CanonHash(k) == <<"price_canon", CanonOf[k]>>
HashesOf(k)  == {RawHash(k), CanonHash(k)}
HashKeys     == UNION {HashesOf(k) : k \in Keys}

Entry == [hash : HashKeys, quote : Nat \ {0}]

EntriesOf(n) == << [hash |-> RawHash(published[n]),   quote |-> n],
                   [hash |-> CanonHash(published[n]), quote |-> n] >>

(* totalProcessed counts received quotes; received quotes are exactly      *)
(* those with a taker.                                                     *)
totalProcessed == Len(taker)

Unacked(w) == SubSeq(batch[w], acked[w] + 1, Len(batch[w]))

-----------------------------------------------------------------------------
Init ==
    /\ published = <<>>
    /\ dataChannel = <<>>
    /\ taker = <<>>
    /\ batch = [w \in Workers |-> <<>>]
    /\ wpc = [w \in Workers |-> "select"]
    /\ acked = [w \in Workers |-> 0]
    /\ execErr = [w \in Workers |-> FALSE]
    /\ attempt = [w \in Workers |-> 0]
    /\ owed = [w \in Workers |-> CommandsPerTick]
    /\ timer = [w \in Workers |-> "armed"]
    /\ redis = [h \in HashKeys |-> 0]
    /\ late = {}
    /\ lateHashes = {}
    /\ resends = 0
    /\ totalRedisOps = 0
    /\ totalRedisErrors = 0
    /\ phase = "running"
    /\ grace = GraceTicks

(* A connector's blocking send.  Once stop is closed only the sends that   *)
(* were already under way complete, within the first interval.             *)
Send(k) ==
    /\ phase = "running" \/ (phase = "stopping" /\ grace = GraceTicks)
    /\ Len(dataChannel) < ChanCap
    /\ Len(published) < MaxQuotes
    /\ published' = Append(published, k)
    /\ dataChannel' = Append(dataChannel, Len(published) + 1)
    /\ UNCHANGED <<taker, workerVars, storeVars, counters, phase, grace>>

(* Entering HSetBatch: the whole batch becomes one pipeline.               *)
BeginExec(w) ==
    /\ wpc' = [wpc EXCEPT ![w] = "exec"]
    /\ acked' = [acked EXCEPT ![w] = 0]
    /\ execErr' = [execErr EXCEPT ![w] = FALSE]
    /\ attempt' = [attempt EXCEPT ![w] = 0]

(* Mutant: the size is compared with = instead of >=.                      *)
TakeExactSize(w) ==
    /\ phase # "exited"
    /\ wpc[w] = "select"
    /\ dataChannel # <<>>
    /\ LET full == batch[w] \o EntriesOf(Head(dataChannel))
       IN  /\ batch' = [batch EXCEPT ![w] = full]
           /\ IF Len(full) = PipelineSize
              THEN BeginExec(w)
              ELSE UNCHANGED execVars
    /\ dataChannel' = Tail(dataChannel)
    /\ taker' = Append(taker, w)
    /\ UNCHANGED <<published, owed, timer, storeVars, counters, phase, grace>>

(* The receive case of the worker's select: both entries are appended, and *)
(* only then is the size compared.                                         *)
Take(w) ==
    /\ phase # "exited"
    /\ wpc[w] = "select"
    /\ dataChannel # <<>>
    /\ LET full == batch[w] \o EntriesOf(Head(dataChannel))
       IN  /\ batch' = [batch EXCEPT ![w] = full]
           /\ IF Len(full) >= PipelineSize
              THEN BeginExec(w)
              ELSE UNCHANGED execVars
    /\ dataChannel' = Tail(dataChannel)
    /\ taker' = Append(taker, w)
    /\ UNCHANGED <<published, owed, timer, storeVars, counters, phase, grace>>

(* Mutant: the flush timer is not re-armed when there was nothing to flush *)
(* (flush returns early and takes the Reset with it).                      *)
TimerFlushNoReset(w) ==
    /\ phase # "exited"
    /\ wpc[w] = "select"
    /\ timer[w] = "fired"
    /\ \/ batch[w] # <<>> /\ BeginExec(w) /\ UNCHANGED timer
       \/ batch[w] = <<>> /\ timer' = [timer EXCEPT ![w] = "off"]
                          /\ UNCHANGED execVars
    /\ UNCHANGED <<published, dataChannel, taker, batch, owed, storeVars, counters, phase, grace>>

(* The timer case: flush whatever there is; an empty batch only re-arms.   *)
TimerFlush(w) ==
    /\ phase # "exited"
    /\ wpc[w] = "select"
    /\ timer[w] = "fired"
    /\ \/ batch[w] # <<>> /\ BeginExec(w) /\ UNCHANGED timer
       \/ batch[w] = <<>> /\ timer' = [timer EXCEPT ![w] = "armed"]
                          /\ UNCHANGED execVars
    /\ UNCHANGED <<published, dataChannel, taker, batch, owed, storeVars, counters, phase, grace>>

-----------------------------------------------------------------------------
(* Redis answers the next command of the pipeline of a worker.             *)
Answered(w) ==
    /\ phase # "exited"
    /\ wpc[w] = "exec"
    /\ acked[w] < Len(batch[w])
    /\ acked' = [acked EXCEPT ![w] = @ + 1]
    /\ owed' = [owed EXCEPT ![w] = IF @ = 0 THEN 0 ELSE @ - 1]
    /\ UNCHANGED <<published, dataChannel, taker, batch, wpc, attempt, timer, late,
                   counters, phase, grace>>

(* Redis executes a pipeline command by command: it is not a transaction,  *)
(* the commands of other connections come in between.                      *)
Exec(w) ==
    /\ Answered(w)
    /\ LET e == batch[w][acked[w] + 1]
       IN  /\ redis' = [redis EXCEPT ![e.hash] = e.quote]
           /\ lateHashes' = lateHashes \ {e.hash}
    /\ UNCHANGED execErr

FaultsLeft == RedisMayFail /\ resends + totalRedisErrors < MaxFaults

(* One command of the pipeline is refused; the others are still executed,  *)
(* and a refusal is no reason for the client to try again.                 *)
Reject(w) ==
    /\ FaultsLeft
    /\ Answered(w)
    /\ execErr' = [execErr EXCEPT ![w] = TRUE]
    /\ UNCHANGED <<redis, lateHashes>>

(* Both callers of flush re-arm the timer after it, the size case after    *)
(* draining an expiry that happened meanwhile.                             *)
BackToSelect(w) ==
    /\ wpc' = [wpc EXCEPT ![w] = "select"]
    /\ acked' = [acked EXCEPT ![w] = 0]
    /\ execErr' = [execErr EXCEPT ![w] = FALSE]
    /\ attempt' = [attempt EXCEPT ![w] = 0]
    /\ timer' = [timer EXCEPT ![w] = "armed"]

(* Mutant: the batch is not truncated after a pipeline that was answered.  *)
ReturnKeepsBatch(w) ==
    /\ phase # "exited"
    /\ wpc[w] = "exec"
    /\ acked[w] = Len(batch[w])
    /\ IF execErr[w]
       THEN totalRedisErrors' = totalRedisErrors + 1 /\ UNCHANGED totalRedisOps
       ELSE totalRedisOps' = totalRedisOps + Len(batch[w]) /\ UNCHANGED totalRedisErrors
    /\ BackToSelect(w)
    /\ UNCHANGED <<published, dataChannel, taker, batch, owed, storeVars, resends, phase, grace>>

(* HSetBatch returns after the last answer.                                *)
Return(w) ==
    /\ phase # "exited"
    /\ wpc[w] = "exec"
    /\ acked[w] = Len(batch[w])
    /\ IF execErr[w]
       THEN totalRedisErrors' = totalRedisErrors + 1 /\ UNCHANGED totalRedisOps
       ELSE totalRedisOps' = totalRedisOps + Len(batch[w]) /\ UNCHANGED totalRedisErrors
    /\ batch' = [batch EXCEPT ![w] = <<>>]
    /\ BackToSelect(w)
    /\ UNCHANGED <<published, dataChannel, taker, owed, storeVars, resends, phase, grace>>

(* The client gives up an attempt after any number of commands; of the     *)
(* others, those already sent may still reach the server.                  *)
GiveUp(w, sent) ==
    /\ phase # "exited"
    /\ FaultsLeft
    /\ wpc[w] = "exec"
    /\ late' = late \cup {p \in {[attempt |-> attempt[w], cmds |-> sent]} : p.cmds # <<>>}
    /\ UNCHANGED <<published, dataChannel, taker, owed, redis, lateHashes, totalRedisOps,
                   phase, grace>>

(* Mutant: the next attempt goes on behind the command whose answer did    *)
(* not come.                                                               *)
RetryRest(w) ==
    /\ attempt[w] < MaxRetries
    /\ GiveUp(w, Unacked(w))
    /\ attempt' = [attempt EXCEPT ![w] = @ + 1]
    /\ acked' = [acked EXCEPT ![w] = IF @ < Len(batch[w]) THEN @ + 1 ELSE @]
    /\ resends' = resends + 1
    /\ UNCHANGED <<batch, wpc, execErr, timer, totalRedisErrors>>

(* A broken connection or a timeout, inside HSetBatch and invisible to the *)
(* worker: the client sends the whole pipeline again, on another           *)
(* connection, and forgets the answers it had.                             *)
Retry(w) ==
    /\ attempt[w] < MaxRetries
    /\ GiveUp(w, Unacked(w))
    /\ attempt' = [attempt EXCEPT ![w] = @ + 1]
    /\ acked' = [acked EXCEPT ![w] = 0]
    /\ execErr' = [execErr EXCEPT ![w] = FALSE]
    /\ resends' = resends + 1
    /\ UNCHANGED <<batch, wpc, timer, totalRedisErrors>>

(* HSetBatch returns an error, of the last attempt or, at once, of one     *)
(* that got no connection.  The worker drops the batch.                    *)
Fail(w) ==
    /\ \/ attempt[w] = MaxRetries /\ GiveUp(w, Unacked(w))
       \/ acked[w] = 0 /\ GiveUp(w, <<>>)
    /\ totalRedisErrors' = totalRedisErrors + 1
    /\ batch' = [batch EXCEPT ![w] = <<>>]
    /\ BackToSelect(w)
    /\ UNCHANGED resends

(* The server executes the next command of an attempt given up ...         *)
LateExec(p) ==
    /\ LET e == Head(p.cmds)
       IN  /\ redis' = [redis EXCEPT ![e.hash] = e.quote]
           /\ lateHashes' = lateHashes \cup {e.hash}
    /\ late' = (late \ {p}) \cup {q \in {[p EXCEPT !.cmds = Tail(@)]} : q.cmds # <<>>}
    /\ UNCHANGED <<published, dataChannel, taker, workerVars, counters, phase, grace>>

(* ... or loses the rest of it with the connection.                        *)
LateLost(p) ==
    /\ late' = late \ {p}
    /\ UNCHANGED <<published, dataChannel, taker, workerVars, redis, lateHashes, counters,
                   phase, grace>>

-----------------------------------------------------------------------------
(* SIGINT or SIGTERM: main closes stop and sleeps.  The workers do not     *)
(* watch stop.                                                             *)
Stop ==
    /\ phase = "running"
    /\ phase' = "stopping"
    /\ UNCHANGED <<published, dataChannel, taker, workerVars, storeVars, counters, grace>>

(* 100 ms pass.  A worker that can run has run by then: one that waits for *)
(* quotes has an empty channel before it and no fired timer, one that      *)
(* waits for Redis has had at least CommandsPerTick answers, or may have   *)
(* had none when that is 0.  When the last interval of the shutdown sleep  *)
(* is over, main returns and the process is gone, whatever its workers     *)
(* hold.                                                                   *)
Tick ==
    /\ phase # "exited"
    /\ \A w \in Workers :
          \/ wpc[w] = "select" /\ dataChannel = <<>> /\ timer[w] # "fired"
          \/ wpc[w] = "exec" /\ owed[w] = 0
    /\ owed' = [w \in Workers |-> CommandsPerTick]
    /\ timer' = [w \in Workers |-> IF timer[w] = "armed" THEN "fired" ELSE timer[w]]
    /\ IF phase = "stopping"
       THEN /\ grace' = grace - 1
            /\ phase' = IF grace = 1 THEN "exited" ELSE "stopping"
       ELSE UNCHANGED <<grace, phase>>
    /\ UNCHANGED <<published, dataChannel, taker, batch, execVars, storeVars, counters>>

Terminated == phase = "exited" /\ UNCHANGED vars

WorkerStep(w) ==
    \/ Take(w)
    \/ TimerFlush(w)
    \/ Exec(w)
    \/ Reject(w)
    \/ Return(w)
    \/ Retry(w)
    \/ Fail(w)

Next ==
    \/ \E k \in Keys : Send(k)
    \/ \E w \in Workers : WorkerStep(w)
    \/ \E p \in late : LateExec(p) \/ LateLost(p)
    \/ Stop
    \/ Tick
    \/ Terminated

(* The Go scheduler runs every runnable goroutine, a responsive Redis      *)
(* answers, and time passes.  Nothing obliges the venues to send.          *)
Fairness ==
    /\ \A w \in Workers : WF_vars(Take(w)) /\ WF_vars(TimerFlush(w))
                          /\ WF_vars(Exec(w)) /\ WF_vars(Return(w))
    /\ WF_vars(Tick)

Spec == Init /\ [][Next]_vars
FairSpec == Spec /\ Fairness

-----------------------------------------------------------------------------
TypeOK ==
    /\ published \in Seq(Keys)
    /\ dataChannel \in Seq(Nat \ {0})
    /\ taker \in Seq(Workers)
    /\ batch \in [Workers -> Seq(Entry)]
    /\ wpc \in [Workers -> {"select", "exec"}]
    /\ acked \in [Workers -> Nat]
    /\ execErr \in [Workers -> BOOLEAN]
    /\ attempt \in [Workers -> 0..MaxRetries]
    /\ owed \in [Workers -> 0..CommandsPerTick]
    /\ timer \in [Workers -> {"armed", "fired"}]
    /\ redis \in [HashKeys -> Nat]
    /\ late \in SUBSET [attempt : 0..MaxRetries, cmds : Seq(Entry)]
    /\ lateHashes \in SUBSET HashKeys
    /\ resends \in Nat
    /\ totalRedisOps \in Nat
    /\ totalRedisErrors \in Nat
    /\ phase \in {"running", "stopping", "exited"}
    /\ grace \in 0..GraceTicks

-----------------------------------------------------------------------------
(* A worker flushes whole quotes, in batches of bounded size: a pipeline   *)
(* never carries the raw entry of a quote without its canonical one, and   *)
(* between two quotes the batch stays below the configured size            *)
(* (main.go:301-313).                                                      *)
WholeQuotes ==
    \A w \in Workers :
        /\ Len(batch[w]) % 2 = 0
        /\ \A i \in DOMAIN batch[w] :
              i % 2 = 1 => batch[w][i].quote = batch[w][i + 1].quote
        /\ Len(batch[w]) <= PipelineSize + 1
        /\ wpc[w] = "select" => Len(batch[w]) < PipelineSize

(* The entries in the batches, each as its worker and its place.           *)
Collected == UNION {{w} \X (1..Len(batch[w])) : w \in Workers}

(* The entries of received quotes that are neither collected nor counted   *)
(* as written were in batches that were dropped, one per error: at least   *)
(* the two entries of a quote, at most one over the configured size.  A    *)
(* pipeline that was sent again counts once (main.go:282-289, 309-313).    *)
QuotesAccounted ==
    LET accounted == totalRedisOps + Cardinality(Collected)
    IN  /\ accounted + 2 * totalRedisErrors <= 2 * totalProcessed
        /\ 2 * totalProcessed <= accounted + totalRedisErrors * (PipelineSize + 1)

(* A worker takes a hash back to an older quote only over one of another   *)
(* worker, or over one of the very pipeline it is sending again: the       *)
(* channel, a batch and a pipeline keep the order of the quotes.  Besides  *)
(* the workers only an attempt given up, which Redis executes late, writes *)
(* to a hash (main.go:292-313, client.go:107).                             *)
InResend(q) ==
    LET w == taker[q]
    IN  attempt[w] > 0 /\ \E i \in DOMAIN batch[w] : batch[w][i].quote = q

SameWorkerOrder ==
    [][\A h \in HashKeys :
          redis'[h] < redis[h] => \/ taker[redis'[h]] # taker[redis[h]]
                                  \/ InResend(redis[h])
                                  \/ late' # late]_vars

QuotesFor(h) == {n \in 1..Len(published) : h \in HashesOf(published[n])}

Settled == dataChannel = <<>> /\ \A w \in Workers : batch[w] = <<>>

(* Once everything is flushed and no error was counted, however often      *)
(* pipelines were sent again, a hash is missing only if no quote was about *)
(* it.  It holds the newest quote of one of the workers, with several of   *)
(* them not necessarily the newest quote, unless an attempt given up wrote *)
(* to it last: the count of errors does not tell (main.go:282-289).        *)
SettledStore ==
    Settled /\ totalRedisErrors = 0 =>
        \A h \in HashKeys :
            LET n == redis[h]
            IN  IF QuotesFor(h) = {} THEN n = 0
                ELSE /\ n \in QuotesFor(h)
                     /\ h \notin lateHashes =>
                           \A m \in QuotesFor(h) : taker[m] = taker[n] => m <= n

(* When main returns and no pipeline had to be sent again, no quote is     *)
(* left in the channel or in a batch: the 2 s sleep outlasts the 100 ms    *)
(* flush timer and the backlog of a full channel, with a Redis of          *)
(* sufficient speed (main.go:276, 389-393).                                *)
DrainedAtExit == phase = "exited" /\ resends = 0 => Settled

(* Every hash ends up with, and keeps, the newest quote published for it.  *)
Converges ==
    <>[](\A h \in HashKeys :
            redis[h] = IF QuotesFor(h) = {} THEN 0 ELSE Max(QuotesFor(h)))

(* The pipeline implements the abstract store.                             *)
Store == INSTANCE QuoteStore WITH store <- redis
StoreSpec == Store!Spec
=============================================================================
