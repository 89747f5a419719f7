----------------------------- MODULE UniswapV2 -----------------------------
(***************************************************************************)
(* The Uniswap V2 connector (internal/dex/Etherium/Uniswap/                *)
(* v2_connector.go): the pools its launcher loads, the order of their      *)
(* tokens, its connections with their reader and their pinger, the         *)
(* threshold below which a price is dropped, and the quotes of an event    *)
(* with the update of the pricer between them. Run returns only when its   *)
(* context is done (a connector without pools fails at once, which         *)
(* CexFeed's supervisor covers).                                           *)
(*                                                                         *)
(* A price is a fraction <<n, d>> of reserves; of the graph of the pricer  *)
(* the model keeps whose update of a pair it holds.                        *)
(***************************************************************************)
EXTENDS TokenRegistry

CONSTANTS
    Pools,
    Chain,          (* per pool, the addresses of its tokens on the chain   *)
    Assets,         (* the registry file                                    *)
    Files,          (* what the file of the pools may hold: sequences of    *)
                    (* entries [pool, listed, tokens], a token [addr, sym]  *)
    Hard,           (* hardWethStable: records [pool, sym, stable0]         *)
    Reserves,       (* the pairs of reserves a Sync event may carry         *)
    Tick,           (* 10000: the threshold is a Tick-th of the last price  *)
    MaxBackoff,     (* backoffMax in seconds, 15                            *)
    BufCap,         (* capacity of messages, 1024                           *)
    MaxSessions,    (* bound on the connections                             *)
    MaxEvents       (* bound on the events of a connection                  *)

ASSUME V2Assumption ==
    /\ "none" \notin Pools
    /\ \A p \in Pools : /\ Chain[p] = <<Chain[p][1], Chain[p][2]>>
                         /\ Chain[p][1] # Chain[p][2]
    /\ \A f \in Files : DOMAIN f \subseteq Nat
    /\ \A h \in Hard : h.pool \in Pools /\ h.stable0 \in BOOLEAN
    /\ Reserves \subseteq Nat \X Nat
    /\ {Tick, MaxBackoff, BufCap, MaxSessions} \subseteq Nat \ {0}
    /\ MaxEvents \in Nat

Sessions == 1..MaxSessions

VARIABLES
    cancelled,  (* the context of the run is done                           *)
    pc,         (* where Run is                                             *)
    backoff,    (* seconds                                                  *)
    meta,       (* the pools: their tokens [addr, kind], BaseIsToken0, and  *)
                (* the token whose price CanonicalPair says it is           *)
    verified,   (* history: the pools whose order the chain confirmed       *)
    session,    (* the current connection, 0 before the first               *)
    ses,        (* the connections, see NoSession                           *)
    pingers,    (* the connections whose keepAlive runs                     *)
    lastPrice,  (* per pool, NoPrice at first                               *)
    event,      (* the event the handler works on                           *)
    graph,      (* per pool, the update of its pair the pricer holds:       *)
                (* "none", of an "old" or the current event ("own"), or of  *)
                (* an "other" connector that came after it                  *)
    latest,     (* history: per pool, the last pair of reserves handled     *)
    spot,       (* history: per pool, the last price quoted, its reserves   *)
    usd         (* history: per pool, what its last USD quotes came from    *)

connVars   == <<session, ses, pingers>>
priceVars  == <<lastPrice, event, latest, spot>>
pricerVars == <<graph, usd>>
vars == <<cancelled, pc, backoff, meta, verified, connVars, priceVars, pricerVars>>

NoPrice   == <<0, 0>>
NoEvent   == [pool |-> "none", reserves |-> <<0, 0>>]

(* A frame is a Sync event, or one of the rest (pool "none").              *)
Frames == [pool : Pools, reserves : Reserves] \cup {NoEvent}

(* A connection: its link, its reader and the frame that one holds,        *)
(* messages, and the number of its frames.                                 *)
Connection ==
    [link : {"none", "up", "broken", "closed"},
     reader : {"off", "reading", "pushing", "ended"}, held : Frames,
     buf : Seq(Frames), events : Nat]

NoSession == [link |-> "none", reader |-> "off", held |-> NoEvent, buf |-> <<>>, events |-> 0]

-----------------------------------------------------------------------------
(* Prices.                                                                 *)

(* Mutant: the limit of the delay is not applied.                          *)
NextBackoffUnbounded(b) == 2 * b

NextBackoff(b) == IF 2 * b > MaxBackoff THEN MaxBackoff ELSE 2 * b

(* computeSnapshot: the reserve of the quote over that of the base, as the *)
(* metadata have them; the decimals cancel out of what is compared here.   *)
Snapshot(m, r) == IF m.base0 THEN <<r[2], r[1]>> ELSE <<r[1], r[2]>>

Base(m)  == m.tokens[IF m.base0 THEN 1 ELSE 2]
Quote(m) == m.tokens[IF m.base0 THEN 2 ELSE 1]

(* What the pool really says of the price its quotes are named for.        *)
TruePrice(p, r) == IF meta[p].named = Chain[p][1] THEN <<r[2], r[1]>> ELSE <<r[1], r[2]>>

Times(p, q) == p[1] * q[2]
Gap(p, q) == IF Times(p, q) >= Times(q, p) THEN Times(p, q) - Times(q, p)
                                           ELSE Times(q, p) - Times(p, q)

(* |price - last| < last / Tick                                            *)
Near(price, last) == Tick * Gap(price, last) < Times(last, price)

(* Mutant: the reference price follows also the prices that are dropped.   *)
KeptFollows(old, price) == price

(* shouldDrop: what lastPrice becomes; a price that is dropped leaves it.  *)
Kept(old, price) == IF old # NoPrice /\ Near(price, old) THEN old ELSE price

Dropped(old, price) == old # NoPrice /\ Near(price, old)

-----------------------------------------------------------------------------
(* The pools: LoadPoolsFromGeckoWithRegistry.                              *)

reg == NewTokenRegistry(Assets)

Tokens(e) == [i \in 1..2 |-> [addr |-> e.tokens[i].addr,
                              kind |-> Kind(reg, e.tokens[i].addr, e.tokens[i].sym)]]

(* An entry of the dex and the network with something to price it in.      *)
Eligible(e) ==
    LET kinds == {Tokens(e)[1].kind, Tokens(e)[2].kind} IN
    e.listed /\ e.pool \in Pools /\ kinds # {"stable"} /\ kinds # {"other"}

(* Mutant: of WETH and a token without a stable, WETH may be the base.     *)
BaseNotStable(k0, k1) == k0 # "stable"

(* The base is what is priced: WETH in a stable, anything else in either.  *)
BaseIsToken0(k0, k1) == IF k0 = "weth" THEN k1 = "stable" ELSE k0 # "stable"

(* FinalizePool and NormalizePair name the quotes of a pool once, for its  *)
(* base at that time.                                                      *)
Finalized(tokens, base0) == [tokens |-> tokens, base0 |-> base0,
                             named |-> tokens[IF base0 THEN 1 ELSE 2].addr]

Configured(e) == Finalized(Tokens(e), BaseIsToken0(Tokens(e)[1].kind, Tokens(e)[2].kind))

(* The reference pool of a stable the registry knows, and WETH.            *)
HardPools == { h \in Hard : \E t \in reg.stable : t.sym = h.sym }

HardPool(h) ==
    LET t == CHOOSE t \in reg.stable : t.sym = h.sym
        w == CHOOSE w \in reg.native : IsWETH(w)
        stable == [addr |-> t.addr, kind |-> "stable"]
        weth == [addr |-> w.addr, kind |-> "weth"]
    IN  Finalized(IF h.stable0 THEN <<stable, weth>> ELSE <<weth, stable>>, ~h.stable0)

(* Of the entries of a pool the first eligible one counts, then the        *)
(* reference pools that are missing are added.                             *)
LoadPools(f) ==
    LET entries(p) == { i \in DOMAIN f : Eligible(f[i]) /\ f[i].pool = p }
        first(p) == CHOOSE i \in entries(p) : \A j \in entries(p) : i <= j
        listed == { p \in Pools : entries(p) # {} }
    IN  [p \in listed \cup {h.pool : h \in HardPools} |->
            IF p \in listed THEN Configured(f[first(p)])
            ELSE HardPool(CHOOSE h \in HardPools : h.pool = p)]

-----------------------------------------------------------------------------
Init ==
    /\ cancelled = FALSE
    /\ pc = "adjust" /\ backoff = 1
    /\ \E f \in Files : meta = LoadPools(f)
    /\ DOMAIN meta # {}
    /\ verified = {}
    /\ session = 0 /\ ses = [s \in Sessions |-> NoSession] /\ pingers = {}
    /\ lastPrice = [p \in Pools |-> NoPrice] /\ event = NoEvent
    /\ latest = [p \in Pools |-> NoPrice]
    /\ spot = [p \in Pools |-> <<NoPrice, NoPrice>>]
    /\ graph = [p \in Pools |-> "none"] /\ usd = [p \in Pools |-> "none"]

(* Mutant: the tokens are swapped, the base stays at its place.            *)
SwappedTokens(m) == [m EXCEPT !.tokens = <<@[2], @[1]>>]

(* swapPoolTokens                                                          *)
Swapped(m) == [m EXCEPT !.tokens = <<@[2], @[1]>>, !.base0 = ~@]

Addrs(m) == <<m.tokens[1].addr, m.tokens[2].addr>>

(* AdjustPoolsOrdering: a pool whose tokens cannot be read, or are others, *)
(* keeps its order.                                                        *)
AdjustOrder ==
    /\ pc = "adjust"
    /\ \E read \in SUBSET DOMAIN meta :
         LET flipped == { p \in read : Addrs(meta[p]) = <<Chain[p][2], Chain[p][1]>> } IN
         /\ meta' = [p \in DOMAIN meta |-> IF p \in flipped THEN Swapped(meta[p]) ELSE meta[p]]
         /\ verified' = flipped \cup { p \in read : Addrs(meta[p]) = Chain[p] }
    /\ pc' = "dial"
    /\ UNCHANGED <<cancelled, backoff, connVars, priceVars, pricerVars>>

-----------------------------------------------------------------------------
(* Run.                                                                    *)

(* The pinger starts before the subscription, with the context of the run. *)
Dial ==
    /\ pc = "dial"
    /\ \/ cancelled /\ pc' = "done" /\ UNCHANGED connVars
       \/ ~cancelled /\ pc' = "sleep" /\ UNCHANGED connVars
       \/ /\ ~cancelled /\ session < MaxSessions
          /\ session' = session + 1
          /\ ses' = [ses EXCEPT ![session + 1].link = "up"]
          /\ pingers' = pingers \cup {session + 1}
          /\ pc' = "subscribe"
    /\ UNCHANGED <<cancelled, backoff, meta, verified, priceVars, pricerVars>>

(* Of the frames of a closed connection only their number matters.         *)
Closed(s) == [ses EXCEPT ![s] =
    [NoSession EXCEPT !.link = "closed", !.reader = ses[s].reader,
                      !.buf = [i \in DOMAIN ses[s].buf |-> NoEvent]]]

(* subscribeAll; only a broken connection can refuse the write.  Then the  *)
(* delay is set back and the reader starts.                                *)
Subscribe ==
    /\ pc = "subscribe"
    /\ \/ /\ ses' = [ses EXCEPT ![session].reader = "reading"]
          /\ backoff' = 1
          /\ pc' = "select"
       \/ /\ ses[session].link # "up"
          /\ ses' = Closed(session)
          /\ pc' = "sleep"
          /\ UNCHANGED backoff
    /\ UNCHANGED <<cancelled, meta, verified, session, pingers, priceVars, pricerVars>>

(* time.Sleep does not watch the context.                                  *)
Sleep ==
    /\ pc = "sleep"
    /\ backoff' = NextBackoff(backoff)
    /\ pc' = "dial"
    /\ UNCHANGED <<cancelled, meta, verified, connVars, priceVars, pricerVars>>

StreamCancelled ==
    /\ pc = "select" /\ cancelled
    /\ ses' = Closed(session)
    /\ pc' = "done"
    /\ UNCHANGED <<cancelled, backoff, meta, verified, session, pingers, priceVars, pricerVars>>

(* The error of the reader ends the loop even before the frames that are   *)
(* still buffered; without it the closed and drained messages do.          *)
ReaderEnded ==
    /\ pc = "select"
    /\ ses[session].reader = "ended"
    /\ ses' = [Closed(session) EXCEPT ![session].buf = <<>>]
    /\ pc' = "sleep"
    /\ UNCHANGED <<cancelled, backoff, meta, verified, session, pingers, priceVars, pricerVars>>

(* handleRaw.  The error of a rejected subscription or of a payload that   *)
(* cannot be decoded is ignored by Run, as is an event of a foreign pool,  *)
(* without reserves, or near the last price.                               *)
HandleRaw(f) ==
    LET price == Snapshot(meta[f.pool], f.reserves) IN
    IF f.pool \notin DOMAIN meta \/ 0 \in {f.reserves[1], f.reserves[2]}
    THEN UNCHANGED <<pc, event, lastPrice, latest, graph>>
    ELSE /\ latest' = [latest EXCEPT ![f.pool] = f.reserves]
         /\ lastPrice' = [lastPrice EXCEPT ![f.pool] = Kept(@, price)]
         /\ IF Dropped(lastPrice[f.pool], price)
            THEN UNCHANGED <<pc, event, graph>>
            ELSE /\ pc' = "spot" /\ event' = f
                 /\ graph' = [graph EXCEPT ![f.pool] = IF @ = "none" THEN @ ELSE "old"]

(* Mutant: a frame that cannot be handled ends the stream.                 *)
TakeFrameStrict ==
    /\ pc = "select" /\ ses[session].buf # <<>>
    /\ LET f == Head(ses[session].buf) IN
       IF f.pool = "none"
       THEN /\ pc' = "sleep" /\ ses' = Closed(session)
            /\ UNCHANGED <<event, lastPrice, latest, graph>>
       ELSE /\ ses' = [ses EXCEPT ![session].buf = Tail(@)]
            /\ HandleRaw(f)
    /\ UNCHANGED <<cancelled, backoff, meta, verified, session, pingers, spot, usd>>

TakeFrame ==
    /\ pc = "select" /\ ses[session].buf # <<>>
    /\ ses' = [ses EXCEPT ![session].buf = Tail(@)]
    /\ HandleRaw(Head(ses[session].buf))
    /\ UNCHANGED <<cancelled, backoff, meta, verified, session, pingers, spot, usd>>

-----------------------------------------------------------------------------
(* publish: the quote of the pair, the update of the pricer, a USD quote   *)
(* for each token it can price.  A send waits for room in the shared       *)
(* channel and watches nothing else.                                       *)

OnlyPublish == UNCHANGED <<cancelled, backoff, meta, verified, connVars, lastPrice, latest>>

SendSpot ==
    /\ pc = "spot"
    /\ spot' = [spot EXCEPT ![event.pool] =
                  <<Snapshot(meta[event.pool], event.reserves), event.reserves>>]
    /\ pc' = "update"
    /\ OnlyPublish /\ UNCHANGED <<event, pricerVars>>

(* Mutant: the pricer is updated after the first USD quote.                *)
UpdatePairLate ==
    /\ pc \in {"update", "usd1"}
    /\ graph' = [graph EXCEPT ![event.pool] = IF pc = "usd1" THEN "own" ELSE @]
    /\ pc' = IF pc = "update" THEN "usd0" ELSE "usd1"
    /\ OnlyPublish /\ UNCHANGED <<event, spot, usd>>

(* updatePricing up to UpdatePair, which sets both directions, or refuses  *)
(* them when another connector's update is at least as new and as heavy.   *)
UpdatePair ==
    /\ pc = "update"
    /\ \/ graph' = [graph EXCEPT ![event.pool] = "own"]
       \/ graph[event.pool] = "other" /\ UNCHANGED graph
    /\ pc' = "usd0"
    /\ OnlyPublish /\ UNCHANGED <<event, spot, usd>>

(* emitUSD of the first, then of the second token: ResolveUSD reads the    *)
(* graph as it is now, each time anew, and may find no price.              *)
SendUSD ==
    /\ \/ pc = "usd0" /\ pc' = "usd1" /\ UNCHANGED event
       \/ pc = "usd1" /\ pc' = "select" /\ event' = NoEvent
    /\ usd' \in {usd, [usd EXCEPT ![event.pool] = graph[event.pool]]}
    /\ OnlyPublish /\ UNCHANGED <<spot, graph>>

-----------------------------------------------------------------------------
(* The goroutines of a connection, the surroundings.                       *)

OnlySession == UNCHANGED <<cancelled, pc, backoff, meta, verified, session, pingers,
                           priceVars, pricerVars>>

ReadFrame(s) ==
    /\ ses[s].reader = "reading" /\ ses[s].link = "up"
    /\ ses[s].events < MaxEvents
    /\ \E f \in Frames :
         ses' = [ses EXCEPT ![s].held = f, ![s].reader = "pushing", ![s].events = @ + 1]
    /\ OnlySession

(* Mutant: a read error ends the reader and closes neither channel.        *)
ReadErrorSilent(s) ==
    /\ ses[s].reader = "reading" /\ ses[s].link # "up"
    /\ ses' = [ses EXCEPT ![s].reader = "off"]
    /\ OnlySession

(* A read error, or the end of the context seen before a read.             *)
ReadError(s) ==
    /\ ses[s].reader = "reading" /\ ses[s].link # "up"
    /\ ses' = [ses EXCEPT ![s].reader = "ended"]
    /\ OnlySession

(* The send into messages does not watch the context.                      *)
Push(s) ==
    /\ ses[s].reader = "pushing"
    /\ Len(ses[s].buf) < BufCap
    /\ ses' = [ses EXCEPT ![s].buf = Append(@, ses[s].held), ![s].held = NoEvent,
                          ![s].reader = "reading"]
    /\ OnlySession

(* Mutant: the pinger watches its connection and not the context.          *)
PingerEndsNever(s) ==
    /\ s \in pingers
    /\ ses[s].link = "broken"
    /\ pingers' = pingers \ {s}
    /\ UNCHANGED <<cancelled, pc, backoff, meta, verified, session, ses, priceVars, pricerVars>>

(* keepAlive ignores the errors of its writes: only the context ends it.   *)
PingerEnds(s) ==
    /\ s \in pingers
    /\ cancelled
    /\ pingers' = pingers \ {s}
    /\ UNCHANGED <<cancelled, pc, backoff, meta, verified, session, ses, priceVars, pricerVars>>

Break ==
    /\ session > 0 /\ ses[session].link = "up"
    /\ ses' = [ses EXCEPT ![session].link = "broken"]
    /\ OnlySession

(* Another connector has a pool of the same tokens.                        *)
OtherUpdate(p) ==
    /\ graph[p] # "other"
    /\ graph' = [graph EXCEPT ![p] = "other"]
    /\ UNCHANGED <<cancelled, pc, backoff, meta, verified, connVars, priceVars, usd>>

Cancel ==
    /\ ~cancelled /\ cancelled' = TRUE
    /\ UNCHANGED <<pc, backoff, meta, verified, connVars, priceVars, pricerVars>>

RunStep ==
    \/ AdjustOrder \/ Dial \/ Subscribe \/ Sleep
    \/ StreamCancelled \/ ReaderEnded \/ TakeFrame
    \/ SendSpot \/ UpdatePair \/ SendUSD

Next ==
    \/ RunStep
    \/ \E s \in Sessions : ReadFrame(s) \/ ReadError(s) \/ Push(s) \/ PingerEnds(s)
    \/ \E p \in Pools : OtherUpdate(p)
    \/ Break \/ Cancel

(* The scheduler runs every goroutine that can run, and the workers make   *)
(* room in the shared channel.  The venue may stay silent.                 *)
Fairness ==
    /\ WF_vars(RunStep)
    /\ \A s \in Sessions : WF_vars(ReadError(s)) /\ WF_vars(Push(s)) /\ WF_vars(PingerEnds(s))

Spec == Init /\ [][Next]_vars /\ Fairness

-----------------------------------------------------------------------------
TypeOK ==
    /\ cancelled \in BOOLEAN
    /\ pc \in {"adjust", "dial", "subscribe", "sleep", "select", "spot", "update",
               "usd0", "usd1", "done"}
    /\ backoff \in 1..MaxBackoff
    /\ verified \subseteq Pools /\ pingers \subseteq Sessions
    /\ session \in 0..MaxSessions
    /\ DOMAIN meta \subseteq Pools
    /\ lastPrice \in [Pools -> Nat \X Nat] /\ latest \in [Pools -> Nat \X Nat]
    /\ spot \in [Pools -> (Nat \X Nat) \X (Nat \X Nat)]
    /\ event \in Frames
    /\ graph \in [Pools -> {"none", "old", "own", "other"}]
    /\ usd \in [Pools -> {"none", "old", "own", "other"}]
    /\ ses \in [Sessions -> Connection]
    /\ \A s \in Sessions : Len(ses[s].buf) <= BufCap

(* A pool whose order the chain confirmed is quoted the right way round    *)
(* for the name of its quotes, which was given before, whatever its        *)
(* configuration said (v2_connector.go:328-333, 567-570, 1075-1132).       *)
Oriented ==
    \A p \in verified : spot[p][1] = TruePrice(p, spot[p][2])

(* What a pool prices is never a stable, and what it is priced in is       *)
(* always money, WETH or a stable, from the entry that configured it to    *)
(* the order the chain gave it (v2_connector.go:958-975, 1129-1132).       *)
PricedInMoney ==
    \A p \in DOMAIN meta :
        Base(meta[p]).kind # "stable" /\ Quote(meta[p]).kind # "other"

(* Between events the last quote of a pool is within a Tick-th of what its *)
(* last event said: prices that are dropped cannot add up to a drift that  *)
(* nobody is told of (shouldDrop, v2_connector.go:544-559).                *)
NoDrift ==
    pc = "select" =>
        \A p \in DOMAIN meta : latest[p] # NoPrice =>
            Near(Snapshot(meta[p], latest[p]), spot[p][1])

(* A connection is not dialled before the one before it is closed and its  *)
(* reader is gone: no two readers feed the connector, and no reader waits  *)
(* for a buffer nobody drains (v2_connector.go:391-402).                   *)
OneReader ==
    \A s \in Sessions : s < session =>
        ses[s].link = "closed" /\ ses[s].reader \in {"off", "ended"}

(* The two USD quotes of an event may come from two graphs, as other       *)
(* connectors update it in between, but neither comes from a graph that    *)
(* lacks the event (updatePricing, v2_connector.go:583-609).               *)
UsdHasEvent ==
    \A p \in Pools : usd[p] # "old"

(* A broken connection is closed and replaced, whatever the handler waits  *)
(* for (v2_connector.go:379-402, 475-478).                                 *)
BreakNoticed ==
    \A s \in Sessions : ses[s].link = "broken" ~> ses[s].link = "closed"

(* When the context is done Run returns, out of a sleep, a full shared     *)
(* channel or a dial, all the pingers of the run end, those of dead        *)
(* connections too, and a reader stays behind only before a full buffer    *)
(* (v2_connector.go:372-375, 480-482, 531-541).                            *)
RunReturns ==
    cancelled ~> /\ pc = "done" /\ pingers = {}
                 /\ \A s \in Sessions :
                      \/ ses[s].reader \in {"off", "ended"}
                      \/ ses[s].reader = "pushing" /\ Len(ses[s].buf) = BufCap
=============================================================================
