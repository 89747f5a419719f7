----------------------------- MODULE UniswapV3 -----------------------------
(***************************************************************************)
(* A run of the Uniswap V3 connector (internal/dex/Etherium/Uniswap/       *)
(* connect_uniswap_v3_all.go): the pools it reads from its file, its       *)
(* connections, and what a swap does: the metadata of the pool, checked on *)
(* the chain until that succeeds once, the WETH price, the quotes, the     *)
(* pricer.  A run that cannot start is started again by the supervisor;    *)
(* the others return only when their context is done.                      *)
(*                                                                         *)
(* Of a price the model keeps whose tokens it relates, in which order, by  *)
(* which symbols, and whether the decimals were applied.                   *)
(***************************************************************************)
EXTENDS Naturals, Sequences

CONSTANTS
    Pools, Tokens,
    Chain,          (* per pool, its two tokens as the contract has them    *)
    WETH,           (* v3WETHAddress                                        *)
    Stables,        (* the tokens whose symbols v3IsStableSymbol knows      *)
    Rank,           (* v3Priority of a stable                               *)
    Files,          (* what the file of the pools may hold: sequences of    *)
                    (* entries [pool, listed, tokens, decs]                 *)
    StopOnAckError, (* cfg.StopOnAckError                                   *)
    MaxBackoff,     (* v3ReconnectMax in seconds, 30                        *)
    BufCap,         (* capacity of msgs, 4096                               *)
    MaxSessions,    (* bound on the connections                             *)
    MaxEvents       (* bound on the frames of a connection                  *)

NoToken == "none"

ASSUME V3Assumption ==
    /\ NoToken \notin Tokens /\ Pools \cap {"none", "reject"} = {}
    /\ Chain \in [Pools -> Tokens \X Tokens]
    /\ \A p \in Pools : Chain[p][1] # Chain[p][2]
    /\ \A f \in Files : \A i \in DOMAIN f :
         /\ f[i].tokens \in (Tokens \cup {NoToken}) \X (Tokens \cup {NoToken})
         /\ f[i].decs \in BOOLEAN \X BOOLEAN
    /\ Stables \subseteq Tokens \ {WETH} /\ Rank \in [Stables -> Nat]
    /\ StopOnAckError \in BOOLEAN
    /\ MaxBackoff \in Nat \ {0, 1}
    /\ {BufCap, MaxSessions} \subseteq Nat \ {0} /\ MaxEvents \in Nat

Sessions == 1..MaxSessions

VARIABLES
    cancelled,  (* the context of the run is done                           *)
    pc,         (* where v3Run is; "exit": the process ended itself         *)
    backoff,    (* seconds                                                  *)
    session,    (* the current connection, 0 before the first               *)
    ses,        (* the connections, see NoSession                           *)
    meta,       (* v3Pools, see Configured                                  *)
    cache,      (* v3TokenCache                                             *)
    event,      (* the pool whose swap is being published                   *)
    weth,       (* v3WETHUSDStable, NoToken while v3WETHUSD is nil          *)
    offered,    (* history: the stables that offered a sane WETH price      *)
    anchors,    (* the stables registered with the pricer                   *)
    quote,      (* history: per pool, the price last published ...          *)
    graph       (* ... and the price the pricer was last given              *)

connVars  == <<session, ses>>
metaVars  == <<meta, cache>>
wethVars  == <<weth, offered>>
priceVars == <<event, quote, graph>>
vars == <<cancelled, pc, backoff, connVars, metaVars, wethVars, anchors, priceVars>>

NoPrice   == [tokens |-> <<NoToken, NoToken>>, syms |-> <<FALSE, FALSE>>, norm |-> FALSE]

(* A frame is a swap of a pool, the reject of a subscription or one of the *)
(* rest.                                                                   *)
Frames == Pools \cup {"none", "reject"}

(* A connection: its link, its goroutines and the frame the reader holds,  *)
(* msgs, and the number of its frames.                                     *)
Connection ==
    [link : {"none", "up", "broken", "closed"},
     reader : {"off", "reading", "pushing", "ended"}, pinger : BOOLEAN, held : Frames,
     buf : Seq(Frames), events : Nat]

NoSession == [link |-> "none", reader |-> "off", pinger |-> FALSE, held |-> "none",
              buf |-> <<>>, events |-> 0]

FirstBackoff == 2

(* Mutant: the limit of the delay is not applied.                          *)
NextBackoffUnbounded(b) == 2 * b

NextBackoff(b) == IF 2 * b > MaxBackoff THEN MaxBackoff ELSE 2 * b

-----------------------------------------------------------------------------
(* The pools.                                                              *)

(* v3TokenMeta, but for the address: are the decimals known (not 0); is    *)
(* the symbol that of the token, or made up from its address?              *)
TokenMetas == [dec : BOOLEAN, sym : BOOLEAN]
Uncached   == [dec |-> FALSE, sym |-> FALSE, cached |-> FALSE]

(* v3PoolMeta; Loaded and Verified are set together.                       *)
PoolMetas ==
    [tokens : Tokens \X Tokens, metas : TokenMetas \X TokenMetas,
     json : BOOLEAN, verified : BOOLEAN, registered : BOOLEAN]

(* An entry of the file names both tokens by their symbols, and may lack   *)
(* decimals; entries without a symbol are left out of the model.           *)
Configured(e) ==
    [tokens |-> e.tokens, metas |-> [i \in 1..2 |-> [dec |-> e.decs[i], sym |-> TRUE]],
     json |-> e.decs = <<TRUE, TRUE>>, verified |-> FALSE, registered |-> FALSE]

(* An entry of the dex and the network, with a pool and two tokens.        *)
Eligible(e) == e.listed /\ e.pool \in Pools /\ NoToken \notin {e.tokens[1], e.tokens[2]}

(* v3LoadPools: of the entries of a pool the first eligible one counts.    *)
LoadPools(f) ==
    LET first(p) == { i \in DOMAIN f : /\ Eligible(f[i]) /\ f[i].pool = p
                                       /\ \A j \in 1..(i - 1) : ~(Eligible(f[j]) /\ f[j].pool = p) }
        loaded == { p \in Pools : first(p) # {} }
    IN  [p \in loaded |-> Configured(f[CHOOSE i \in first(p) : TRUE])]

(* v3FetchTokenMeta: what may be known of a token afterwards, given the    *)
(* token the pool was thought to have there and what was known of that.    *)
(* A call that fails is no error; a symbol once made up is not asked again.*)
FetchTokenMeta(t, hint, m) ==
    { r \in TokenMetas :
        /\ (hint = t /\ m.dec) \/ cache[t].dec => r.dec
        /\ hint = t => r.sym = m.sym
        /\ hint # t /\ cache[t].cached => r.sym = cache[t].sym }

(* The tokens of a pool v3RegisterToken makes anchors of the pricer: those *)
(* with the symbol of a stable.                                            *)
KnownStables(m) == { m.tokens[i] : i \in {j \in 1..2 : m.tokens[j] \in Stables /\ m.metas[j].sym} }

(* The pool after its check on the chain; that the file had both decimals  *)
(* stays in json, whatever is known of the tokens that replace its own.    *)
OnChain(p, a, b) ==
    [meta[p] EXCEPT !.tokens = Chain[p], !.metas = <<a, b>>, !.verified = TRUE,
                    !.json = @ \/ (a.dec /\ b.dec)]

Cached(p, a, b) ==
    [cache EXCEPT ![Chain[p][1]] = [dec |-> a.dec, sym |-> a.sym, cached |-> TRUE],
                  ![Chain[p][2]] = [dec |-> b.dec, sym |-> b.sym, cached |-> TRUE]]

Fetched(p, i) == FetchTokenMeta(Chain[p][i], meta[p].tokens[i], meta[p].metas[i])

(* Mutant: the tokens found on the chain are not registered.               *)
EnsuredUnregistered(p) ==
    { [m |-> OnChain(p, a, b), cache |-> Cached(p, a, b), anchors |-> {}] :
          a \in Fetched(p, 1), b \in Fetched(p, 2) }

(* Mutant: the tokens stay in the order of the file.                       *)
EnsuredUnordered(p) ==
    { [m |-> [OnChain(p, a, b) EXCEPT !.tokens = meta[p].tokens],
       cache |-> Cached(p, a, b), anchors |-> KnownStables(meta[p])] :
          a \in Fetched(p, 1), b \in Fetched(p, 2) }

(* v3EnsurePoolMeta: the outcomes of a check that succeeds.                *)
Ensured(p) ==
    { [m |-> OnChain(p, a, b), cache |-> Cached(p, a, b),
       anchors |-> KnownStables(OnChain(p, a, b))] :
          a \in Fetched(p, 1), b \in Fetched(p, 2) }

(* The lazy check of v3HandleSwap: again at every swap until it succeeds.  *)
Checked(p) ==
    LET unchanged == [m |-> meta[p], cache |-> cache, anchors |-> {}] IN
    IF meta[p].verified THEN {unchanged} ELSE {unchanged} \cup Ensured(p)

HasMeta(m) == m.verified \/ m.json

(* The price of a swap: what the chain says, named by the tokens of the    *)
(* metadata, and scaled if both decimals are known.                        *)
PriceOf(m) == [tokens |-> m.tokens, syms |-> <<m.metas[1].sym, m.metas[2].sym>>,
               norm |-> HasMeta(m) /\ m.metas[1].dec /\ m.metas[2].dec]

(* Mutant: every sane price of a stable replaces the one before it.        *)
MaybeSetLatest(s) == s

(* v3MaybeSetWETHUSD, for a price that is sane.                            *)
MaybeSetWETHUSD(s) == IF weth = NoToken \/ Rank[s] > Rank[weth] THEN s ELSE weth

(* v3DeriveUSD: the stable a pool prices WETH in.                          *)
WethStable(m) == IF HasMeta(m) /\ WETH \in {m.tokens[1], m.tokens[2]}
                 THEN KnownStables(m) ELSE {}

-----------------------------------------------------------------------------
Init ==
    /\ cancelled = FALSE
    /\ pc = "load" /\ backoff = FirstBackoff
    /\ session = 0 /\ ses = [s \in Sessions |-> NoSession]
    /\ meta = LoadPools(<<>>) /\ cache = [t \in Tokens |-> Uncached]
    /\ event = "none" /\ weth = NoToken /\ offered = {} /\ anchors = {}
    /\ quote = [p \in Pools |-> NoPrice] /\ graph = [p \in Pools |-> NoPrice]

(* v3Run up to its loop: without an ABI, an endpoint, a file or a pool it  *)
(* returns, otherwise the state of the package starts anew.                *)
Load ==
    /\ pc = "load"
    /\ \/ pc' = "failed" /\ UNCHANGED <<metaVars, wethVars>>
       \/ \E f \in Files :
            /\ meta' = LoadPools(f)
            /\ IF DOMAIN meta' = {}
               THEN pc' = "failed" /\ UNCHANGED <<cache, wethVars>>
               ELSE /\ pc' = "dial" /\ cache' = [t \in Tokens |-> Uncached]
                    /\ weth' = NoToken /\ offered' = {}
    /\ UNCHANGED <<cancelled, backoff, connVars, anchors, priceVars>>

(* The supervisor.                                                         *)
Restart ==
    /\ pc = "failed" /\ pc' = "load"
    /\ UNCHANGED <<cancelled, backoff, connVars, metaVars, wethVars, anchors, priceVars>>

-----------------------------------------------------------------------------
(* v3RunLoop.                                                              *)

KeepData == UNCHANGED <<cancelled, metaVars, wethVars, anchors, priceVars>>

(* A connection that cannot be had doubles the delay before it.            *)
Dial ==
    /\ pc = "dial"
    /\ \/ cancelled /\ pc' = "done" /\ UNCHANGED <<backoff, connVars>>
       \/ ~cancelled /\ pc' = "wait" /\ backoff' = NextBackoff(backoff) /\ UNCHANGED connVars
       \/ /\ ~cancelled /\ session < MaxSessions
          /\ session' = session + 1
          /\ ses' = [ses EXCEPT ![session + 1].link = "up"]
          /\ pc' = "subscribe"
          /\ UNCHANGED backoff
    /\ KeepData

(* Of the frames of a closed connection only their number matters.         *)
Closed(s) == [ses EXCEPT ![s] =
    [NoSession EXCEPT !.link = "closed", !.reader = ses[s].reader, !.pinger = ses[s].pinger,
                      !.buf = [i \in DOMAIN ses[s].buf |-> "none"]]]

(* v3SubscribeAll, every pool in one batch of the connection; then the     *)
(* delay is set back, pinger and reader start.                             *)
Subscribe ==
    /\ pc = "subscribe"
    /\ \/ /\ ses' = [ses EXCEPT ![session].reader = "reading", ![session].pinger = TRUE]
          /\ backoff' = FirstBackoff
          /\ pc' = "select"
       \/ /\ ses[session].link # "up"
          /\ ses' = Closed(session)
          /\ backoff' = NextBackoff(backoff)
          /\ pc' = "wait"
    /\ UNCHANGED session /\ KeepData

(* After a stream ("rest") the delay is doubled once it is over.           *)
Sleep ==
    /\ pc \in {"wait", "rest"}
    /\ \/ cancelled /\ pc' = "done" /\ UNCHANGED backoff
       \/ /\ backoff' = IF pc = "rest" THEN NextBackoff(backoff) ELSE backoff
          /\ pc' = "dial"
    /\ UNCHANGED connVars /\ KeepData

StreamCancelled ==
    /\ pc = "select" /\ cancelled
    /\ ses' = Closed(session)
    /\ pc' = "done"
    /\ UNCHANGED <<backoff, session>> /\ KeepData

(* The error of the reader may win over frames still in the buffer; the    *)
(* closed channel is seen when it is drained.                              *)
ReaderEnded ==
    /\ pc = "select" /\ ses[session].reader = "ended"
    /\ ses' = [Closed(session) EXCEPT ![session].buf = <<>>]
    /\ pc' = "rest"
    /\ UNCHANGED <<backoff, session>> /\ KeepData

(* v3HandleSwap up to the first quote: the metadata as the chain has it if *)
(* it answers, the registration of the tokens, the WETH price.             *)
HandleSwap(p) ==
    \E c \in Checked(p), sane \in BOOLEAN :
      LET stable == IF sane THEN WethStable(c.m) ELSE {} IN
      /\ meta' = [meta EXCEPT ![p] = [c.m EXCEPT !.registered = @ \/ HasMeta(c.m)]]
      /\ cache' = c.cache
      /\ anchors' = anchors \cup c.anchors
                    \cup IF HasMeta(c.m) /\ ~c.m.registered THEN KnownStables(c.m) ELSE {}
      /\ offered' = offered \cup stable
      /\ weth' = IF stable = {} THEN weth ELSE MaybeSetWETHUSD(CHOOSE s \in stable : TRUE)
      /\ event' = p /\ pc' = "quote"

(* v3Handle: a rejected subscription ends the process, and with it all     *)
(* that runs, or is ignored, as is every frame that is no swap of a pool   *)
(* of ours with a price.                                                   *)
TakeFrame ==
    LET f == Head(ses[session].buf)
        fatal == f = "reject" /\ StopOnAckError
    IN
    /\ pc = "select" /\ ses[session].buf # <<>>
    /\ ses' = IF fatal THEN [s \in Sessions |-> NoSession]
                       ELSE [ses EXCEPT ![session].buf = Tail(@)]
    /\ IF f \in DOMAIN meta THEN HandleSwap(f)
       ELSE /\ pc' = IF fatal THEN "exit" ELSE pc
            /\ UNCHANGED <<metaVars, wethVars, anchors, event>>
    /\ UNCHANGED <<cancelled, backoff, session, quote, graph>>

-----------------------------------------------------------------------------
(* The rest of v3HandleSwap.  A send waits for room in the shared channel  *)
(* and watches nothing else.                                               *)

KeepRun == UNCHANGED <<cancelled, backoff, connVars, metaVars, wethVars, anchors>>

(* v3EmitPair, in both directions.                                         *)
EmitPair ==
    /\ pc = "quote"
    /\ quote' = [quote EXCEPT ![event] = PriceOf(meta[event])]
    /\ pc' = "update"
    /\ KeepRun /\ UNCHANGED <<event, graph>>

(* v3UpdatePricing up to UpdatePair.                                       *)
UpdatePricing ==
    /\ pc = "update"
    /\ IF HasMeta(meta[event])
       THEN /\ graph' = [graph EXCEPT ![event] = PriceOf(meta[event])]
            /\ pc' = "usd" /\ UNCHANGED event
       ELSE /\ event' = "none" /\ pc' = "select" /\ UNCHANGED graph
    /\ KeepRun /\ UNCHANGED quote

(* v3EmitUSDWithPricer of both tokens, up to the quotes it publishes:      *)
(* their prices are the pricer's, see GraphPricer.                         *)
EmitUSD ==
    /\ pc = "usd"
    /\ event' = "none" /\ pc' = "select"
    /\ KeepRun /\ UNCHANGED <<quote, graph>>

-----------------------------------------------------------------------------
(* The goroutines of a connection, the surroundings.                       *)

OnlySession == UNCHANGED <<pc, backoff, session>> /\ KeepData

ReadFrame(s) ==
    /\ ses[s].reader = "reading" /\ ses[s].link = "up"
    /\ ses[s].events < MaxEvents
    /\ \E f \in Frames :
         ses' = [ses EXCEPT ![s].held = f, ![s].reader = "pushing", ![s].events = @ + 1]
    /\ OnlySession

(* v3Read: a read error goes to errs, and msgs is closed.                  *)
ReadError(s) ==
    /\ ses[s].reader = "reading" /\ ses[s].link # "up"
    /\ ses' = [ses EXCEPT ![s].reader = "ended"]
    /\ OnlySession

(* The send into msgs watches no context: with a full buffer the reader of *)
(* a run that returned stays here for good.                                *)
Push(s) ==
    /\ ses[s].reader = "pushing" /\ Len(ses[s].buf) < BufCap
    /\ ses' = [ses EXCEPT ![s].buf = Append(@, ses[s].held), ![s].held = "none",
                          ![s].reader = "reading"]
    /\ OnlySession

(* Mutant: the pinger has the context of the run.                          *)
PingerEndsWithRun(s) ==
    /\ ses[s].pinger /\ cancelled
    /\ ses' = [ses EXCEPT ![s].pinger = FALSE]
    /\ OnlySession

(* v3Ping has the context of its stream, which v3RunLoop cancels before it *)
(* closes the connection.                                                  *)
PingerEnds(s) ==
    /\ ses[s].pinger
    /\ cancelled \/ ses[s].link = "closed"
    /\ ses' = [ses EXCEPT ![s].pinger = FALSE]
    /\ OnlySession

Break ==
    /\ session > 0 /\ ses[session].link = "up"
    /\ ses' = [ses EXCEPT ![session].link = "broken"]
    /\ OnlySession

Cancel ==
    /\ ~cancelled /\ cancelled' = TRUE
    /\ UNCHANGED <<pc, backoff, connVars, metaVars, wethVars, anchors, priceVars>>

RunStep ==
    \/ Load \/ Dial \/ Subscribe \/ Sleep
    \/ StreamCancelled \/ ReaderEnded \/ TakeFrame
    \/ EmitPair \/ UpdatePricing \/ EmitUSD

Next ==
    \/ RunStep
    \/ \E s \in Sessions : ReadFrame(s) \/ ReadError(s) \/ Push(s) \/ PingerEnds(s)
    \/ Restart \/ Break \/ Cancel

(* The scheduler runs every goroutine that can run, its timers fire, and   *)
(* the workers make room in the shared channel.  The venue may be silent.  *)
Fairness ==
    /\ WF_vars(RunStep)
    /\ \A s \in Sessions : WF_vars(ReadError(s)) /\ WF_vars(Push(s)) /\ WF_vars(PingerEnds(s))

Spec == Init /\ [][Next]_vars /\ Fairness

-----------------------------------------------------------------------------
Prices == [tokens : (Tokens \cup {NoToken}) \X (Tokens \cup {NoToken}),
           syms : BOOLEAN \X BOOLEAN, norm : BOOLEAN]

TypeOK ==
    /\ cancelled \in BOOLEAN
    /\ pc \in {"load", "failed", "dial", "wait", "rest", "subscribe", "select", "quote",
               "update", "usd", "done", "exit"}
    /\ backoff \in FirstBackoff..MaxBackoff
    /\ session \in 0..MaxSessions
    /\ DOMAIN meta \subseteq Pools /\ \A p \in DOMAIN meta : meta[p] \in PoolMetas
    /\ cache \in [Tokens -> [dec : BOOLEAN, sym : BOOLEAN, cached : BOOLEAN]]
    /\ anchors \subseteq Stables
    /\ weth \in Stables \cup {NoToken} /\ offered \subseteq Stables
    /\ event \in Pools \cup {"none"}
    /\ quote \in [Pools -> Prices] /\ graph \in [Pools -> Prices]
    /\ ses \in [Sessions -> Connection]
    /\ \A s \in Sessions : Len(ses[s].buf) <= BufCap

(* Once the contract of a pool has answered, what is published of it and   *)
(* what the pricer has of it name the tokens of the contract in its order, *)
(* whatever the file said and however often the check failed before        *)
(* (v3HandleSwap and v3EnsurePoolMeta, connect_uniswap_v3_all.go:776-818). *)
VerifiedRight ==
    pc = "select" =>
        \A p \in DOMAIN meta : meta[p].verified =>
            quote[p].tokens = Chain[p] /\ graph[p].tokens = Chain[p]

(* A stable that the pricer is given as a token of a pair, and that the    *)
(* connector knows for one, is an anchor of the pricer by then, also when  *)
(* the check replaced the tokens of a pool registered before               *)
(* (connect_uniswap_v3_all.go:790-794, 1060-1061).                         *)
StablesAnchored ==
    \A p \in Pools, i \in 1..2 :
        graph[p].tokens[i] \in Stables /\ graph[p].syms[i] => graph[p].tokens[i] \in anchors

(* Of the sane prices the pools offered in a run, WETH has that of a       *)
(* stable no other one surpasses, whatever the order of the swaps and of   *)
(* the checks that reveal which tokens a pool has (v3MaybeSetWETHUSD,      *)
(* connect_uniswap_v3_all.go:1339-1363).                                   *)
WethBest ==
    IF offered = {} THEN weth = NoToken
    ELSE weth \in offered /\ \A s \in offered : Rank[s] <= Rank[weth]

(* A connection that breaks, or whose run is cancelled, is closed, and its *)
(* pinger and its reader end: only the reader that a cancelled run leaves  *)
(* before a full buffer does not (connect_uniswap_v3_all.go:588-616,       *)
(* 658-682).                                                               *)
SessionEnds ==
    \A s \in Sessions :
        (ses[s].link = "broken" \/ (ses[s].link = "up" /\ cancelled)) ~>
            \/ pc = "exit"
            \/ /\ ses[s].link = "closed" /\ ~ses[s].pinger
               /\ \/ ses[s].reader \in {"off", "ended"}
                  \/ pc = "done" /\ ses[s].reader = "pushing" /\ Len(ses[s].buf) = BufCap

(* Every quote of the connector is normalised: in the order the contract   *)
(* has the tokens in, with their decimals applied                          *)
(* (docs/project_documentation.md:20).                                     *)
Normalised ==
    \A p \in Pools : quote[p] # NoPrice => quote[p].tokens = Chain[p] /\ quote[p].norm
=============================================================================
