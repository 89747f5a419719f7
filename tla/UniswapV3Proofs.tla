-------------------------- MODULE UniswapV3Proofs --------------------------
(***************************************************************************)
(* Theorems about UniswapV3, for every set of pools and tokens, every file *)
(* of pools, rank of the stables, buffer and number of connections.        *)
(***************************************************************************)
EXTENDS UniswapV3, SequenceTheorems, TLAPS

Handling == pc \in {"quote", "update", "usd"}

(* Run has a connection where it uses one, the handler works on a pool of  *)
(* the run, and prices nothing in USD before the metadata are known.       *)
RunInv ==
    /\ pc \in {"subscribe", "select"} => session > 0
    /\ Handling => session > 0 /\ event \in DOMAIN meta
    /\ pc = "usd" => HasMeta(meta[event])

TypeInv == TypeOK /\ RunInv

(* What the chain confirmed has its tokens, and was published since then,  *)
(* unless the handler is about to.                                         *)
RightInv ==
    \A p \in DOMAIN meta : meta[p].verified =>
        /\ meta[p].tokens = Chain[p]
        /\ quote[p].tokens = Chain[p] \/ (pc = "quote" /\ event = p)
        /\ graph[p].tokens = Chain[p] \/ (pc \in {"quote", "update"} /\ event = p)

(* A registered pool has its stables among the anchors, and the handler    *)
(* registers a pool before it prices it.                                   *)
AnchorInv ==
    /\ \A p \in DOMAIN meta : meta[p].registered => KnownStables(meta[p]) \subseteq anchors
    /\ Handling /\ HasMeta(meta[event]) => meta[event].registered
    /\ StablesAnchored

-----------------------------------------------------------------------------
LEMMA Constants ==
    /\ MaxBackoff \in Nat \ {0, 1}
    /\ BufCap \in Nat \ {0} /\ MaxSessions \in Nat \ {0} /\ MaxEvents \in Nat
  BY V3Assumption

LEMMA NextBackoffRange ==
    ASSUME NEW b \in FirstBackoff..MaxBackoff
    PROVE  NextBackoff(b) \in FirstBackoff..MaxBackoff
  BY Constants DEF NextBackoff, FirstBackoff

LEMMA Numbers ==
    ASSUME TypeOK
    PROVE  /\ session \in Int /\ session >= 0 /\ session <= MaxSessions
           /\ session > 0 => session \in Sessions
  BY Constants DEF TypeOK, Sessions

-----------------------------------------------------------------------------
(* The metadata.                                                           *)

LEMMA PairIsTuple ==
    ASSUME NEW S, NEW g \in [1..2 -> S]
    PROVE  g \in S \X S
  <1>1. g = <<g[1], g[2]>>
    OBVIOUS
  <1>2. g[1] \in S /\ g[2] \in S
    OBVIOUS
  <1>3. QED
    BY <1>1, <1>2

LEMMA LoadedMeta ==
    ASSUME NEW f \in Files
    PROVE  /\ DOMAIN LoadPools(f) \subseteq Pools
           /\ \A p \in DOMAIN LoadPools(f) :
                /\ LoadPools(f)[p] \in PoolMetas
                /\ ~LoadPools(f)[p].verified /\ ~LoadPools(f)[p].registered
  <1> DEFINE first(p) == { i \in DOMAIN f : /\ Eligible(f[i]) /\ f[i].pool = p
                              /\ \A j \in 1..(i - 1) : ~(Eligible(f[j]) /\ f[j].pool = p) }
             loaded == { p \in Pools : first(p) # {} }
             e(p) == f[CHOOSE i \in first(p) : TRUE]
  <1>1. LoadPools(f) = [p \in loaded |-> Configured(e(p))]
    BY DEF LoadPools
  <1>2. ASSUME NEW p \in loaded
        PROVE  /\ Configured(e(p)) \in PoolMetas
               /\ ~Configured(e(p)).verified /\ ~Configured(e(p)).registered
    <2>1. PICK k \in DOMAIN f : e(p) = f[k] /\ Eligible(f[k])
      BY <1>2
    <2> HIDE DEF e, loaded
    <2> DEFINE g == f[k]
    <2>2. g.tokens \in (Tokens \cup {NoToken}) \X (Tokens \cup {NoToken})
          /\ g.decs \in BOOLEAN \X BOOLEAN
      BY V3Assumption
    <2>3. NoToken \notin {g.tokens[1], g.tokens[2]}
      BY <2>1 DEF Eligible
    <2>4. g.tokens \in Tokens \X Tokens
      BY <2>2, <2>3
    <2> DEFINE ms == [i \in 1..2 |-> [dec |-> g.decs[i], sym |-> TRUE]]
    <2>5. ms \in TokenMetas \X TokenMetas
      <3>1. ASSUME NEW i \in 1..2 PROVE [dec |-> g.decs[i], sym |-> TRUE] \in TokenMetas
        <4> HIDE DEF g
        <4>1. g.decs[i] \in BOOLEAN
          BY <2>2
        <4>2. QED
          BY <4>1 DEF TokenMetas
      <3>2. ms \in [1..2 -> TokenMetas]
        BY <3>1
      <3> HIDE DEF ms, g
      <3>3. QED
        BY <3>2, PairIsTuple
    <2>6. Configured(g) = [tokens |-> g.tokens, metas |-> ms, json |-> g.decs = <<TRUE, TRUE>>,
                           verified |-> FALSE, registered |-> FALSE]
      BY DEF Configured
    <2>7. (g.decs = <<TRUE, TRUE>>) \in BOOLEAN
      OBVIOUS
    <2> HIDE DEF ms, g
    <2>8. Configured(g) \in PoolMetas /\ ~Configured(g).verified /\ ~Configured(g).registered
      BY <2>4, <2>5, <2>6, <2>7 DEF PoolMetas
    <2>9. QED
      BY <2>1, <2>8 DEF g
  <1> HIDE DEF e, loaded
  <1>3. QED
    BY <1>1, <1>2 DEF loaded

LEMMA KnownStablesAre ==
    ASSUME NEW m
    PROVE  /\ KnownStables(m) \subseteq Stables
           /\ \A i \in 1..2 : m.tokens[i] \in Stables /\ m.metas[i].sym
                                => m.tokens[i] \in KnownStables(m)
           /\ KnownStables(m) \subseteq {m.tokens[1], m.tokens[2]}
  BY DEF KnownStables

(* A pool that prices WETH in a stable prices it in one.                   *)
LEMMA OneWethStable ==
    ASSUME NEW m, NEW s \in WethStable(m)
    PROVE  WethStable(m) = {s} /\ s \in Stables
  <1>1. /\ WETH \in {m.tokens[1], m.tokens[2]} /\ WethStable(m) = KnownStables(m)
    BY DEF WethStable
  <1>2. /\ KnownStables(m) \subseteq Stables
        /\ KnownStables(m) \subseteq {m.tokens[1], m.tokens[2]}
    BY KnownStablesAre
  <1>3. WETH \notin Stables
    BY V3Assumption
  <1>4. QED
    BY <1>1, <1>2, <1>3

(* What the check of a pool may leave: everything as it was, or the tokens *)
(* of the contract with its stables.                                       *)
Untouched(p, c) == c.m = meta[p] /\ c.cache = cache /\ c.anchors = {}

FromChain(p, c) ==
    /\ ~meta[p].verified
    /\ c.m.tokens = Chain[p] /\ c.m.verified
    /\ c.anchors = KnownStables(c.m)

LEMMA CheckedPool ==
    ASSUME TypeOK, NEW p \in DOMAIN meta, NEW c \in Checked(p)
    PROVE  /\ c.m \in PoolMetas /\ c.anchors \subseteq Stables
           /\ c.cache \in [Tokens -> [dec : BOOLEAN, sym : BOOLEAN, cached : BOOLEAN]]
           /\ Untouched(p, c) \/ FromChain(p, c)
  <1> DEFINE CacheTypes == [dec : BOOLEAN, sym : BOOLEAN, cached : BOOLEAN]
  <1>1. meta[p] \in PoolMetas /\ p \in Pools /\ cache \in [Tokens -> CacheTypes]
    BY DEF TypeOK
  <1>2. CASE c = [m |-> meta[p], cache |-> cache, anchors |-> {}]
    BY <1>1, <1>2 DEF Untouched
  <1>3. CASE ~meta[p].verified /\ c \in Ensured(p)
    <2>1. PICK a \in Fetched(p, 1), b \in Fetched(p, 2) :
            c = [m |-> OnChain(p, a, b), cache |-> Cached(p, a, b),
                 anchors |-> KnownStables(OnChain(p, a, b))]
      BY <1>3 DEF Ensured
    <2>2. a \in TokenMetas /\ b \in TokenMetas
      BY DEF Fetched, FetchTokenMeta
    <2>3. /\ c.m = OnChain(p, a, b) /\ c.cache = Cached(p, a, b)
          /\ c.anchors = KnownStables(c.m)
      BY <2>1
    <2>4. Chain[p] \in Tokens \X Tokens /\ Chain[p][1] \in Tokens /\ Chain[p][2] \in Tokens
      BY <1>1, V3Assumption
    <2>5. /\ a.dec \in BOOLEAN /\ b.dec \in BOOLEAN /\ a.sym \in BOOLEAN /\ b.sym \in BOOLEAN
      BY <2>2 DEF TokenMetas
    <2>6. c.m \in PoolMetas /\ c.m.tokens = Chain[p] /\ c.m.verified
      <3> DEFINE j == meta[p].json \/ (a.dec /\ b.dec)
      <3>1. c.m = [meta[p] EXCEPT !.tokens = Chain[p], !.metas = <<a, b>>, !.verified = TRUE,
                                  !.json = j]
        BY <2>3 DEF OnChain
      <3>2. <<a, b>> \in TokenMetas \X TokenMetas
        BY <2>2
      <3>3. j \in BOOLEAN
        OBVIOUS
      <3> HIDE DEF j
      <3>4. QED
        BY <1>1, <2>4, <3>1, <3>2, <3>3 DEF PoolMetas
    <2>7. c.cache \in [Tokens -> CacheTypes]
      <3> DEFINE x == [dec |-> a.dec, sym |-> a.sym, cached |-> TRUE]
                 y == [dec |-> b.dec, sym |-> b.sym, cached |-> TRUE]
      <3>1. x \in CacheTypes /\ y \in CacheTypes
        BY <2>5
      <3>2. c.cache = [cache EXCEPT ![Chain[p][1]] = x, ![Chain[p][2]] = y]
        BY <2>3 DEF Cached
      <3> HIDE DEF x, y, CacheTypes
      <3>3. QED
        BY <1>1, <2>4, <3>1, <3>2
    <2>8. c.anchors \subseteq Stables
      BY <2>3, KnownStablesAre
    <2>9. QED
      BY <1>3, <2>3, <2>6, <2>7, <2>8 DEF FromChain
  <1>4. QED
    BY <1>2, <1>3 DEF Checked

-----------------------------------------------------------------------------
(* The connections.                                                        *)

LEMMA Buffers ==
    ASSUME TypeOK, NEW s \in Sessions
    PROVE  /\ ses[s] \in Connection
           /\ ses[s].buf \in Seq(Frames) /\ Len(ses[s].buf) \in Nat
           /\ Len(ses[s].buf) <= BufCap
  <1>1. ses[s] \in Connection /\ ses[s].buf \in Seq(Frames) /\ Len(ses[s].buf) <= BufCap
    BY DEF TypeOK, Connection
  <1>2. QED
    BY <1>1, LenProperties

LEMMA FreshConnection ==
    NoSession \in Connection /\ Len(NoSession.buf) <= BufCap
  <1> DEFINE e == <<>>
  <1>1. e \in Seq(Frames) /\ Len(e) = 0
    BY EmptySeq
  <1>2. NoSession = [link |-> "none", reader |-> "off", pinger |-> FALSE, held |-> "none",
                     buf |-> e, events |-> 0]
    BY DEF NoSession
  <1> HIDE DEF e
  <1>3. NoSession \in Connection /\ NoSession.buf = e
    BY <1>1, <1>2 DEF Connection, Frames
  <1>4. 0 <= BufCap
    BY Constants
  <1>5. QED
    BY <1>1, <1>3, <1>4

LEMMA ConnectionStep ==
    ASSUME TypeOK, NEW s \in Sessions, NEW c \in Connection, Len(c.buf) <= BufCap,
           ses' = [ses EXCEPT ![s] = c]
    PROVE  ses' \in [Sessions -> Connection] /\ \A t \in Sessions : Len(ses'[t].buf) <= BufCap
  BY DEF TypeOK

LEMMA LinkReaderPinger ==
    ASSUME TypeOK, NEW s \in Sessions,
           NEW l \in {ses[s].link, "up", "broken"},
           NEW d \in {ses[s].reader, "reading", "ended"}, NEW b \in {ses[s].pinger, TRUE, FALSE}
    PROVE  LET c == [ses[s] EXCEPT !.link = l, !.reader = d, !.pinger = b] IN
           c \in Connection /\ Len(c.buf) <= BufCap
  <1>1. ses[s] \in Connection /\ Len(ses[s].buf) <= BufCap
    BY Buffers
  <1>2. b \in BOOLEAN
    BY <1>1 DEF Connection
  <1>3. QED
    BY <1>1, <1>2 DEF Connection

LEMMA TakenConnection ==
    ASSUME TypeOK, NEW s \in Sessions, ses[s].buf # <<>>
    PROVE  LET c == [ses[s] EXCEPT !.buf = Tail(@)] IN
           /\ c \in Connection /\ Len(c.buf) <= BufCap
           /\ Head(ses[s].buf) \in Frames
  <1> DEFINE b == ses[s].buf
             t == Tail(b)
  <1>1. ses[s] \in Connection /\ b \in Seq(Frames) /\ Len(b) \in Nat \ {0} /\ Len(b) <= BufCap
    BY Buffers, EmptySeq
  <1>2. t \in Seq(Frames) /\ Len(t) = Len(b) - 1 /\ Head(b) = b[1]
    BY <1>1, EmptySeq, HeadTailProperties
  <1>3. 1 \in 1..Len(b)
    BY <1>1
  <1> HIDE DEF b
  <1>4. Head(b) \in Frames
    BY <1>1, <1>2, <1>3, ElementOfSeq
  <1>5. Len(t) <= BufCap
    BY <1>1, <1>2, Constants
  <1> HIDE DEF t
  <1>6. [ses[s] EXCEPT !.buf = t] \in Connection
    BY <1>1, <1>2 DEF Connection
  <1>7. QED
    BY <1>1, <1>4, <1>5, <1>6 DEF t, b, Connection

LEMMA PushedConnection ==
    ASSUME TypeOK, NEW s \in Sessions, Len(ses[s].buf) < BufCap
    PROVE  LET c == [ses[s] EXCEPT !.buf = Append(@, ses[s].held), !.held = "none",
                                   !.reader = "reading"] IN
           c \in Connection /\ Len(c.buf) <= BufCap
  <1> DEFINE b == ses[s].buf
             t == Append(b, ses[s].held)
  <1>1. /\ ses[s] \in Connection /\ b \in Seq(Frames) /\ Len(b) \in Nat
        /\ ses[s].held \in Frames
    BY Buffers DEF Connection
  <1>2. t \in Seq(Frames) /\ Len(t) = Len(b) + 1
    BY <1>1, AppendProperties
  <1>3. Len(t) <= BufCap
    BY <1>1, <1>2, Constants
  <1> HIDE DEF t
  <1>4. [ses[s] EXCEPT !.buf = t, !.held = "none", !.reader = "reading"] \in Connection
    BY <1>1, <1>2 DEF Connection, Frames
  <1>5. QED
    BY <1>1, <1>3, <1>4 DEF t, Connection

LEMMA HeldConnection ==
    ASSUME TypeOK, NEW s \in Sessions, NEW f \in Frames
    PROVE  LET c == [ses[s] EXCEPT !.held = f, !.reader = "pushing", !.events = @ + 1] IN
           c \in Connection /\ Len(c.buf) <= BufCap
  <1> DEFINE n == ses[s].events + 1
  <1>1. ses[s] \in Connection /\ Len(ses[s].buf) <= BufCap /\ n \in Nat
    BY Buffers DEF Connection
  <1> HIDE DEF n
  <1>2. [ses[s] EXCEPT !.held = f, !.reader = "pushing", !.events = n] \in Connection
    BY <1>1 DEF Connection
  <1>3. QED
    BY <1>1, <1>2 DEF n, Connection

(* What Closed leaves of a connection, and the one whose reader ended.     *)
Shut(s) == [NoSession EXCEPT !.link = "closed", !.reader = ses[s].reader,
                             !.pinger = ses[s].pinger,
                             !.buf = [i \in DOMAIN ses[s].buf |-> "none"]]

Emptied(s) == [Shut(s) EXCEPT !.buf = <<>>]

LEMMA ShutConnection ==
    ASSUME TypeOK, NEW s \in Sessions
    PROVE  /\ Shut(s) \in Connection /\ Len(Shut(s).buf) <= BufCap
           /\ Closed(s) = [ses EXCEPT ![s] = Shut(s)]
  <1> DEFINE b == ses[s].buf
             c == [i \in DOMAIN b |-> "none"]
             d == ses[s].reader
             q == ses[s].pinger
  <1>1. /\ ses[s] \in Connection /\ b \in Seq(Frames) /\ Len(b) \in Nat
        /\ Len(b) <= BufCap /\ d \in {"off", "reading", "pushing", "ended"} /\ q \in BOOLEAN
    BY Buffers DEF Connection
  <1>2. DOMAIN b = 1..Len(b)
    BY <1>1, LenProperties
  <1>3. [i \in 1..Len(b) |-> "none"] \in Seq(Frames)
    BY <1>1 DEF Frames
  <1>4. c \in Seq(Frames) /\ Len(c) = Len(b)
    BY <1>1, <1>2, <1>3, LenProperties
  <1>5. Closed(s) = [ses EXCEPT ![s] = Shut(s)]
    BY DEF Closed, Shut
  <1>6. Shut(s) = [NoSession EXCEPT !.link = "closed", !.reader = d, !.pinger = q, !.buf = c]
    BY DEF Shut
  <1> HIDE DEF c, b, d, q
  <1>7. Shut(s) = [link |-> "closed", reader |-> d, pinger |-> q, held |-> "none", buf |-> c,
                   events |-> 0]
    BY <1>6 DEF NoSession
  <1>8. Shut(s) \in Connection /\ Len(Shut(s).buf) <= BufCap
    BY <1>1, <1>4, <1>7 DEF Connection, Frames
  <1>9. QED
    BY <1>5, <1>8

LEMMA EmptiedConnection ==
    ASSUME TypeOK, NEW s \in Sessions
    PROVE  /\ Emptied(s) \in Connection /\ Len(Emptied(s).buf) <= BufCap
           /\ [Closed(s) EXCEPT ![s].buf = <<>>] = [ses EXCEPT ![s] = Emptied(s)]
  <1> DEFINE e == <<>>
  <1>1. Shut(s) \in Connection /\ Closed(s) = [ses EXCEPT ![s] = Shut(s)]
    BY ShutConnection
  <1>2. Emptied(s) = [Shut(s) EXCEPT !.buf = e]
    BY DEF Emptied
  <1>3. e \in Seq(Frames) /\ Len(e) = 0
    BY EmptySeq
  <1>4. [Closed(s) EXCEPT ![s].buf = <<>>] = [ses EXCEPT ![s] = Emptied(s)]
    <2>1. ses \in [Sessions -> Connection]
      BY DEF TypeOK
    <2>2. Closed(s)[s] = Shut(s)
      BY <1>1, <2>1
    <2>3. QED
      BY <1>1, <2>1, <2>2 DEF Emptied
  <1> HIDE DEF e
  <1>5. Emptied(s) \in Connection /\ Emptied(s).buf = e
    BY <1>1, <1>2, <1>3 DEF Connection
  <1>6. Len(Emptied(s).buf) <= BufCap
    <2>1. 0 <= BufCap
      BY Constants
    <2>2. QED
      BY <1>3, <1>5, <2>1
  <1>7. QED
    BY <1>4, <1>5, <1>6

-----------------------------------------------------------------------------
(* Type correctness.                                                       *)

LEMMA TypeInit == Init => TypeInv
  <1> SUFFICES ASSUME Init PROVE TypeInv
    OBVIOUS
  <1>1. DOMAIN meta = {}
    BY DEF Init, LoadPools
  <1>2. NoPrice \in Prices
    BY DEF NoPrice, Prices
  <1>3. Uncached \in [dec : BOOLEAN, sym : BOOLEAN, cached : BOOLEAN]
    BY DEF Uncached
  <1>4. /\ ses \in [Sessions -> Connection]
        /\ \A s \in Sessions : Len(ses[s].buf) <= BufCap
    BY FreshConnection DEF Init
  <1>5. FirstBackoff \in FirstBackoff..MaxBackoff /\ 0 \in 0..MaxSessions
    BY Constants DEF FirstBackoff
  <1>6. quote \in [Pools -> Prices] /\ graph \in [Pools -> Prices]
    BY <1>2 DEF Init
  <1>7. cache \in [Tokens -> [dec : BOOLEAN, sym : BOOLEAN, cached : BOOLEAN]]
    BY <1>3 DEF Init
  <1>8. /\ pc = "load" /\ cancelled = FALSE /\ weth = NoToken /\ offered = {} /\ anchors = {}
        /\ event = "none" /\ session = 0 /\ backoff = FirstBackoff
    BY DEF Init
  <1>9. TypeOK
    BY <1>1, <1>4, <1>5, <1>6, <1>7, <1>8 DEF TypeOK
  <1>10. QED
    BY <1>8, <1>9 DEF TypeInv, RunInv, Handling

LEMMA LoadType ==
    ASSUME TypeInv, Load
    PROVE  TypeInv'
  <1>1. /\ pc = "load" /\ pc' \in {"failed", "dial"}
        /\ UNCHANGED <<cancelled, backoff, connVars, anchors, priceVars>>
    BY DEF Load
  <1>2. DOMAIN meta' \subseteq Pools /\ \A p \in DOMAIN meta' : meta'[p] \in PoolMetas
    <2>1. CASE UNCHANGED metaVars
      BY <2>1 DEF metaVars, TypeInv, TypeOK
    <2>2. CASE \E f \in Files : meta' = LoadPools(f)
      BY <2>2, LoadedMeta
    <2>3. QED
      BY <2>1, <2>2 DEF Load
  <1>3. /\ cache' \in [Tokens -> [dec : BOOLEAN, sym : BOOLEAN, cached : BOOLEAN]]
        /\ weth' \in Stables \cup {NoToken} /\ offered' \subseteq Stables
    <2>1. CASE UNCHANGED <<cache, wethVars>>
      BY <2>1 DEF wethVars, TypeInv, TypeOK
    <2>2. CASE cache' = [t \in Tokens |-> Uncached] /\ weth' = NoToken /\ offered' = {}
      <3>1. Uncached \in [dec : BOOLEAN, sym : BOOLEAN, cached : BOOLEAN]
        BY DEF Uncached
      <3>2. QED
        BY <2>2, <3>1
    <2>3. QED
      BY <2>1, <2>2 DEF Load, metaVars
  <1>4. TypeOK'
    BY <1>1, <1>2, <1>3 DEF TypeInv, TypeOK, connVars, priceVars
  <1>5. RunInv'
    BY <1>1 DEF RunInv, Handling
  <1>6. QED
    BY <1>4, <1>5 DEF TypeInv

(* A step of Run, of a goroutine of a connection or of the surroundings    *)
(* that leaves the data alone.                                             *)
LEMMA RunType ==
    ASSUME TypeInv, UNCHANGED <<metaVars, wethVars, anchors, priceVars>>,
           cancelled' \in BOOLEAN, backoff' \in FirstBackoff..MaxBackoff,
           session' \in 0..MaxSessions,
           ses' \in [Sessions -> Connection], \A s \in Sessions : Len(ses'[s].buf) <= BufCap,
           \/ pc' = pc /\ session' = session
           \/ pc' \in {"load", "dial", "wait", "rest", "done", "exit"}
           \/ pc' \in {"subscribe", "select"} /\ session' > 0
    PROVE  TypeInv'
  <1>1. TypeOK'
    BY DEF TypeInv, TypeOK, metaVars, wethVars, priceVars
  <1>2. RunInv'
    BY DEF TypeInv, RunInv, Handling, metaVars, priceVars
  <1>3. QED
    BY <1>1, <1>2 DEF TypeInv

LEMMA LoopType ==
    ASSUME TypeInv, Restart \/ Dial \/ Sleep \/ Cancel \/ UNCHANGED vars
    PROVE  TypeInv'
  <1> USE DEF KeepData
  <1>1. /\ cancelled \in BOOLEAN /\ backoff \in FirstBackoff..MaxBackoff
        /\ session \in 0..MaxSessions /\ NextBackoff(backoff) \in FirstBackoff..MaxBackoff
        /\ ses \in [Sessions -> Connection] /\ \A s \in Sessions : Len(ses[s].buf) <= BufCap
    BY NextBackoffRange DEF TypeInv, TypeOK
  <1>2. CASE Restart \/ Cancel \/ UNCHANGED vars
    BY <1>1, <1>2, RunType DEF Restart, Cancel, vars, connVars
  <1>3. CASE Sleep
    BY <1>1, <1>3, RunType DEF Sleep, connVars
  <1>4. CASE Dial /\ pc' \in {"done", "wait"}
    BY <1>1, <1>4, RunType DEF Dial, connVars
  <1>5. CASE Dial /\ pc' = "subscribe"
    <2> DEFINE s == session + 1
               c == [ses[s] EXCEPT !.link = "up", !.reader = ses[s].reader,
                                   !.pinger = ses[s].pinger]
    <2>1. /\ session < MaxSessions /\ session' = s
          /\ ses' = [ses EXCEPT ![s].link = "up"]
          /\ UNCHANGED <<cancelled, backoff, metaVars, wethVars, anchors, priceVars>>
      BY <1>5 DEF Dial
    <2>2. s \in Sessions /\ s \in 0..MaxSessions /\ s > 0
      BY <2>1, Constants, Numbers DEF TypeInv, TypeOK, Sessions
    <2>3. c \in Connection /\ Len(c.buf) <= BufCap
      BY <2>2, LinkReaderPinger DEF TypeInv
    <2>4. ses[s] \in Connection
      BY <2>2, Buffers DEF TypeInv
    <2>5. ses' = [ses EXCEPT ![s] = c]
      BY <2>1, <2>4 DEF Connection
    <2> HIDE DEF c
    <2>6. ses' \in [Sessions -> Connection] /\ \A t \in Sessions : Len(ses'[t].buf) <= BufCap
      BY <2>2, <2>3, <2>5, ConnectionStep DEF TypeInv
    <2>7. QED
      BY <1>1, <1>5, <2>1, <2>2, <2>6, RunType
  <1>6. QED
    BY <1>2, <1>3, <1>4, <1>5 DEF Dial

LEMMA StreamType ==
    ASSUME TypeInv, Subscribe \/ StreamCancelled \/ ReaderEnded
    PROVE  TypeInv'
  <1> USE DEF KeepData
  <1>1. /\ TypeOK /\ session \in Sessions /\ session > 0
        /\ cancelled \in BOOLEAN /\ backoff \in FirstBackoff..MaxBackoff
        /\ session \in 0..MaxSessions /\ NextBackoff(backoff) \in FirstBackoff..MaxBackoff
        /\ FirstBackoff \in FirstBackoff..MaxBackoff
    BY Numbers, NextBackoffRange, Constants
       DEF TypeInv, TypeOK, RunInv, Subscribe, StreamCancelled, ReaderEnded, FirstBackoff
  <1>2. UNCHANGED <<cancelled, session, metaVars, wethVars, anchors, priceVars>>
    BY DEF Subscribe, StreamCancelled, ReaderEnded
  <1>3. CASE ses' = [ses EXCEPT ![session].reader = "reading", ![session].pinger = TRUE]
             /\ backoff' = FirstBackoff /\ pc' = "select"
    <2> DEFINE c == [ses[session] EXCEPT !.link = ses[session].link, !.reader = "reading",
                                         !.pinger = TRUE]
    <2>1. c \in Connection /\ Len(c.buf) <= BufCap
      BY <1>1, LinkReaderPinger
    <2>2. ses[session] \in Connection
      BY <1>1, Buffers
    <2>3. ses' = [ses EXCEPT ![session] = c]
      BY <1>3, <2>2 DEF Connection
    <2> HIDE DEF c
    <2>4. ses' \in [Sessions -> Connection] /\ \A t \in Sessions : Len(ses'[t].buf) <= BufCap
      BY <1>1, <2>1, <2>3, ConnectionStep
    <2>5. QED
      BY <1>1, <1>2, <1>3, <2>4, RunType
  <1>4. CASE /\ ses' = Closed(session) /\ pc' \in {"wait", "done"}
             /\ backoff' \in {backoff, NextBackoff(backoff)}
    <2>1. ses' \in [Sessions -> Connection] /\ \A t \in Sessions : Len(ses'[t].buf) <= BufCap
      BY <1>1, <1>4, ShutConnection, ConnectionStep
    <2>2. QED
      BY <1>1, <1>2, <1>4, <2>1, RunType
  <1>5. CASE /\ ses' = [Closed(session) EXCEPT ![session].buf = <<>>]
             /\ pc' = "rest" /\ backoff' = backoff
    <2>1. /\ Emptied(session) \in Connection /\ Len(Emptied(session).buf) <= BufCap
          /\ ses' = [ses EXCEPT ![session] = Emptied(session)]
      BY <1>1, <1>5, EmptiedConnection
    <2>2. ses' \in [Sessions -> Connection] /\ \A t \in Sessions : Len(ses'[t].buf) <= BufCap
      BY <1>1, <2>1, ConnectionStep
    <2>3. QED
      BY <1>1, <1>2, <1>5, <2>2, RunType
  <1>6. QED
    BY <1>3, <1>4, <1>5 DEF Subscribe, StreamCancelled, ReaderEnded

LEMMA GoroutineType ==
    ASSUME TypeInv,
           \/ Break
           \/ \E s \in Sessions : ReadFrame(s) \/ ReadError(s) \/ Push(s) \/ PingerEnds(s)
    PROVE  TypeInv'
  <1>1. /\ TypeOK /\ UNCHANGED <<cancelled, pc, backoff, session,
                                 metaVars, wethVars, anchors, priceVars>>
        /\ cancelled \in BOOLEAN /\ backoff \in FirstBackoff..MaxBackoff
        /\ session \in 0..MaxSessions
    BY DEF TypeInv, TypeOK, Break, ReadFrame, ReadError, Push, PingerEnds, OnlySession, KeepData
  <1>2. SUFFICES \E s \in Sessions, c \in Connection :
                   Len(c.buf) <= BufCap /\ ses' = [ses EXCEPT ![s] = c]
    <2>1. PICK s \in Sessions, c \in Connection :
            Len(c.buf) <= BufCap /\ ses' = [ses EXCEPT ![s] = c]
      BY <1>2
    <2>2. ses' \in [Sessions -> Connection] /\ \A t \in Sessions : Len(ses'[t].buf) <= BufCap
      BY <1>1, <2>1, ConnectionStep
    <2>3. QED
      BY <1>1, <2>2, RunType
  <1>3. ASSUME NEW s \in Sessions, NEW l \in {ses[s].link, "broken"},
               NEW d \in {ses[s].reader, "ended"}, NEW b \in {ses[s].pinger, FALSE},
               \/ ses' = [ses EXCEPT ![s].link = l] /\ d = ses[s].reader /\ b = ses[s].pinger
               \/ ses' = [ses EXCEPT ![s].reader = d] /\ l = ses[s].link /\ b = ses[s].pinger
               \/ ses' = [ses EXCEPT ![s].pinger = b] /\ l = ses[s].link /\ d = ses[s].reader
        PROVE  \E c \in Connection : Len(c.buf) <= BufCap /\ ses' = [ses EXCEPT ![s] = c]
    <2> DEFINE c == [ses[s] EXCEPT !.link = l, !.reader = d, !.pinger = b]
    <2>1. c \in Connection /\ Len(c.buf) <= BufCap
      BY <1>1, LinkReaderPinger
    <2>2. ses[s] \in Connection
      BY <1>1, Buffers
    <2>3. ses' = [ses EXCEPT ![s] = c]
      BY <1>3, <2>2 DEF Connection
    <2> HIDE DEF c
    <2>4. QED
      BY <2>1, <2>3
  <1>4. CASE Break
    <2>1. session \in Sessions /\ ses' = [ses EXCEPT ![session].link = "broken"]
      BY <1>1, <1>4, Numbers DEF Break
    <2>2. QED
      BY <1>3, <2>1
  <1>5. ASSUME NEW s \in Sessions, ReadError(s) \/ PingerEnds(s)
        PROVE  \E c \in Connection : Len(c.buf) <= BufCap /\ ses' = [ses EXCEPT ![s] = c]
    BY <1>3, <1>5 DEF ReadError, PingerEnds
  <1>6. ASSUME NEW s \in Sessions, ReadFrame(s)
        PROVE  \E c \in Connection : Len(c.buf) <= BufCap /\ ses' = [ses EXCEPT ![s] = c]
    <2>1. PICK f \in Frames :
            ses' = [ses EXCEPT ![s].held = f, ![s].reader = "pushing", ![s].events = @ + 1]
      BY <1>6 DEF ReadFrame
    <2> DEFINE c == [ses[s] EXCEPT !.held = f, !.reader = "pushing", !.events = @ + 1]
    <2>2. c \in Connection /\ Len(c.buf) <= BufCap
      BY <1>1, HeldConnection
    <2>3. ses' = [ses EXCEPT ![s] = c]
      BY <2>1
    <2> HIDE DEF c
    <2>4. QED
      BY <2>2, <2>3
  <1>7. ASSUME NEW s \in Sessions, Push(s)
        PROVE  \E c \in Connection : Len(c.buf) <= BufCap /\ ses' = [ses EXCEPT ![s] = c]
    <2> DEFINE c == [ses[s] EXCEPT !.buf = Append(@, ses[s].held), !.held = "none",
                                   !.reader = "reading"]
    <2>1. Len(ses[s].buf) < BufCap
      BY <1>7 DEF Push
    <2>2. c \in Connection /\ Len(c.buf) <= BufCap
      BY <1>1, <2>1, PushedConnection
    <2>3. ses' = [ses EXCEPT ![s] = c]
      BY <1>7 DEF Push
    <2> HIDE DEF c
    <2>4. QED
      BY <2>2, <2>3
  <1>8. QED
    BY <1>4, <1>5, <1>6, <1>7

-----------------------------------------------------------------------------
(* The handling of a swap.                                                 *)

Registered(m) == [m EXCEPT !.registered = @ \/ HasMeta(m)]

LEMMA RegisteredMeta ==
    ASSUME NEW m \in PoolMetas
    PROVE  /\ Registered(m) \in PoolMetas
           /\ Registered(m).tokens = m.tokens /\ Registered(m).metas = m.metas
           /\ Registered(m).verified = m.verified
           /\ HasMeta(Registered(m)) = HasMeta(m)
           /\ Registered(m).registered <=> m.registered \/ HasMeta(m)
           /\ KnownStables(Registered(m)) = KnownStables(m)
  <1> DEFINE r == m.registered \/ HasMeta(m)
  <1>1. r \in BOOLEAN
    BY DEF PoolMetas, HasMeta
  <1>2. Registered(m) = [m EXCEPT !.registered = r]
    BY DEF Registered
  <1> HIDE DEF r
  <1>3. /\ Registered(m) \in PoolMetas
        /\ Registered(m).tokens = m.tokens /\ Registered(m).metas = m.metas
        /\ Registered(m).verified = m.verified /\ Registered(m).json = m.json
        /\ Registered(m).registered = r
    BY <1>1, <1>2 DEF PoolMetas
  <1>4. HasMeta(Registered(m)) = HasMeta(m) /\ KnownStables(Registered(m)) = KnownStables(m)
    BY <1>3 DEF HasMeta, KnownStables
  <1>5. QED
    BY <1>3, <1>4 DEF r

(* What HandleSwap does, for the outcome of the check and the sanity of    *)
(* the price it had.                                                       *)
Swap(p, c, stable) ==
    /\ meta' = [meta EXCEPT ![p] = Registered(c.m)]
    /\ cache' = c.cache
    /\ anchors' = anchors \cup c.anchors
                  \cup IF HasMeta(c.m) /\ ~c.m.registered THEN KnownStables(c.m) ELSE {}
    /\ offered' = offered \cup stable
    /\ weth' = IF stable = {} THEN weth ELSE MaybeSetWETHUSD(CHOOSE s \in stable : TRUE)
    /\ event' = p /\ pc' = "quote"

LEMMA SwapOutcome ==
    ASSUME NEW p, HandleSwap(p)
    PROVE  \E c \in Checked(p) : Swap(p, c, {}) \/ Swap(p, c, WethStable(c.m))
  <1>1. PICK c \in Checked(p), sane \in BOOLEAN :
          LET stable == IF sane THEN WethStable(c.m) ELSE {} IN
          /\ meta' = [meta EXCEPT ![p] = [c.m EXCEPT !.registered = @ \/ HasMeta(c.m)]]
          /\ cache' = c.cache
          /\ anchors' = anchors \cup c.anchors
                        \cup IF HasMeta(c.m) /\ ~c.m.registered THEN KnownStables(c.m) ELSE {}
          /\ offered' = offered \cup stable
          /\ weth' = IF stable = {} THEN weth ELSE MaybeSetWETHUSD(CHOOSE s \in stable : TRUE)
          /\ event' = p /\ pc' = "quote"
    BY DEF HandleSwap
  <1> DEFINE stable == IF sane THEN WethStable(c.m) ELSE {}
  <1>2. stable = {} \/ stable = WethStable(c.m)
    OBVIOUS
  <1>3. Swap(p, c, stable)
    BY <1>1 DEF Swap, Registered
  <1> HIDE DEF stable
  <1>4. Swap(p, c, {}) \/ Swap(p, c, WethStable(c.m))
    BY <1>2, <1>3
  <1>5. QED
    BY <1>4

(* The stable a swap may offer, and what becomes of the WETH price.        *)
LEMMA SwapWeth ==
    ASSUME NEW p, NEW c, Swap(p, c, {}) \/ Swap(p, c, WethStable(c.m))
    PROVE  \/ offered' = offered /\ weth' = weth
           \/ \E s \in Stables : offered' = offered \cup {s} /\ weth' = MaybeSetWETHUSD(s)
  <1>1. CASE Swap(p, c, {}) \/ (Swap(p, c, WethStable(c.m)) /\ WethStable(c.m) = {})
    BY <1>1 DEF Swap
  <1>2. CASE Swap(p, c, WethStable(c.m)) /\ WethStable(c.m) # {}
    <2>1. PICK s : s \in WethStable(c.m)
      BY <1>2
    <2>2. WethStable(c.m) = {s} /\ s \in Stables
      BY <2>1, OneWethStable
    <2>3. (CHOOSE x \in {s} : TRUE) = s
      OBVIOUS
    <2>4. /\ offered' = offered \cup {s}
          /\ weth' = MaybeSetWETHUSD(CHOOSE x \in {s} : TRUE)
      BY <1>2, <2>2 DEF Swap
    <2>5. weth' = MaybeSetWETHUSD(s)
      BY <2>3, <2>4
    <2>6. QED
      BY <2>2, <2>4, <2>5
  <1>3. QED
    BY <1>1, <1>2

LEMMA SwapType ==
    ASSUME TypeInv, NEW p \in DOMAIN meta, HandleSwap(p)
    PROVE  /\ DOMAIN meta' = DOMAIN meta /\ \A q \in DOMAIN meta : meta'[q] \in PoolMetas
           /\ cache' \in [Tokens -> [dec : BOOLEAN, sym : BOOLEAN, cached : BOOLEAN]]
           /\ anchors' \subseteq Stables
           /\ weth' \in Stables \cup {NoToken} /\ offered' \subseteq Stables
           /\ event' = p /\ pc' = "quote"
  <1>1. PICK c \in Checked(p) : Swap(p, c, {}) \/ Swap(p, c, WethStable(c.m))
    BY SwapOutcome
  <1>2. /\ c.m \in PoolMetas /\ c.anchors \subseteq Stables
        /\ c.cache \in [Tokens -> [dec : BOOLEAN, sym : BOOLEAN, cached : BOOLEAN]]
    BY CheckedPool DEF TypeInv
  <1>3. /\ meta' = [meta EXCEPT ![p] = Registered(c.m)] /\ cache' = c.cache
        /\ anchors' = anchors \cup c.anchors
                      \cup IF HasMeta(c.m) /\ ~c.m.registered THEN KnownStables(c.m) ELSE {}
        /\ event' = p /\ pc' = "quote"
    BY <1>1 DEF Swap
  <1>4. Registered(c.m) \in PoolMetas
    BY <1>2, RegisteredMeta
  <1>5. DOMAIN meta' = DOMAIN meta /\ \A q \in DOMAIN meta : meta'[q] \in PoolMetas
    BY <1>3, <1>4 DEF TypeInv, TypeOK
  <1>6. anchors' \subseteq Stables
    BY <1>2, <1>3, KnownStablesAre DEF TypeInv, TypeOK
  <1>7. weth' \in Stables \cup {NoToken} /\ offered' \subseteq Stables
    BY <1>1, SwapWeth DEF TypeInv, TypeOK, MaybeSetWETHUSD
  <1>8. QED
    BY <1>2, <1>3, <1>5, <1>6, <1>7

LEMMA TakeFrameType ==
    ASSUME TypeInv, TakeFrame
    PROVE  TypeInv'
  <1> DEFINE f == Head(ses[session].buf)
             fatal == f = "reject" /\ StopOnAckError
  <1>1. /\ pc = "select" /\ ses[session].buf # <<>>
        /\ ses' = IF fatal THEN [s \in Sessions |-> NoSession]
                           ELSE [ses EXCEPT ![session].buf = Tail(@)]
        /\ IF f \in DOMAIN meta THEN HandleSwap(f)
           ELSE /\ pc' = IF fatal THEN "exit" ELSE pc
                /\ UNCHANGED <<metaVars, wethVars, anchors, event>>
        /\ UNCHANGED <<cancelled, backoff, session, quote, graph>>
    BY DEF TakeFrame
  <1>2. TypeOK /\ session \in Sessions /\ session > 0 /\ session' = session
    BY <1>1, Numbers DEF TypeInv, RunInv
  <1> HIDE DEF f, fatal
  <1>3. ses' \in [Sessions -> Connection] /\ \A t \in Sessions : Len(ses'[t].buf) <= BufCap
    <2>1. CASE fatal
      BY <1>1, <2>1, FreshConnection
    <2>2. CASE ~fatal
      <3> DEFINE c == [ses[session] EXCEPT !.buf = Tail(@)]
      <3>1. c \in Connection /\ Len(c.buf) <= BufCap
        BY <1>1, <1>2, TakenConnection
      <3>2. ses' = [ses EXCEPT ![session] = c]
        BY <1>1, <2>2
      <3> HIDE DEF c
      <3>3. QED
        BY <1>2, <3>1, <3>2, ConnectionStep
    <2>3. QED
      BY <2>1, <2>2
  <1>4. CASE f \in DOMAIN meta
    <2>1. HandleSwap(f)
      BY <1>1, <1>4
    <2>2. /\ DOMAIN meta' = DOMAIN meta /\ \A q \in DOMAIN meta : meta'[q] \in PoolMetas
          /\ cache' \in [Tokens -> [dec : BOOLEAN, sym : BOOLEAN, cached : BOOLEAN]]
          /\ anchors' \subseteq Stables
          /\ weth' \in Stables \cup {NoToken} /\ offered' \subseteq Stables
          /\ event' = f /\ pc' = "quote"
      BY <1>4, <2>1, SwapType
    <2>3. TypeOK'
      <3>1. event' \in Pools
        BY <1>2, <1>4, <2>2 DEF TypeOK
      <3>2. QED
        BY <1>1, <1>2, <1>3, <2>2, <3>1 DEF TypeOK
    <2>4. RunInv'
      BY <1>2, <1>4, <2>2 DEF RunInv
    <2>5. QED
      BY <2>3, <2>4 DEF TypeInv
  <1>5. CASE f \notin DOMAIN meta
    <2>1. pc' \in {"exit", "select"} /\ UNCHANGED <<metaVars, wethVars, anchors, event>>
      BY <1>1, <1>5
    <2>2. TypeOK'
      BY <1>1, <1>2, <1>3, <2>1 DEF TypeOK, metaVars, wethVars
    <2>3. RunInv'
      BY <1>2, <2>1 DEF RunInv, Handling
    <2>4. QED
      BY <2>2, <2>3 DEF TypeInv
  <1>6. QED
    BY <1>4, <1>5

LEMMA PriceType ==
    ASSUME NEW m \in PoolMetas
    PROVE  PriceOf(m) \in Prices /\ PriceOf(m).tokens = m.tokens
           /\ PriceOf(m).syms = <<m.metas[1].sym, m.metas[2].sym>>
  <1>1. /\ m.tokens \in Tokens \X Tokens
        /\ m.metas[1].sym \in BOOLEAN /\ m.metas[2].sym \in BOOLEAN
        /\ m.metas[1].dec \in BOOLEAN /\ m.metas[2].dec \in BOOLEAN
    BY DEF PoolMetas, TokenMetas
  <1>2. m.tokens \in (Tokens \cup {NoToken}) \X (Tokens \cup {NoToken})
    BY <1>1
  <1> DEFINE n == HasMeta(m) /\ m.metas[1].dec /\ m.metas[2].dec
             y == <<m.metas[1].sym, m.metas[2].sym>>
  <1>3. y \in BOOLEAN \X BOOLEAN /\ n \in BOOLEAN
    BY <1>1 DEF HasMeta
  <1>4. PriceOf(m) = [tokens |-> m.tokens, syms |-> y, norm |-> n]
    BY DEF PriceOf
  <1> HIDE DEF n, y
  <1>5. PriceOf(m) \in Prices /\ PriceOf(m).tokens = m.tokens /\ PriceOf(m).syms = y
    BY <1>2, <1>3, <1>4 DEF Prices
  <1>6. QED
    BY <1>5 DEF y

LEMMA PublishType ==
    ASSUME TypeInv, EmitPair \/ UpdatePricing \/ EmitUSD
    PROVE  TypeInv'
  <1> USE DEF KeepRun
  <1>1. /\ TypeOK /\ session > 0 /\ event \in DOMAIN meta /\ event \in Pools
        /\ meta[event] \in PoolMetas
    BY DEF TypeInv, TypeOK, RunInv, Handling, EmitPair, UpdatePricing, EmitUSD
  <1>2. PriceOf(meta[event]) \in Prices
    BY <1>1, PriceType
  <1>3. /\ UNCHANGED <<cancelled, backoff, session, ses, meta, cache, weth, offered, anchors>>
        /\ pc' \in {"select", "update", "usd"} /\ event' \in {event, "none"}
        /\ quote' = quote \/ quote' = [quote EXCEPT ![event] = PriceOf(meta[event])]
        /\ graph' = graph \/ graph' = [graph EXCEPT ![event] = PriceOf(meta[event])]
        /\ pc' # "select" => event' = event
        /\ pc' = "usd" => HasMeta(meta[event])
    BY DEF EmitPair, UpdatePricing, EmitUSD, connVars, metaVars, wethVars
  <1>4. quote' \in [Pools -> Prices] /\ graph' \in [Pools -> Prices]
    BY <1>1, <1>2, <1>3 DEF TypeOK
  <1>5. TypeOK'
    BY <1>1, <1>3, <1>4 DEF TypeOK
  <1>6. RunInv'
    BY <1>1, <1>3 DEF RunInv, Handling
  <1>7. QED
    BY <1>5, <1>6 DEF TypeInv

LEMMA TypeStep == TypeInv /\ [Next]_vars => TypeInv'
  <1> SUFFICES ASSUME TypeInv, [Next]_vars PROVE TypeInv'
    OBVIOUS
  <1>1. CASE RunStep
    BY <1>1, LoadType, LoopType, StreamType, TakeFrameType, PublishType DEF RunStep
  <1>2. CASE Restart \/ Cancel \/ UNCHANGED vars
    BY <1>2, LoopType
  <1>3. CASE \/ Break
             \/ \E s \in Sessions : ReadFrame(s) \/ ReadError(s) \/ Push(s) \/ PingerEnds(s)
    BY <1>3, GoroutineType
  <1>4. QED
    BY <1>1, <1>2, <1>3 DEF Next

(* The variables keep their types in every state of the run.               *)
THEOREM TypeCorrect == Spec => []TypeOK
  <1>1. TypeInv => TypeOK
    BY DEF TypeInv
  <1>2. QED
    BY <1>1, TypeInit, TypeStep, PTL DEF Spec

-----------------------------------------------------------------------------
(* The steps that neither load, handle a frame nor publish leave the data  *)
(* as they are, and do not enter or leave the handler.                     *)
Elsewhere ==
    /\ UNCHANGED <<metaVars, wethVars, anchors, priceVars>>
    /\ pc' = pc \/ (~Handling /\ ~Handling')

LEMMA StepKinds ==
    ASSUME [Next]_vars
    PROVE  Load \/ TakeFrame \/ EmitPair \/ UpdatePricing \/ EmitUSD \/ Elsewhere
  <1> USE DEF Elsewhere, Handling
  <1>1. CASE Dial \/ Subscribe \/ Sleep \/ StreamCancelled \/ ReaderEnded
    BY <1>1 DEF Dial, Subscribe, Sleep, StreamCancelled, ReaderEnded, KeepData
  <1>2. CASE \E s \in Sessions : ReadFrame(s) \/ ReadError(s) \/ Push(s) \/ PingerEnds(s)
    BY <1>2 DEF ReadFrame, ReadError, Push, PingerEnds, OnlySession, KeepData
  <1>3. CASE Restart \/ Break \/ Cancel \/ UNCHANGED vars
    BY <1>3 DEF Restart, Break, Cancel, OnlySession, KeepData, vars
  <1>4. QED
    BY <1>1, <1>2, <1>3 DEF Next, RunStep

(* A run that could be loaded starts with the pools of its file; one that  *)
(* could not starts again later.                                           *)
LEMMA LoadOutcome ==
    ASSUME Load
    PROVE  /\ ~Handling /\ ~Handling' /\ UNCHANGED <<anchors, quote, graph>>
           /\ \/ meta' = meta
              \/ \A p \in DOMAIN meta' : ~meta'[p].verified /\ ~meta'[p].registered
  <1>1. ~Handling /\ ~Handling' /\ UNCHANGED <<anchors, quote, graph>>
    BY DEF Load, Handling, priceVars
  <1>2. CASE UNCHANGED metaVars
    BY <1>1, <1>2 DEF metaVars
  <1>3. CASE \E f \in Files : meta' = LoadPools(f)
    BY <1>1, <1>3, LoadedMeta
  <1>4. QED
    BY <1>2, <1>3 DEF Load

(* A frame is the swap of a pool of the run, or leaves the data alone.     *)
LEMMA FrameOutcome ==
    ASSUME TakeFrame
    PROVE  /\ pc = "select" /\ UNCHANGED <<quote, graph>>
           /\ \/ \E p \in DOMAIN meta : HandleSwap(p)
              \/ UNCHANGED <<meta, weth, offered, anchors>> /\ ~Handling'
  BY DEF TakeFrame, Handling, metaVars, wethVars

(* What a swap leaves of the metadata.                                     *)
LEMMA SwapMeta ==
    ASSUME TypeInv, NEW p \in DOMAIN meta, HandleSwap(p)
    PROVE  /\ DOMAIN meta' = DOMAIN meta /\ \A q \in DOMAIN meta : q # p => meta'[q] = meta[q]
           /\ event' = p /\ pc' = "quote" /\ anchors \subseteq anchors'
           /\ HasMeta(meta'[p]) => meta'[p].registered
           /\ meta'[p].verified =>
                meta'[p].tokens = Chain[p] \/ (meta[p].verified /\ meta'[p].tokens = meta[p].tokens)
           /\ meta'[p].registered =>
                \/ KnownStables(meta'[p]) \subseteq anchors'
                \/ meta[p].registered /\ KnownStables(meta'[p]) = KnownStables(meta[p])
  <1>1. PICK c \in Checked(p) : Swap(p, c, {}) \/ Swap(p, c, WethStable(c.m))
    BY SwapOutcome
  <1>2. c.m \in PoolMetas /\ (Untouched(p, c) \/ FromChain(p, c))
    BY CheckedPool DEF TypeInv
  <1>3. /\ meta' = [meta EXCEPT ![p] = Registered(c.m)]
        /\ anchors' = anchors \cup c.anchors
                      \cup IF HasMeta(c.m) /\ ~c.m.registered THEN KnownStables(c.m) ELSE {}
        /\ event' = p /\ pc' = "quote"
    BY <1>1 DEF Swap
  <1>4. /\ meta'[p] = Registered(c.m) /\ DOMAIN meta' = DOMAIN meta
        /\ \A q \in DOMAIN meta : q # p => meta'[q] = meta[q]
    BY <1>3
  <1>5. /\ meta'[p].tokens = c.m.tokens /\ meta'[p].verified = c.m.verified
        /\ HasMeta(meta'[p]) = HasMeta(c.m)
        /\ meta'[p].registered <=> c.m.registered \/ HasMeta(c.m)
        /\ KnownStables(meta'[p]) = KnownStables(c.m)
    BY <1>2, <1>4, RegisteredMeta
  <1>6. meta'[p].verified =>
          meta'[p].tokens = Chain[p] \/ (meta[p].verified /\ meta'[p].tokens = meta[p].tokens)
    BY <1>2, <1>5 DEF Untouched, FromChain
  <1>7. ASSUME meta'[p].registered
        PROVE  \/ KnownStables(meta'[p]) \subseteq anchors'
               \/ meta[p].registered /\ KnownStables(meta'[p]) = KnownStables(meta[p])
    <2>1. CASE HasMeta(c.m) /\ ~c.m.registered
      BY <1>3, <1>5, <2>1
    <2>2. CASE c.m.registered /\ Untouched(p, c)
      BY <1>5, <2>2 DEF Untouched
    <2>3. CASE c.m.registered /\ FromChain(p, c)
      BY <1>3, <1>5, <2>3 DEF FromChain
    <2>4. QED
      BY <1>2, <1>5, <1>7, <2>1, <2>2, <2>3
  <1>8. QED
    BY <1>3, <1>4, <1>5, <1>6, <1>7

-----------------------------------------------------------------------------
LEMMA RightInit == Init => RightInv
  <1>1. Init => DOMAIN meta = {}
    BY DEF Init, LoadPools
  <1>2. QED
    BY <1>1 DEF RightInv

LEMMA RightStep == TypeInv /\ RightInv /\ [Next]_vars => RightInv'
  <1> SUFFICES ASSUME TypeInv, RightInv, [Next]_vars PROVE RightInv'
    OBVIOUS
  <1>1. CASE Load
    BY <1>1, LoadOutcome DEF RightInv, Handling
  <1>2. CASE TakeFrame
    <2>1. /\ pc = "select" /\ UNCHANGED <<quote, graph>>
          /\ \/ \E p \in DOMAIN meta : HandleSwap(p)
             \/ UNCHANGED <<meta, weth, offered, anchors>> /\ ~Handling'
      BY <1>2, FrameOutcome
    <2>2. CASE UNCHANGED meta
      BY <2>1, <2>2 DEF RightInv
    <2>3. ASSUME NEW p \in DOMAIN meta, HandleSwap(p), NEW q \in DOMAIN meta, meta'[q].verified
          PROVE  /\ meta'[q].tokens = Chain[q]
                 /\ quote'[q].tokens = Chain[q] \/ (pc' = "quote" /\ event' = q)
                 /\ graph'[q].tokens = Chain[q] \/ (pc' \in {"quote", "update"} /\ event' = q)
      BY <2>1, <2>3, SwapMeta DEF RightInv
    <2>4. ASSUME NEW p \in DOMAIN meta, HandleSwap(p) PROVE DOMAIN meta' = DOMAIN meta
      BY <2>4, SwapMeta
    <2>5. QED
      BY <2>1, <2>2, <2>3, <2>4 DEF RightInv
  <1>3. CASE EmitPair \/ UpdatePricing
    <2>1. /\ event \in DOMAIN meta /\ event \in Pools /\ meta[event] \in PoolMetas
          /\ DOMAIN quote = Pools /\ DOMAIN graph = Pools /\ DOMAIN meta \subseteq Pools
      BY <1>3 DEF TypeInv, TypeOK, RunInv, Handling, EmitPair, UpdatePricing
    <2>2. PriceOf(meta[event]).tokens = meta[event].tokens
      BY <2>1, PriceType
    <2>3. meta' = meta
      BY <1>3 DEF EmitPair, UpdatePricing, KeepRun, metaVars
    <2>4. SUFFICES ASSUME NEW p \in DOMAIN meta, meta[p].verified
                   PROVE  /\ quote'[p].tokens = Chain[p] \/ (pc' = "quote" /\ event' = p)
                          /\ graph'[p].tokens = Chain[p]
                                \/ (pc' \in {"quote", "update"} /\ event' = p)
      BY <2>3 DEF RightInv
    <2>5. /\ meta[p].tokens = Chain[p] /\ p \in Pools
          /\ quote[p].tokens = Chain[p] \/ (pc = "quote" /\ event = p)
          /\ graph[p].tokens = Chain[p] \/ (pc \in {"quote", "update"} /\ event = p)
      BY <2>1, <2>4 DEF RightInv
    <2>6. CASE EmitPair
      BY <2>1, <2>2, <2>5, <2>6 DEF EmitPair
    <2>7. CASE UpdatePricing
      <3>1. pc = "update" /\ quote' = quote
        BY <2>7 DEF UpdatePricing
      <3>2. CASE p = event
        <4>1. HasMeta(meta[event])
          BY <2>4, <3>2 DEF HasMeta
        <4>2. QED
          BY <2>1, <2>2, <2>5, <2>7, <3>1, <3>2, <4>1 DEF UpdatePricing
      <3>3. CASE p # event
        <4>1. graph'[p] = graph[p]
          BY <2>1, <2>5, <2>7, <3>3 DEF UpdatePricing
        <4>2. QED
          BY <2>5, <3>1, <3>3, <4>1
      <3>4. QED
        BY <3>2, <3>3
    <2>8. QED
      BY <1>3, <2>6, <2>7
  <1>4. CASE EmitUSD
    BY <1>4 DEF EmitUSD, KeepRun, metaVars, RightInv
  <1>5. CASE Elsewhere
    BY <1>5 DEF Elsewhere, Handling, metaVars, priceVars, RightInv
  <1>6. QED
    BY <1>1, <1>2, <1>3, <1>4, <1>5, StepKinds

(* Once the contract of a pool has answered, what is published of it and   *)
(* what the pricer has of it name the tokens of the contract in its order. *)
THEOREM ContractOrder == Spec => []VerifiedRight
  <1>1. RightInv => VerifiedRight
    BY DEF RightInv, VerifiedRight
  <1>2. QED
    BY <1>1, TypeInit, TypeStep, RightInit, RightStep, PTL DEF Spec

-----------------------------------------------------------------------------
LEMMA AnchorInit == Init => AnchorInv
  <1> SUFFICES ASSUME Init PROVE AnchorInv
    OBVIOUS
  <1>1. DOMAIN meta = {} /\ ~Handling
    BY DEF Init, LoadPools, Handling
  <1>2. ASSUME NEW p \in Pools, NEW i \in 1..2 PROVE graph[p].tokens[i] \notin Stables
    <2>1. graph[p].tokens[i] = NoToken
      BY DEF Init, NoPrice
    <2>2. QED
      BY <2>1, V3Assumption
  <1>3. QED
    BY <1>1, <1>2 DEF AnchorInv, StablesAnchored

LEMMA AnchorStep == TypeInv /\ AnchorInv /\ [Next]_vars => AnchorInv'
  <1> SUFFICES ASSUME TypeInv, AnchorInv, [Next]_vars PROVE AnchorInv'
    OBVIOUS
  <1>1. CASE Load
    BY <1>1, LoadOutcome DEF AnchorInv, StablesAnchored
  <1>2. CASE TakeFrame
    <2>1. /\ UNCHANGED <<quote, graph>>
          /\ \/ \E p \in DOMAIN meta : HandleSwap(p)
             \/ UNCHANGED <<meta, weth, offered, anchors>> /\ ~Handling'
      BY <1>2, FrameOutcome
    <2>2. CASE UNCHANGED <<meta, weth, offered, anchors>> /\ ~Handling'
      BY <2>1, <2>2 DEF AnchorInv, StablesAnchored
    <2>3. CASE \E p \in DOMAIN meta : HandleSwap(p)
      <3>1. PICK p \in DOMAIN meta : HandleSwap(p)
        BY <2>3
      <3>2. /\ DOMAIN meta' = DOMAIN meta /\ \A q \in DOMAIN meta : q # p => meta'[q] = meta[q]
            /\ event' = p /\ anchors \subseteq anchors'
            /\ HasMeta(meta'[p]) => meta'[p].registered
            /\ meta'[p].registered =>
                 \/ KnownStables(meta'[p]) \subseteq anchors'
                 \/ meta[p].registered /\ KnownStables(meta'[p]) = KnownStables(meta[p])
        BY <3>1, SwapMeta
      <3>3. ASSUME NEW q \in DOMAIN meta, meta'[q].registered
            PROVE  KnownStables(meta'[q]) \subseteq anchors'
        BY <3>2, <3>3 DEF AnchorInv
      <3>4. StablesAnchored'
        BY <2>1, <3>2 DEF AnchorInv, StablesAnchored
      <3>5. (HasMeta(meta[event]) => meta[event].registered)'
        BY <3>2
      <3>6. QED
        BY <3>2, <3>3, <3>4, <3>5 DEF AnchorInv
    <2>4. QED
      BY <2>1, <2>2, <2>3
  <1>3. CASE EmitPair
    BY <1>3 DEF EmitPair, KeepRun, metaVars, Handling, AnchorInv, StablesAnchored
  <1>4. CASE UpdatePricing /\ HasMeta(meta[event])
    <2>1. /\ pc = "update" /\ event \in Pools /\ meta[event] \in PoolMetas
          /\ event \in DOMAIN meta
          /\ graph' = [graph EXCEPT ![event] = PriceOf(meta[event])]
          /\ UNCHANGED <<meta, anchors, event>>
      BY <1>4 DEF UpdatePricing, KeepRun, metaVars, TypeInv, TypeOK, RunInv, Handling
    <2>2. KnownStables(meta[event]) \subseteq anchors /\ meta[event].registered
      BY <1>4, <2>1 DEF AnchorInv, Handling
    <2>3. /\ PriceOf(meta[event]).tokens = meta[event].tokens
          /\ \A i \in 1..2 : PriceOf(meta[event]).syms[i] = meta[event].metas[i].sym
      <3>1. /\ PriceOf(meta[event]).tokens = meta[event].tokens
            /\ PriceOf(meta[event]).syms
                 = <<meta[event].metas[1].sym, meta[event].metas[2].sym>>
        BY <2>1, PriceType
      <3>2. ASSUME NEW i \in 1..2 PROVE PriceOf(meta[event]).syms[i] = meta[event].metas[i].sym
        <4>1. i = 1 \/ i = 2
          OBVIOUS
        <4>2. QED
          BY <3>1, <4>1
      <3>3. QED
        BY <3>1, <3>2
    <2>4. ASSUME NEW p \in Pools, NEW i \in 1..2,
                 graph'[p].tokens[i] \in Stables, graph'[p].syms[i]
          PROVE  graph'[p].tokens[i] \in anchors
      <3>1. CASE p = event
        <4>1. graph'[p] = PriceOf(meta[event])
          BY <2>1, <3>1 DEF TypeInv, TypeOK
        <4>2. meta[event].tokens[i] \in Stables /\ meta[event].metas[i].sym
          BY <2>3, <2>4, <4>1
        <4>3. meta[event].tokens[i] \in KnownStables(meta[event])
          BY <4>2, KnownStablesAre
        <4>4. QED
          BY <2>2, <2>3, <4>1, <4>3
      <3>2. CASE p # event
        <4>1. graph'[p] = graph[p]
          BY <2>1, <3>2 DEF TypeInv, TypeOK
        <4>2. QED
          BY <2>4, <4>1 DEF AnchorInv, StablesAnchored
      <3>3. QED
        BY <3>1, <3>2
    <2>5. StablesAnchored'
      BY <2>1, <2>4 DEF StablesAnchored
    <2>6. QED
      BY <2>1, <2>2, <2>5 DEF AnchorInv
  <1>5. CASE UpdatePricing /\ ~HasMeta(meta[event])
    BY <1>5 DEF UpdatePricing, KeepRun, metaVars, Handling, AnchorInv, StablesAnchored
  <1>6. CASE EmitUSD
    BY <1>6 DEF EmitUSD, KeepRun, metaVars, Handling, AnchorInv, StablesAnchored
  <1>7. CASE Elsewhere
    BY <1>7 DEF Elsewhere, Handling, metaVars, priceVars, AnchorInv, StablesAnchored
  <1>8. QED
    BY <1>1, <1>2, <1>3, <1>4, <1>5, <1>6, <1>7, StepKinds

(* A stable that the pricer is given as a token of a pair is an anchor of  *)
(* the pricer by then.                                                     *)
THEOREM AnchorsFirst == Spec => []StablesAnchored
  <1>1. AnchorInv => StablesAnchored
    BY DEF AnchorInv
  <1>2. QED
    BY <1>1, TypeInit, TypeStep, AnchorInit, AnchorStep, PTL DEF Spec

-----------------------------------------------------------------------------
LEMMA WethStep == TypeInv /\ WethBest /\ [Next]_vars => WethBest'
  <1> SUFFICES ASSUME TypeInv, WethBest, [Next]_vars PROVE WethBest'
    OBVIOUS
  <1>1. CASE UNCHANGED <<weth, offered>> \/ (weth' = NoToken /\ offered' = {})
    BY <1>1 DEF WethBest
  <1>2. ASSUME NEW s \in Stables, offered' = offered \cup {s}, weth' = MaybeSetWETHUSD(s)
        PROVE  WethBest'
    <2>1. /\ offered \subseteq Stables /\ NoToken \notin Stables
          /\ \A t \in Stables : Rank[t] \in Nat
      BY V3Assumption DEF TypeInv, TypeOK
    <2>2. CASE weth = NoToken
      <3>1. offered = {} /\ weth' = s /\ offered' = {s}
        BY <1>2, <2>1, <2>2 DEF WethBest, MaybeSetWETHUSD
      <3>2. Rank[s] <= Rank[s]
        BY <2>1
      <3>3. QED
        BY <3>1, <3>2 DEF WethBest
    <2>3. CASE weth # NoToken
      <3>1. weth \in offered /\ \A t \in offered : Rank[t] <= Rank[weth]
        BY <2>3 DEF WethBest
      <3>2. CASE Rank[s] > Rank[weth]
        <4>1. weth' = s
          BY <1>2, <3>2 DEF MaybeSetWETHUSD
        <4>2. \A t \in offered' : Rank[t] <= Rank[s]
          BY <1>2, <2>1, <3>1, <3>2
        <4>3. s \in offered'
          BY <1>2
        <4>4. QED
          BY <4>1, <4>2, <4>3 DEF WethBest
      <3>3. CASE ~(Rank[s] > Rank[weth])
        <4>1. weth' = weth
          BY <1>2, <2>3, <3>3 DEF MaybeSetWETHUSD
        <4>2. \A t \in offered' : Rank[t] <= Rank[weth]
          BY <1>2, <2>1, <3>1, <3>3
        <4>3. weth \in offered'
          BY <1>2, <3>1
        <4>4. QED
          BY <4>1, <4>2, <4>3 DEF WethBest
      <3>4. QED
        BY <3>2, <3>3
    <2>4. QED
      BY <2>2, <2>3
  <1>3. CASE Load
    BY <1>1, <1>3 DEF Load, wethVars
  <1>4. CASE TakeFrame
    <2>1. CASE UNCHANGED <<meta, weth, offered, anchors>>
      BY <1>1, <2>1
    <2>2. ASSUME NEW p \in DOMAIN meta, HandleSwap(p) PROVE WethBest'
      <3>1. PICK c \in Checked(p) : Swap(p, c, {}) \/ Swap(p, c, WethStable(c.m))
        BY <2>2, SwapOutcome
      <3>2. \/ offered' = offered /\ weth' = weth
            \/ \E s \in Stables : offered' = offered \cup {s} /\ weth' = MaybeSetWETHUSD(s)
        BY <3>1, SwapWeth
      <3>3. QED
        BY <1>1, <1>2, <3>2
    <2>3. QED
      BY <1>4, <2>1, <2>2, FrameOutcome
  <1>5. CASE EmitPair \/ UpdatePricing \/ EmitUSD
    BY <1>1, <1>5 DEF EmitPair, UpdatePricing, EmitUSD, KeepRun, wethVars
  <1>6. CASE Elsewhere
    BY <1>1, <1>6 DEF Elsewhere, wethVars
  <1>7. QED
    BY <1>3, <1>4, <1>5, <1>6, StepKinds

(* Of the sane prices the pools offered in a run, WETH has that of a       *)
(* stable no other one surpasses.                                          *)
THEOREM BestWethPrice == Spec => []WethBest
  <1>1. Init => WethBest
    BY DEF Init, WethBest
  <1>2. QED
    BY <1>1, TypeInit, TypeStep, WethStep, PTL DEF Spec
=============================================================================
