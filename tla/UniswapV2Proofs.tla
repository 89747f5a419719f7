-------------------------- MODULE UniswapV2Proofs --------------------------
(***************************************************************************)
(* Theorems about UniswapV2, for every chain, token registry, file of      *)
(* pools, set of reserves, threshold, buffer and number of connections.    *)
(***************************************************************************)
EXTENDS UniswapV2, SequenceTheorems, WellFoundedInduction, TLAPS

Handling  == pc \in {"spot", "update", "usd0", "usd1"}
Streaming == pc = "select" \/ Handling

(* The metadata of a pool: two tokens with a kind each, of which one is    *)
(* the base, and the name its base gave it.                                *)
IsMeta(m) ==
    /\ m = [tokens |-> <<m.tokens[1], m.tokens[2]>>, base0 |-> m.base0, named |-> m.named]
    /\ m.base0 \in BOOLEAN
    /\ m.named = Base(m).addr
    /\ Base(m).kind \in {"weth", "other"}
    /\ Quote(m).kind \in {"weth", "stable"}

(* The metadata keep their shape and their name; a pool the chain          *)
(* confirmed has its tokens in the order of the chain.                     *)
MetaInv ==
    /\ \A p \in DOMAIN meta : IsMeta(meta[p])
    /\ pc = "adjust" => verified = {}
    /\ verified \subseteq DOMAIN meta
    /\ \A p \in verified : Addrs(meta[p]) = Chain[p]

(* Where Run is, and its connections: every one before the current one is  *)
(* over, the current one too while Run is between two, and none is begun   *)
(* before its time.                                                        *)
Over(s)  == ses[s].link = "closed" /\ ses[s].reader \in {"off", "ended"}
Fresh(s) == ses[s].link = "none" /\ ses[s].reader = "off"

RunInv ==
    /\ pc = "adjust" => session = 0
    /\ pc = "subscribe" \/ Streaming => session > 0
    /\ pc = "subscribe" => ses[session].reader = "off"
    /\ pc \in {"dial", "sleep"} /\ session > 0 => Over(session)
    /\ \A s \in Sessions : (s < session => Over(s)) /\ (s > session => Fresh(s))

Positive(r) == r[1] > 0 /\ r[2] > 0

(* The handler works on an event of one of its pools, with reserves.       *)
EventInv ==
    Handling => event.pool \in DOMAIN meta /\ Positive(event.reserves)

(* The reference price of a pool is the price last quoted, except between  *)
(* the decision to quote an event and its quote; the last event is at the  *)
(* reference price, or near it.                                            *)
PriceInv(p) ==
    LET price == Snapshot(meta[p], latest[p]) IN
    /\ pc = "adjust" => /\ lastPrice[p] = NoPrice /\ latest[p] = NoPrice
                        /\ spot[p] = <<NoPrice, NoPrice>>
    /\ spot[p][1] = Snapshot(meta[p], spot[p][2])
    /\ IF latest[p] = NoPrice THEN lastPrice[p] = NoPrice
       ELSE /\ Positive(latest[p]) /\ Positive(lastPrice[p])
            /\ price = lastPrice[p] \/ Near(price, lastPrice[p])
    /\ IF pc = "spot" /\ event.pool = p
       THEN lastPrice[p] = Snapshot(meta[p], event.reserves)
       ELSE spot[p][1] = lastPrice[p]

PricesInv == \A p \in DOMAIN meta : PriceInv(p)

(* Once the pricer is updated it holds the event, or what came after it.   *)
GraphInv ==
    /\ pc \in {"usd0", "usd1"} => graph[event.pool] \in {"own", "other"}
    /\ UsdHasEvent

-----------------------------------------------------------------------------
(* A set of numbers has a least one.                                       *)
LEMMA LeastNumber ==
    ASSUME NEW S \in SUBSET Nat, S # {}
    PROVE  \E i \in S : \A j \in S : i <= j
  <1>1. PICK i \in S : \A j \in S : ~(<<j, i>> \in OpToRel(<, Nat))
    BY NatLessThanWellFounded, WFMin
  <1>2. ASSUME NEW j \in S PROVE i <= j
    <2>1. i \in Nat /\ j \in Nat /\ <<j, i>> \in Nat \X Nat
      OBVIOUS
    <2>2. ~(j < i)
      BY <1>1, <2>1 DEF OpToRel
    <2>3. QED
      BY <2>1, <2>2
  <1>3. QED
    BY <1>2

(* The registry takes every token for one of three things.                 *)
LEMMA KindRange ==
    ASSUME NEW r, NEW a, NEW s
    PROVE  Kind(r, a, s) \in {"stable", "weth", "other"}
  BY Zenon DEF Kind

(* An entry that is eligible gives its pool a base that is not a stable    *)
(* and a quote that is money.                                              *)
LEMMA ConfiguredIsMeta ==
    ASSUME NEW e, Eligible(e)
    PROVE  IsMeta(Configured(e))
  <1> DEFINE k0 == Tokens(e)[1].kind
             k1 == Tokens(e)[2].kind
             b == BaseIsToken0(k0, k1)
  <1>1. /\ DOMAIN Tokens(e) = 1..2
        /\ Tokens(e) = <<Tokens(e)[1], Tokens(e)[2]>>
    BY DEF Tokens
  <1>2. k0 \in {"stable", "weth", "other"} /\ k1 \in {"stable", "weth", "other"}
    BY KindRange DEF Tokens
  <1>3. ~(k0 = "stable" /\ k1 = "stable") /\ ~(k0 = "other" /\ k1 = "other")
    BY DEF Eligible
  <1>4. /\ b \in BOOLEAN
        /\ b => k0 \in {"weth", "other"} /\ k1 \in {"weth", "stable"}
        /\ ~b => k1 \in {"weth", "other"} /\ k0 \in {"weth", "stable"}
    BY <1>2, <1>3 DEF BaseIsToken0
  <1>5. Configured(e) = [tokens |-> Tokens(e), base0 |-> b,
                         named |-> Tokens(e)[IF b THEN 1 ELSE 2].addr]
    BY DEF Configured, Finalized
  <1> HIDE DEF b
  <1>6. CASE b = TRUE
    <2>1. Configured(e) = [tokens |-> <<Tokens(e)[1], Tokens(e)[2]>>, base0 |-> TRUE,
                           named |-> Tokens(e)[1].addr]
      BY <1>1, <1>5, <1>6
    <2>2. k0 \in {"weth", "other"} /\ k1 \in {"weth", "stable"}
      BY <1>4, <1>6
    <2>3. QED
      BY <2>1, <2>2 DEF IsMeta, Base, Quote
  <1>7. CASE b = FALSE
    <2>1. Configured(e) = [tokens |-> <<Tokens(e)[1], Tokens(e)[2]>>, base0 |-> FALSE,
                           named |-> Tokens(e)[2].addr]
      BY <1>1, <1>5, <1>7
    <2>2. k1 \in {"weth", "other"} /\ k0 \in {"weth", "stable"}
      BY <1>4, <1>7
    <2>3. QED
      BY <2>1, <2>2 DEF IsMeta, Base, Quote
  <1>8. QED
    BY <1>4, <1>6, <1>7

LEMMA HardPoolIsMeta ==
    ASSUME NEW h \in HardPools
    PROVE  IsMeta(HardPool(h))
  <1>1. h.stable0 \in BOOLEAN
    BY V2Assumption DEF HardPools
  <1> DEFINE t == CHOOSE t \in reg.stable : t.sym = h.sym
             w == CHOOSE w \in reg.native : IsWETH(w)
             stable == [addr |-> t.addr, kind |-> "stable"]
             weth == [addr |-> w.addr, kind |-> "weth"]
  <1>2. HardPool(h) = Finalized(IF h.stable0 THEN <<stable, weth>> ELSE <<weth, stable>>,
                                ~h.stable0)
    BY DEF HardPool
  <1> HIDE DEF t, w
  <1>3. CASE h.stable0 = TRUE
    <2>1. HardPool(h) = [tokens |-> <<stable, weth>>, base0 |-> FALSE, named |-> weth.addr]
      BY <1>2, <1>3 DEF Finalized
    <2>2. QED
      BY <2>1 DEF IsMeta, Base, Quote
  <1>4. CASE h.stable0 = FALSE
    <2>1. HardPool(h) = [tokens |-> <<weth, stable>>, base0 |-> TRUE, named |-> weth.addr]
      BY <1>2, <1>4 DEF Finalized
    <2>2. QED
      BY <2>1 DEF IsMeta, Base, Quote
  <1>5. QED
    BY <1>1, <1>3, <1>4

LEMMA LoadedMeta ==
    ASSUME NEW f \in Files
    PROVE  /\ DOMAIN LoadPools(f) \subseteq Pools
           /\ \A p \in DOMAIN LoadPools(f) : IsMeta(LoadPools(f)[p])
  <1> DEFINE entries(p) == { i \in DOMAIN f : Eligible(f[i]) /\ f[i].pool = p }
             first(p) == CHOOSE i \in entries(p) : \A j \in entries(p) : i <= j
             listed == { p \in Pools : entries(p) # {} }
             hard == {h.pool : h \in HardPools}
             one(p) == IF p \in listed THEN Configured(f[first(p)])
                       ELSE HardPool(CHOOSE h \in HardPools : h.pool = p)
  <1>1. LoadPools(f) = [p \in listed \cup hard |-> one(p)]
    BY DEF LoadPools
  <1>2. hard \subseteq Pools
    BY V2Assumption DEF HardPools
  <1>3. ASSUME NEW p \in listed PROVE IsMeta(one(p))
    <2>1. entries(p) \in SUBSET Nat /\ entries(p) # {}
      BY <1>3, V2Assumption
    <2>2. first(p) \in entries(p)
      <3> HIDE DEF entries
      <3>1. \E i \in entries(p) : \A j \in entries(p) : i <= j
        BY <2>1, LeastNumber
      <3>2. QED
        BY <3>1
    <2>3. Eligible(f[first(p)])
      BY <2>2
    <2>4. one(p) = Configured(f[first(p)])
      BY <1>3
    <2>5. QED
      BY <2>3, <2>4, ConfiguredIsMeta
  <1>4. ASSUME NEW p \in hard, p \notin listed PROVE IsMeta(one(p))
    <2> HIDE DEF listed
    <2>1. (CHOOSE h \in HardPools : h.pool = p) \in HardPools
      BY <1>4
    <2>2. one(p) = HardPool(CHOOSE h \in HardPools : h.pool = p)
      BY <1>4
    <2>3. QED
      BY <2>1, <2>2, HardPoolIsMeta
  <1> HIDE DEF listed, hard, one
  <1>5. QED
    BY <1>1, <1>2, <1>3, <1>4 DEF listed

(* swapPoolTokens turns the tokens and the place of the base around, not   *)
(* the base itself.                                                        *)
LEMMA SwappedMeta ==
    ASSUME NEW m, IsMeta(m)
    PROVE  /\ IsMeta(Swapped(m))
           /\ Addrs(Swapped(m)) = <<Addrs(m)[2], Addrs(m)[1]>>
  <1>1. ASSUME NEW a, NEW b, NEW n, m = [tokens |-> <<a, b>>, base0 |-> TRUE, named |-> n],
               IsMeta(m)
        PROVE  /\ IsMeta(Swapped(m))
               /\ Addrs(Swapped(m)) = <<Addrs(m)[2], Addrs(m)[1]>>
    <2>1. Swapped(m) = [tokens |-> <<b, a>>, base0 |-> FALSE, named |-> n]
      <3>1. m.tokens[1] = a /\ m.tokens[2] = b /\ (~m.base0) = FALSE
        BY <1>1
      <3>2. Swapped(m) = [m EXCEPT !.tokens = <<m.tokens[2], m.tokens[1]>>, !.base0 = ~m.base0]
        BY DEF Swapped
      <3>3. Swapped(m) = [m EXCEPT !.tokens = <<b, a>>, !.base0 = FALSE]
        BY <3>1, <3>2
      <3>4. QED
        BY <1>1, <3>3
    <2>2. n = a.addr /\ a.kind \in {"weth", "other"} /\ b.kind \in {"weth", "stable"}
      BY <1>1 DEF IsMeta, Base, Quote
    <2>3. IsMeta(Swapped(m))
      BY <2>1, <2>2 DEF IsMeta, Base, Quote
    <2>4. QED
      BY <1>1, <2>1, <2>3 DEF Addrs
  <1>2. ASSUME NEW a, NEW b, NEW n, m = [tokens |-> <<a, b>>, base0 |-> FALSE, named |-> n],
               IsMeta(m)
        PROVE  /\ IsMeta(Swapped(m))
               /\ Addrs(Swapped(m)) = <<Addrs(m)[2], Addrs(m)[1]>>
    <2>1. Swapped(m) = [tokens |-> <<b, a>>, base0 |-> TRUE, named |-> n]
      <3>1. m.tokens[1] = a /\ m.tokens[2] = b /\ (~m.base0) = TRUE
        BY <1>2
      <3>2. Swapped(m) = [m EXCEPT !.tokens = <<m.tokens[2], m.tokens[1]>>, !.base0 = ~m.base0]
        BY DEF Swapped
      <3>3. Swapped(m) = [m EXCEPT !.tokens = <<b, a>>, !.base0 = TRUE]
        BY <3>1, <3>2
      <3>4. QED
        BY <1>2, <3>3
    <2>2. n = b.addr /\ b.kind \in {"weth", "other"} /\ a.kind \in {"weth", "stable"}
      BY <1>2 DEF IsMeta, Base, Quote
    <2>3. IsMeta(Swapped(m))
      BY <2>1, <2>2 DEF IsMeta, Base, Quote
    <2>4. QED
      BY <1>2, <2>1, <2>3 DEF Addrs
  <1>3. m.base0 = TRUE \/ m.base0 = FALSE
    BY DEF IsMeta
  <1>4. m = [tokens |-> <<m.tokens[1], m.tokens[2]>>, base0 |-> m.base0, named |-> m.named]
    BY DEF IsMeta
  <1>5. QED
    BY <1>1, <1>2, <1>3, <1>4

-----------------------------------------------------------------------------
LEMMA Constants ==
    /\ Tick \in Nat \ {0} /\ MaxBackoff \in Nat \ {0} /\ BufCap \in Nat \ {0}
    /\ MaxSessions \in Nat \ {0} /\ MaxEvents \in Nat
    /\ Reserves \subseteq Nat \X Nat
  BY V2Assumption

LEMMA FramesProperties ==
    /\ NoEvent \in Frames
    /\ \A f \in Frames : /\ f.reserves \in Nat \X Nat
                         /\ f.reserves[1] \in Nat /\ f.reserves[2] \in Nat
                         /\ f.pool \in Pools \/ f = NoEvent
  BY Constants DEF Frames, NoEvent

LEMMA NextBackoffRange ==
    ASSUME NEW b \in 1..MaxBackoff
    PROVE  NextBackoff(b) \in 1..MaxBackoff
  BY Constants DEF NextBackoff

LEMMA PriceProperties ==
    ASSUME NEW m, NEW r \in Nat \X Nat
    PROVE  /\ Snapshot(m, r) \in Nat \X Nat
           /\ Positive(r) => Positive(Snapshot(m, r))
  BY DEF Snapshot, Positive

(* The connections.                                                        *)
LEMMA Buffers ==
    ASSUME TypeOK, NEW s \in Sessions
    PROVE  /\ ses[s] \in Connection
           /\ ses[s].buf \in Seq(Frames) /\ Len(ses[s].buf) \in Nat
           /\ Len(ses[s].buf) <= BufCap
  <1>1. ses[s] \in Connection /\ ses[s].buf \in Seq(Frames) /\ Len(ses[s].buf) <= BufCap
    BY DEF TypeOK, Connection
  <1>2. QED
    BY <1>1, LenProperties

LEMMA ConnectionStep ==
    ASSUME TypeOK, NEW s \in Sessions, NEW c \in Connection, Len(c.buf) <= BufCap,
           ses' = [ses EXCEPT ![s] = c]
    PROVE  /\ ses' \in [Sessions -> Connection]
           /\ \A t \in Sessions : Len(ses'[t].buf) <= BufCap
           /\ ses'[s] = c /\ \A t \in Sessions : t # s => ses'[t] = ses[t]
  BY DEF TypeOK

(* Every change that an action makes to a connection.                      *)
LEMMA LinkOrReader ==
    ASSUME TypeOK, NEW s \in Sessions,
           NEW l \in {ses[s].link, "up", "broken"},
           NEW d \in {ses[s].reader, "reading", "ended"}
    PROVE  LET c == [ses[s] EXCEPT !.link = l, !.reader = d] IN
           /\ c \in Connection /\ Len(c.buf) <= BufCap
           /\ c.link = l /\ c.reader = d
  <1>1. ses[s] \in Connection /\ Len(ses[s].buf) <= BufCap
    BY Buffers
  <1>2. QED
    BY <1>1 DEF Connection

LEMMA TakenConnection ==
    ASSUME TypeOK, NEW s \in Sessions, ses[s].buf # <<>>
    PROVE  LET c == [ses[s] EXCEPT !.buf = Tail(@)] IN
           /\ c \in Connection /\ Len(c.buf) <= BufCap
           /\ c.link = ses[s].link /\ c.reader = ses[s].reader
           /\ Head(ses[s].buf) \in Frames
  <1> DEFINE b == ses[s].buf
             t == Tail(b)
  <1>1. ses[s] \in Connection /\ b \in Seq(Frames) /\ Len(b) \in Nat \ {0} /\ Len(b) <= BufCap
    BY Buffers, EmptySeq
  <1>2. t \in Seq(Frames) /\ Len(t) = Len(b) - 1 /\ Head(b) = b[1]
    BY <1>1, EmptySeq, HeadTailProperties
  <1>3. 1 \in 1..Len(b)
    BY <1>1
  <1> HIDE DEF b
  <1>4. Head(b) \in Frames
    BY <1>1, <1>2, <1>3, ElementOfSeq
  <1>5. Len(t) <= BufCap
    BY <1>1, <1>2, Constants
  <1> HIDE DEF t
  <1>6. [ses[s] EXCEPT !.buf = t] \in Connection
    BY <1>1, <1>2 DEF Connection
  <1>7. QED
    BY <1>1, <1>4, <1>5, <1>6 DEF t, b, Connection

LEMMA PushedConnection ==
    ASSUME TypeOK, NEW s \in Sessions, Len(ses[s].buf) < BufCap
    PROVE  LET c == [ses[s] EXCEPT !.buf = Append(@, ses[s].held), !.held = NoEvent,
                                   !.reader = "reading"] IN
           /\ c \in Connection /\ Len(c.buf) <= BufCap
           /\ c.link = ses[s].link
  <1> DEFINE b == ses[s].buf
             t == Append(b, ses[s].held)
  <1>1. /\ ses[s] \in Connection /\ b \in Seq(Frames) /\ Len(b) \in Nat
        /\ ses[s].held \in Frames
    BY Buffers DEF Connection
  <1>2. t \in Seq(Frames) /\ Len(t) = Len(b) + 1
    BY <1>1, AppendProperties
  <1>3. Len(t) <= BufCap
    BY <1>1, <1>2, Constants
  <1> HIDE DEF t
  <1>4. [ses[s] EXCEPT !.buf = t, !.held = NoEvent, !.reader = "reading"] \in Connection
    BY <1>1, <1>2, FramesProperties DEF Connection
  <1>5. QED
    BY <1>1, <1>3, <1>4 DEF t, Connection

LEMMA HeldConnection ==
    ASSUME TypeOK, NEW s \in Sessions, NEW f \in Frames
    PROVE  LET c == [ses[s] EXCEPT !.held = f, !.reader = "pushing", !.events = @ + 1] IN
           /\ c \in Connection /\ Len(c.buf) <= BufCap
           /\ c.link = ses[s].link
  <1> DEFINE n == ses[s].events + 1
  <1>1. ses[s] \in Connection /\ Len(ses[s].buf) <= BufCap /\ n \in Nat
    BY Buffers DEF Connection
  <1> HIDE DEF n
  <1>2. [ses[s] EXCEPT !.held = f, !.reader = "pushing", !.events = n] \in Connection
    BY <1>1 DEF Connection
  <1>3. QED
    BY <1>1, <1>2 DEF n, Connection

(* What Closed leaves of a connection, and the one whose reader ended.     *)
Shut(s) == [NoSession EXCEPT !.link = "closed", !.reader = ses[s].reader,
                             !.buf = [i \in DOMAIN ses[s].buf |-> NoEvent]]

Emptied(s) == [Shut(s) EXCEPT !.buf = <<>>]

LEMMA ShutConnection ==
    ASSUME TypeOK, NEW s \in Sessions
    PROVE  /\ Shut(s) \in Connection /\ Len(Shut(s).buf) <= BufCap
           /\ Shut(s).link = "closed" /\ Shut(s).reader = ses[s].reader
           /\ Closed(s) = [ses EXCEPT ![s] = Shut(s)]
  <1> DEFINE b == ses[s].buf
             c == [i \in DOMAIN b |-> NoEvent]
             d == ses[s].reader
  <1>1. /\ ses[s] \in Connection /\ b \in Seq(Frames) /\ Len(b) \in Nat
        /\ Len(b) <= BufCap /\ d \in {"off", "reading", "pushing", "ended"}
    BY Buffers DEF Connection
  <1>2. DOMAIN b = 1..Len(b)
    BY <1>1, LenProperties
  <1>3. [i \in 1..Len(b) |-> NoEvent] \in Seq(Frames)
    BY <1>1, FramesProperties
  <1>4. c \in Seq(Frames) /\ Len(c) = Len(b)
    BY <1>1, <1>2, <1>3, LenProperties
  <1>5. Closed(s) = [ses EXCEPT ![s] = Shut(s)]
    BY DEF Closed, Shut
  <1>6. Shut(s) = [NoSession EXCEPT !.link = "closed", !.reader = d, !.buf = c]
    BY DEF Shut
  <1> HIDE DEF c, b, d
  <1>7. Shut(s) = [link |-> "closed", reader |-> d, held |-> NoEvent, buf |-> c, events |-> 0]
    BY <1>6 DEF NoSession
  <1>8. Shut(s) \in Connection /\ Len(Shut(s).buf) <= BufCap
    BY <1>1, <1>4, <1>7, FramesProperties DEF Connection
  <1>9. QED
    BY <1>5, <1>7, <1>8 DEF d

LEMMA EmptiedConnection ==
    ASSUME TypeOK, NEW s \in Sessions
    PROVE  /\ Emptied(s) \in Connection /\ Len(Emptied(s).buf) <= BufCap
           /\ Emptied(s).link = "closed" /\ Emptied(s).reader = ses[s].reader
           /\ [Closed(s) EXCEPT ![s].buf = <<>>] = [ses EXCEPT ![s] = Emptied(s)]
  <1> DEFINE d == ses[s].reader
             e == <<>>
  <1>1. /\ Shut(s) \in Connection /\ Shut(s).link = "closed" /\ Shut(s).reader = d
        /\ Closed(s) = [ses EXCEPT ![s] = Shut(s)]
    BY ShutConnection
  <1>2. Emptied(s) = [Shut(s) EXCEPT !.buf = e]
    BY DEF Emptied
  <1>3. e \in Seq(Frames) /\ Len(e) = 0
    BY EmptySeq
  <1>4. [Closed(s) EXCEPT ![s].buf = <<>>] = [ses EXCEPT ![s] = Emptied(s)]
    <2>1. ses \in [Sessions -> Connection]
      BY DEF TypeOK
    <2>2. Closed(s)[s] = Shut(s)
      BY <1>1, <2>1
    <2>3. QED
      BY <1>1, <2>1, <2>2 DEF Emptied
  <1> HIDE DEF e, d
  <1>5. /\ Emptied(s) \in Connection /\ Emptied(s).buf = e
        /\ Emptied(s).link = "closed" /\ Emptied(s).reader = d
    BY <1>1, <1>2, <1>3 DEF Connection
  <1>6. Len(Emptied(s).buf) <= BufCap
    <2>1. 0 <= BufCap
      BY Constants
    <2>2. QED
      BY <1>3, <1>5, <2>1
  <1>7. QED
    BY <1>4, <1>5, <1>6 DEF d

-----------------------------------------------------------------------------
(* Type correctness, and where Run and its connections are.                *)

TypeInv == TypeOK /\ RunInv /\ EventInv

LEMMA Numbers ==
    ASSUME TypeOK
    PROVE  /\ session \in Int /\ session >= 0 /\ session <= MaxSessions
           /\ session > 0 => session \in Sessions
           /\ \A s \in Sessions : s \in Int /\ s > 0
  BY Constants DEF TypeOK, Sessions

(* A reader that works, and a link that is up, are those of the current    *)
(* connection, and Run is not between two connections.                     *)
LEMMA Active ==
    ASSUME TypeInv, NEW s \in Sessions,
           ses[s].reader \in {"reading", "pushing"}
    PROVE  s = session /\ pc \notin {"adjust", "dial", "subscribe", "sleep"}
  <1>1. ~Over(s) /\ ~Fresh(s)
    BY DEF Over, Fresh
  <1>2. s \in Int /\ s > 0 /\ session \in Int
    BY Numbers DEF TypeInv
  <1>3. ~(s < session) /\ ~(s > session)
    BY <1>1 DEF TypeInv, RunInv
  <1>4. s = session
    BY <1>2, <1>3
  <1>5. QED
    BY <1>1, <1>2, <1>4 DEF TypeInv, RunInv

(* A step that changes nothing but the current connection leaves the       *)
(* others over or fresh.                                                   *)
LEMMA OthersKept ==
    ASSUME TypeInv, session \in Sessions, NEW c \in Connection, Len(c.buf) <= BufCap,
           ses' = [ses EXCEPT ![session] = c], session' = session
    PROVE  /\ ses' \in [Sessions -> Connection]
           /\ \A t \in Sessions : Len(ses'[t].buf) <= BufCap
           /\ ses'[session] = c
           /\ \A t \in Sessions : (t < session' => Over(t)') /\ (t > session' => Fresh(t)')
  <1>1. TypeOK
    BY DEF TypeInv
  <1>2. /\ ses' \in [Sessions -> Connection]
        /\ \A t \in Sessions : Len(ses'[t].buf) <= BufCap
        /\ ses'[session] = c /\ \A t \in Sessions : t # session => ses'[t] = ses[t]
    BY <1>1, ConnectionStep
  <1>3. ASSUME NEW t \in Sessions
        PROVE  (t < session' => Over(t)') /\ (t > session' => Fresh(t)')
    <2>1. t \in Int /\ session \in Int
      BY <1>1, Numbers
    <2>2. CASE t = session
      BY <2>1, <2>2
    <2>3. CASE t # session
      BY <1>2, <2>3 DEF TypeInv, RunInv, Over, Fresh
    <2>4. QED
      BY <2>2, <2>3
  <1>4. QED
    BY <1>2, <1>3

LEMMA TypeInit == Init => TypeInv
  <1> SUFFICES ASSUME Init PROVE TypeInv
    OBVIOUS
  <1>1. PICK f \in Files : meta = LoadPools(f)
    BY DEF Init
  <1>2. DOMAIN meta \subseteq Pools
    BY <1>1, LoadedMeta
  <1>3. NoPrice \in Nat \X Nat /\ <<NoPrice, NoPrice>> \in (Nat \X Nat) \X (Nat \X Nat)
    BY DEF NoPrice
  <1>4. NoSession \in Connection /\ Len(NoSession.buf) <= BufCap
    <2> DEFINE e == <<>>
    <2>1. e \in Seq(Frames) /\ Len(e) = 0
      BY EmptySeq
    <2>2. NoSession = [link |-> "none", reader |-> "off", held |-> NoEvent, buf |-> e,
                       events |-> 0]
      BY DEF NoSession
    <2> HIDE DEF e
    <2>3. NoSession \in Connection /\ NoSession.buf = e
      BY <2>1, <2>2, FramesProperties DEF Connection
    <2>4. 0 <= BufCap
      BY Constants
    <2>5. QED
      BY <2>1, <2>3, <2>4
  <1>5. /\ ses \in [Sessions -> Connection]
        /\ \A s \in Sessions : Len(ses[s].buf) <= BufCap /\ ses[s] = NoSession
    BY <1>4 DEF Init
  <1>6. backoff \in 1..MaxBackoff /\ session \in 0..MaxSessions
    BY Constants DEF Init
  <1>7. TypeOK
    <2>1. /\ cancelled \in BOOLEAN /\ pc = "adjust"
          /\ verified \subseteq Pools /\ pingers \subseteq Sessions
      BY DEF Init
    <2>2. /\ lastPrice \in [Pools -> Nat \X Nat] /\ latest \in [Pools -> Nat \X Nat]
          /\ spot \in [Pools -> (Nat \X Nat) \X (Nat \X Nat)]
      BY <1>3 DEF Init
    <2>3. event \in Frames
      BY FramesProperties DEF Init
    <2>4. /\ graph \in [Pools -> {"none", "old", "own", "other"}]
          /\ usd \in [Pools -> {"none", "old", "own", "other"}]
      BY DEF Init
    <2>5. QED
      BY <1>2, <1>5, <1>6, <2>1, <2>2, <2>3, <2>4 DEF TypeOK
  <1>8. RunInv
    <2>1. session = 0 /\ pc = "adjust"
      BY DEF Init
    <2>2. ASSUME NEW s \in Sessions
          PROVE  (s < session => Over(s)) /\ (s > session => Fresh(s))
      BY <1>5, <1>7, <2>1, Numbers DEF Fresh, NoSession
    <2>3. QED
      BY <2>1, <2>2 DEF RunInv, Streaming, Handling
  <1>9. EventInv
    BY DEF Init, EventInv, Handling
  <1>10. QED
    BY <1>7, <1>8, <1>9 DEF TypeInv

LEMMA AdjustType ==
    ASSUME TypeInv, AdjustOrder
    PROVE  TypeInv'
  <1>1. PICK read \in SUBSET DOMAIN meta :
          LET flipped == { p \in read : Addrs(meta[p]) = <<Chain[p][2], Chain[p][1]>> } IN
          /\ meta' = [p \in DOMAIN meta |-> IF p \in flipped THEN Swapped(meta[p]) ELSE meta[p]]
          /\ verified' = flipped \cup { p \in read : Addrs(meta[p]) = Chain[p] }
    BY DEF AdjustOrder
  <1>2. DOMAIN meta' = DOMAIN meta /\ verified' \subseteq DOMAIN meta
    BY <1>1
  <1>3. pc = "adjust" /\ pc' = "dial"
        /\ UNCHANGED <<cancelled, backoff, connVars, priceVars, pricerVars>>
    BY DEF AdjustOrder
  <1>4. TypeOK'
    BY <1>2, <1>3 DEF TypeInv, TypeOK, connVars, priceVars, pricerVars
  <1>5. RunInv'
    <2>1. session = 0 /\ session' = session /\ ses' = ses
      BY <1>3 DEF TypeInv, RunInv, connVars
    <2>2. QED
      BY <1>3, <2>1 DEF TypeInv, RunInv, Streaming, Handling, Over, Fresh
  <1>6. EventInv'
    BY <1>3 DEF EventInv, Handling
  <1>7. QED
    BY <1>4, <1>5, <1>6 DEF TypeInv

LEMMA DialType ==
    ASSUME TypeInv, Dial
    PROVE  TypeInv'
  <1>1. pc = "dial" /\ UNCHANGED <<cancelled, backoff, meta, verified, priceVars, pricerVars>>
    BY DEF Dial
  <1>2. CASE pc' \in {"done", "sleep"} /\ UNCHANGED connVars
    <2>1. TypeOK'
      BY <1>1, <1>2 DEF TypeInv, TypeOK, connVars, priceVars, pricerVars
    <2>2. RunInv'
      BY <1>1, <1>2 DEF TypeInv, RunInv, Streaming, Handling, Over, Fresh, connVars
    <2>3. EventInv'
      BY <1>2 DEF EventInv, Handling
    <2>4. QED
      BY <2>1, <2>2, <2>3 DEF TypeInv
  <1>3. CASE /\ session < MaxSessions
             /\ session' = session + 1
             /\ ses' = [ses EXCEPT ![session + 1].link = "up"]
             /\ pingers' = pingers \cup {session + 1}
             /\ pc' = "subscribe"
    <2> DEFINE s == session + 1
               c == [ses[s] EXCEPT !.link = "up"]
    <2>1. /\ s \in Sessions /\ s \in 0..MaxSessions /\ s > session /\ s > 0
          /\ session \in Int /\ s \in Int
      BY <1>3, Constants, Numbers DEF TypeInv, TypeOK, Sessions
    <2>2. ses[s].reader = "off"
      BY <2>1 DEF TypeInv, RunInv, Fresh
    <2>3. c \in Connection /\ Len(c.buf) <= BufCap /\ c.reader = "off"
      <3>1. ses[s] \in Connection /\ Len(ses[s].buf) <= BufCap
        BY <2>1, Buffers DEF TypeInv
      <3>2. QED
        BY <2>2, <3>1 DEF Connection
    <2>4. ses' = [ses EXCEPT ![s] = c]
      BY <1>3
    <2>5. /\ ses' \in [Sessions -> Connection]
          /\ \A t \in Sessions : Len(ses'[t].buf) <= BufCap
          /\ ses'[s] = c /\ \A t \in Sessions : t # s => ses'[t] = ses[t]
      BY <2>1, <2>3, <2>4, ConnectionStep DEF TypeInv
    <2>6. TypeOK'
      BY <1>1, <1>3, <2>1, <2>5 DEF TypeInv, TypeOK, priceVars, pricerVars
    <2>7. RunInv'
      <3>1. ASSUME NEW t \in Sessions
            PROVE  (t < session' => Over(t)') /\ (t > session' => Fresh(t)')
        <4>1. t \in Int /\ t > 0 /\ session' = s
          BY <1>3, Numbers DEF TypeInv
        <4>2. CASE t < s
          <5>1. t < session \/ t = session
            BY <2>1, <4>1, <4>2
          <5>2. Over(t)
            BY <1>1, <4>1, <5>1 DEF TypeInv, RunInv
          <5>3. t # s
            BY <4>1, <4>2, <2>1
          <5>4. ses'[t] = ses[t]
            BY <2>5, <5>3
          <5>5. QED
            BY <2>1, <4>1, <4>2, <5>2, <5>4 DEF Over
        <4>3. CASE t > s
          <5>1. t > session /\ t # s
            BY <2>1, <4>1, <4>3
          <5>2. Fresh(t) /\ ses'[t] = ses[t]
            BY <2>5, <5>1 DEF TypeInv, RunInv
          <5>3. QED
            BY <2>1, <4>1, <4>3, <5>2 DEF Fresh
        <4>4. QED
          BY <2>1, <4>1, <4>2, <4>3
      <3>2. session' > 0 /\ ses'[session'].reader = "off"
        BY <1>3, <2>1, <2>3, <2>5
      <3>3. QED
        BY <1>3, <3>1, <3>2 DEF RunInv
    <2>8. EventInv'
      BY <1>3 DEF EventInv, Handling
    <2>9. QED
      BY <2>6, <2>7, <2>8 DEF TypeInv
  <1>4. QED
    BY <1>2, <1>3 DEF Dial

(* A step of the run or of the reader that changes the current connection: *)
(* what is left to show of it.                                             *)
LEMMA CurrentType ==
    ASSUME TypeInv, session \in Sessions, NEW c \in Connection, Len(c.buf) <= BufCap,
           ses' = [ses EXCEPT ![session] = c],
           UNCHANGED <<cancelled, meta, verified, session, pingers, priceVars, pricerVars>>,
           backoff' \in 1..MaxBackoff,
           \/ pc' = pc
           \/ pc = "subscribe" /\ pc' \in {"select", "sleep"}
           \/ pc = "select" /\ pc' \in {"sleep", "done"},
           pc' = "subscribe" => c.reader = "off",
           pc' \in {"dial", "sleep"} => c.link = "closed" /\ c.reader \in {"off", "ended"}
    PROVE  TypeInv'
  <1>1. /\ ses' \in [Sessions -> Connection]
        /\ \A t \in Sessions : Len(ses'[t].buf) <= BufCap
        /\ ses'[session] = c
        /\ \A t \in Sessions : (t < session' => Over(t)') /\ (t > session' => Fresh(t)')
    BY OthersKept
  <1>2. TypeOK'
    BY <1>1 DEF TypeInv, TypeOK, priceVars, pricerVars
  <1>3. RunInv'
    <2>1. session > 0 /\ session' = session
      BY Numbers DEF TypeInv
    <2>2. pc' # "adjust"
      BY <2>1, Numbers DEF TypeInv, RunInv
    <2>3. pc' = "subscribe" => ses'[session'].reader = "off"
      BY <1>1, <2>1
    <2>4. pc' \in {"dial", "sleep"} => Over(session)'
      BY <1>1, <2>1 DEF Over
    <2>5. \A t \in Sessions : (t < session' => Over(t)') /\ (t > session' => Fresh(t)')
      BY <1>1
    <2>6. session' > 0
      BY <2>1
    <2>7. QED
      BY <2>1, <2>2, <2>3, <2>4, <2>5, <2>6 DEF RunInv
  <1>4. EventInv'
    BY DEF TypeInv, EventInv, Handling, priceVars
  <1>5. QED
    BY <1>2, <1>3, <1>4 DEF TypeInv

LEMMA SubscribeType ==
    ASSUME TypeInv, Subscribe
    PROVE  TypeInv'
  <1>1. /\ pc = "subscribe"
        /\ UNCHANGED <<cancelled, meta, verified, session, pingers, priceVars, pricerVars>>
    BY DEF Subscribe
  <1>2. TypeOK /\ session \in Sessions /\ ses[session].reader = "off"
    BY <1>1, Numbers DEF TypeInv, RunInv
  <1>3. CASE ses' = [ses EXCEPT ![session].reader = "reading"] /\ backoff' = 1 /\ pc' = "select"
    <2> DEFINE c == [ses[session] EXCEPT !.link = ses[session].link, !.reader = "reading"]
    <2>1. c \in Connection /\ Len(c.buf) <= BufCap
      BY <1>2, LinkOrReader
    <2>2. ses[session] \in Connection
      BY <1>2, Buffers
    <2>3. ses' = [ses EXCEPT ![session] = c]
      BY <1>3, <2>2 DEF Connection
    <2>4. backoff' \in 1..MaxBackoff
      BY <1>3, Constants
    <2> HIDE DEF c
    <2>5. QED
      BY <1>1, <1>2, <1>3, <2>1, <2>3, <2>4, CurrentType
  <1>4. CASE ses' = Closed(session) /\ pc' = "sleep" /\ UNCHANGED backoff
    <2>1. /\ Shut(session) \in Connection /\ Len(Shut(session).buf) <= BufCap
          /\ Shut(session).link = "closed" /\ Shut(session).reader = "off"
          /\ Closed(session) = [ses EXCEPT ![session] = Shut(session)]
      BY <1>2, ShutConnection
    <2>2. backoff' \in 1..MaxBackoff
      BY <1>4, <1>2 DEF TypeOK
    <2>3. QED
      BY <1>1, <1>2, <1>4, <2>1, <2>2, CurrentType
  <1>5. QED
    BY <1>3, <1>4 DEF Subscribe

LEMMA SleepType ==
    ASSUME TypeInv, Sleep
    PROVE  TypeInv'
  <1>1. /\ pc = "sleep" /\ pc' = "dial" /\ backoff' = NextBackoff(backoff)
        /\ UNCHANGED <<cancelled, meta, verified, connVars, priceVars, pricerVars>>
    BY DEF Sleep
  <1>2. backoff' \in 1..MaxBackoff
    BY <1>1, NextBackoffRange DEF TypeInv, TypeOK
  <1>3. TypeOK'
    BY <1>1, <1>2 DEF TypeInv, TypeOK, connVars, priceVars, pricerVars
  <1>4. RunInv'
    BY <1>1 DEF TypeInv, RunInv, Streaming, Handling, Over, Fresh, connVars
  <1>5. EventInv'
    BY <1>1 DEF EventInv, Handling
  <1>6. QED
    BY <1>3, <1>4, <1>5 DEF TypeInv

LEMMA StreamCancelledType ==
    ASSUME TypeInv, StreamCancelled
    PROVE  TypeInv'
  <1>1. /\ pc = "select" /\ pc' = "done" /\ ses' = Closed(session) /\ backoff' = backoff
        /\ UNCHANGED <<cancelled, meta, verified, session, pingers, priceVars, pricerVars>>
    BY DEF StreamCancelled
  <1>2. TypeOK /\ session \in Sessions /\ backoff \in 1..MaxBackoff
    BY <1>1, Numbers DEF TypeInv, RunInv, Streaming, TypeOK
  <1>3. /\ Shut(session) \in Connection /\ Len(Shut(session).buf) <= BufCap
        /\ Closed(session) = [ses EXCEPT ![session] = Shut(session)]
    BY <1>2, ShutConnection
  <1>4. QED
    BY <1>1, <1>2, <1>3, CurrentType

LEMMA ReaderEndedType ==
    ASSUME TypeInv, ReaderEnded
    PROVE  TypeInv'
  <1>1. /\ pc = "select" /\ pc' = "sleep" /\ ses[session].reader = "ended"
        /\ ses' = [Closed(session) EXCEPT ![session].buf = <<>>] /\ backoff' = backoff
        /\ UNCHANGED <<cancelled, meta, verified, session, pingers, priceVars, pricerVars>>
    BY DEF ReaderEnded
  <1>2. TypeOK /\ session \in Sessions /\ backoff \in 1..MaxBackoff
    BY <1>1, Numbers DEF TypeInv, RunInv, Streaming, TypeOK
  <1>3. /\ Emptied(session) \in Connection /\ Len(Emptied(session).buf) <= BufCap
        /\ Emptied(session).link = "closed" /\ Emptied(session).reader = "ended"
        /\ ses' = [ses EXCEPT ![session] = Emptied(session)]
    BY <1>1, <1>2, EmptiedConnection
  <1>4. QED
    BY <1>1, <1>2, <1>3, CurrentType

-----------------------------------------------------------------------------
(* What handleRaw does with a frame: it ignores it, drops its price, or    *)
(* goes on to quote it.                                                    *)
Ignores == UNCHANGED <<pc, event, lastPrice, latest, graph>>

Drops(f) ==
    LET price == Snapshot(meta[f.pool], f.reserves) IN
    /\ latest' = [latest EXCEPT ![f.pool] = f.reserves]
    /\ lastPrice[f.pool] # NoPrice /\ Near(price, lastPrice[f.pool])
    /\ UNCHANGED <<pc, event, lastPrice, graph>>

Quotes(f) ==
    /\ latest' = [latest EXCEPT ![f.pool] = f.reserves]
    /\ lastPrice' = [lastPrice EXCEPT ![f.pool] = Snapshot(meta[f.pool], f.reserves)]
    /\ pc' = "spot" /\ event' = f
    /\ graph' = [graph EXCEPT ![f.pool] = IF @ = "none" THEN @ ELSE "old"]

LEMMA HandleRawCases ==
    ASSUME TypeOK, NEW f \in Frames, HandleRaw(f)
    PROVE  \/ Ignores
           \/ /\ f.pool \in DOMAIN meta /\ f.pool \in Pools
              /\ Positive(f.reserves) /\ f.reserves \in Nat \X Nat
              /\ Snapshot(meta[f.pool], f.reserves) \in Nat \X Nat
              /\ Positive(Snapshot(meta[f.pool], f.reserves))
              /\ Drops(f) \/ Quotes(f)
  <1> DEFINE q == f.pool
             price == Snapshot(meta[q], f.reserves)
  <1>1. /\ f.reserves \in Nat \X Nat /\ f.reserves[1] \in Nat /\ f.reserves[2] \in Nat
        /\ DOMAIN meta \subseteq Pools
    BY FramesProperties DEF TypeOK
  <1>2. CASE q \notin DOMAIN meta \/ 0 \in {f.reserves[1], f.reserves[2]}
    BY <1>2 DEF HandleRaw, Ignores
  <1>3. CASE ~(q \notin DOMAIN meta \/ 0 \in {f.reserves[1], f.reserves[2]})
    <2>1. q \in DOMAIN meta /\ q \in Pools /\ Positive(f.reserves)
      BY <1>1, <1>3 DEF Positive
    <2>2. price \in Nat \X Nat /\ Positive(price)
      BY <1>1, <2>1, PriceProperties
    <2>3. /\ latest' = [latest EXCEPT ![q] = f.reserves]
          /\ lastPrice' = [lastPrice EXCEPT ![q] = Kept(lastPrice[q], price)]
          /\ IF Dropped(lastPrice[q], price)
             THEN UNCHANGED <<pc, event, graph>>
             ELSE /\ pc' = "spot" /\ event' = f
                  /\ graph' = [graph EXCEPT ![q] = IF @ = "none" THEN @ ELSE "old"]
      BY <1>3 DEF HandleRaw
    <2> HIDE DEF price
    <2>4. CASE lastPrice[q] # NoPrice /\ Near(price, lastPrice[q])
      <3>1. Kept(lastPrice[q], price) = lastPrice[q] /\ Dropped(lastPrice[q], price)
        BY <2>4 DEF Kept, Dropped
      <3>2. lastPrice' = lastPrice
        BY <2>1, <2>3, <3>1 DEF TypeOK
      <3>3. Drops(f)
        BY <2>3, <2>4, <3>1, <3>2 DEF Drops, price
      <3>4. QED
        BY <1>1, <2>1, <2>2, <3>3 DEF price
    <2>5. CASE ~(lastPrice[q] # NoPrice /\ Near(price, lastPrice[q]))
      <3>1. Kept(lastPrice[q], price) = price /\ ~Dropped(lastPrice[q], price)
        BY <2>5 DEF Kept, Dropped
      <3>2. Quotes(f)
        BY <2>3, <3>1 DEF Quotes, price
      <3>3. QED
        BY <1>1, <2>1, <2>2, <3>2 DEF price
    <2>6. QED
      BY <2>4, <2>5
  <1>4. QED
    BY <1>2, <1>3

LEMMA TakeFrameType ==
    ASSUME TypeInv, TakeFrame
    PROVE  TypeInv'
  <1> DEFINE f == Head(ses[session].buf)
             c == [ses[session] EXCEPT !.buf = Tail(@)]
  <1>1. /\ pc = "select" /\ ses[session].buf # <<>>
        /\ ses' = [ses EXCEPT ![session].buf = Tail(@)]
        /\ HandleRaw(f)
        /\ UNCHANGED <<cancelled, backoff, meta, verified, session, pingers, spot, usd>>
    BY DEF TakeFrame
  <1>2. TypeOK /\ session \in Sessions /\ session > 0
    BY <1>1, Numbers DEF TypeInv, RunInv, Streaming
  <1>3. c \in Connection /\ Len(c.buf) <= BufCap /\ f \in Frames
    BY <1>1, <1>2, TakenConnection
  <1>4. ses' = [ses EXCEPT ![session] = c]
    BY <1>1
  <1> HIDE DEF c, f
  <1>5. /\ ses' \in [Sessions -> Connection]
        /\ \A t \in Sessions : Len(ses'[t].buf) <= BufCap
        /\ \A t \in Sessions : (t < session' => Over(t)') /\ (t > session' => Fresh(t)')
    BY <1>1, <1>2, <1>3, <1>4, OthersKept
  <1>6. /\ pc' \in {"select", "spot"} /\ event' \in Frames
        /\ lastPrice' \in [Pools -> Nat \X Nat] /\ latest' \in [Pools -> Nat \X Nat]
        /\ graph' \in [Pools -> {"none", "old", "own", "other"}]
        /\ EventInv'
    <2>1. CASE Ignores
      BY <1>1, <1>2, <2>1 DEF Ignores, TypeOK, EventInv, Handling
    <2>2. CASE f.pool \in DOMAIN meta /\ f.pool \in Pools /\ f.reserves \in Nat \X Nat /\ Drops(f)
      BY <1>1, <1>2, <2>2 DEF Drops, TypeOK, EventInv, Handling
    <2>3. CASE /\ f.pool \in DOMAIN meta /\ f.pool \in Pools
               /\ Positive(f.reserves) /\ f.reserves \in Nat \X Nat
               /\ Snapshot(meta[f.pool], f.reserves) \in Nat \X Nat
               /\ Quotes(f)
      <3>1. EventInv'
        BY <1>1, <2>3 DEF Quotes, EventInv
      <3>2. QED
        BY <1>2, <1>3, <2>3, <3>1 DEF Quotes, TypeOK
    <2>4. QED
      BY <1>1, <1>2, <1>3, <2>1, <2>2, <2>3, HandleRawCases
  <1>7. TypeOK'
    BY <1>1, <1>2, <1>5, <1>6 DEF TypeOK
  <1>8. RunInv'
    <2>1. \A t \in Sessions : (t < session' => Over(t)') /\ (t > session' => Fresh(t)')
      BY <1>5
    <2>2. session' > 0
      BY <1>1, <1>2
    <2>3. QED
      BY <1>6, <2>1, <2>2 DEF RunInv
  <1>9. QED
    BY <1>6, <1>7, <1>8 DEF TypeInv

(* A step of the handler: the connections stay as they are.                *)
LEMMA PublishType ==
    ASSUME TypeInv, SendSpot \/ UpdatePair \/ SendUSD
    PROVE  TypeInv'
  <1> USE DEF OnlyPublish
  <1>1. /\ Handling /\ event.pool \in DOMAIN meta /\ event.pool \in Pools
        /\ event \in Frames /\ event.reserves \in Nat \X Nat
    BY FramesProperties DEF TypeInv, TypeOK, EventInv, Handling, SendSpot, UpdatePair, SendUSD
  <1>2. /\ pc' \in {"select", "spot", "update", "usd0", "usd1"}
        /\ UNCHANGED <<cancelled, backoff, meta, verified, session, ses, pingers,
                       lastPrice, latest>>
    BY DEF SendSpot, UpdatePair, SendUSD, connVars
  <1>3. /\ spot' \in [Pools -> (Nat \X Nat) \X (Nat \X Nat)]
        /\ graph' \in [Pools -> {"none", "old", "own", "other"}]
        /\ usd' \in [Pools -> {"none", "old", "own", "other"}]
        /\ event' \in Frames
        /\ Handling' => event' = event
    <2>1. CASE SendSpot
      <3> DEFINE r == event.reserves
                 x == Snapshot(meta[event.pool], r)
      <3>1. x \in Nat \X Nat
        BY <1>1, PriceProperties
      <3>2. spot' = [spot EXCEPT ![event.pool] = <<x, r>>] /\ UNCHANGED <<event, graph, usd>>
        BY <2>1 DEF SendSpot, pricerVars
      <3> HIDE DEF x, r
      <3>3. <<x, r>> \in (Nat \X Nat) \X (Nat \X Nat)
        BY <1>1, <3>1 DEF r
      <3>4. QED
        BY <1>1, <3>2, <3>3 DEF TypeInv, TypeOK
    <2>2. CASE UpdatePair
      BY <1>1, <2>2 DEF UpdatePair, TypeInv, TypeOK
    <2>3. CASE SendUSD
      <3>1. /\ spot' = spot /\ graph' = graph
            /\ usd' \in {usd, [usd EXCEPT ![event.pool] = graph[event.pool]]}
            /\ event' = event \/ (pc' = "select" /\ event' = NoEvent)
        BY <2>3 DEF SendUSD
      <3>2. event' \in Frames /\ (Handling' => event' = event)
        BY <1>1, <3>1, FramesProperties DEF Handling
      <3>3. usd' \in [Pools -> {"none", "old", "own", "other"}]
        BY <1>1, <3>1 DEF TypeInv, TypeOK
      <3>4. QED
        BY <3>1, <3>2, <3>3 DEF TypeInv, TypeOK
    <2>4. QED
      BY <2>1, <2>2, <2>3
  <1>4. TypeOK'
    BY <1>2, <1>3 DEF TypeInv, TypeOK
  <1>5. RunInv'
    <2>1. session > 0
      BY <1>1 DEF TypeInv, RunInv, Streaming
    <2>2. QED
      BY <1>2, <2>1 DEF TypeInv, RunInv, Over, Fresh
  <1>6. EventInv'
    BY <1>1, <1>2, <1>3 DEF EventInv, TypeInv
  <1>7. QED
    BY <1>4, <1>5, <1>6 DEF TypeInv

LEMMA ReaderType ==
    ASSUME TypeInv, NEW s \in Sessions, ReadFrame(s) \/ ReadError(s) \/ Push(s)
    PROVE  TypeInv'
  <1>1. /\ TypeOK
        /\ UNCHANGED <<cancelled, pc, backoff, meta, verified, session, pingers,
                       priceVars, pricerVars>>
        /\ ses[s].reader \in {"reading", "pushing"}
    BY DEF ReadFrame, ReadError, Push, OnlySession, TypeInv
  <1>2. s = session /\ pc \notin {"adjust", "dial", "subscribe", "sleep"}
    BY <1>1, Active
  <1>3. backoff' \in 1..MaxBackoff
    BY <1>1 DEF TypeOK
  <1>4. CASE ReadFrame(s)
    <2>1. PICK f \in Frames :
            ses' = [ses EXCEPT ![s].held = f, ![s].reader = "pushing", ![s].events = @ + 1]
      BY <1>4 DEF ReadFrame
    <2> DEFINE c == [ses[s] EXCEPT !.held = f, !.reader = "pushing", !.events = @ + 1]
    <2>2. c \in Connection /\ Len(c.buf) <= BufCap
      BY <1>1, HeldConnection
    <2>3. ses' = [ses EXCEPT ![s] = c]
      BY <2>1
    <2> HIDE DEF c
    <2>4. QED
      BY <1>1, <1>2, <1>3, <2>2, <2>3, CurrentType
  <1>5. CASE ReadError(s)
    <2> DEFINE c == [ses[s] EXCEPT !.link = ses[s].link, !.reader = "ended"]
    <2>1. c \in Connection /\ Len(c.buf) <= BufCap
      BY <1>1, LinkOrReader
    <2>2. ses[s] \in Connection
      BY <1>1, Buffers
    <2>3. ses' = [ses EXCEPT ![s] = c]
      BY <1>5, <2>2 DEF ReadError, Connection
    <2> HIDE DEF c
    <2>4. QED
      BY <1>1, <1>2, <1>3, <2>1, <2>3, CurrentType
  <1>6. CASE Push(s)
    <2> DEFINE c == [ses[s] EXCEPT !.buf = Append(@, ses[s].held), !.held = NoEvent,
                                   !.reader = "reading"]
    <2>1. Len(ses[s].buf) < BufCap
      BY <1>6 DEF Push
    <2>2. c \in Connection /\ Len(c.buf) <= BufCap
      BY <1>1, <2>1, PushedConnection
    <2>3. ses' = [ses EXCEPT ![s] = c]
      BY <1>6 DEF Push
    <2> HIDE DEF c
    <2>4. QED
      BY <1>1, <1>2, <1>3, <2>2, <2>3, CurrentType
  <1>7. QED
    BY <1>4, <1>5, <1>6

LEMMA BreakType ==
    ASSUME TypeInv, Break
    PROVE  TypeInv'
  <1> DEFINE c == [ses[session] EXCEPT !.link = "broken", !.reader = ses[session].reader]
  <1>1. /\ TypeOK /\ session \in Sessions /\ ses[session].link = "up"
        /\ UNCHANGED <<cancelled, pc, backoff, meta, verified, session, pingers,
                       priceVars, pricerVars>>
    BY Numbers DEF Break, OnlySession, TypeInv
  <1>2. c \in Connection /\ Len(c.buf) <= BufCap /\ c.reader = ses[session].reader
    BY <1>1, LinkOrReader
  <1>3. ses[session] \in Connection
    BY <1>1, Buffers
  <1>4. ses' = [ses EXCEPT ![session] = c]
    BY <1>3 DEF Break, Connection
  <1> HIDE DEF c
  <1>5. pc' \notin {"dial", "sleep"}
    <2>1. ~Over(session) /\ session > 0
      BY <1>1, Numbers DEF Over
    <2>2. QED
      BY <1>1, <2>1 DEF TypeInv, RunInv
  <1>6. pc' = "subscribe" => c.reader = "off"
    BY <1>1, <1>2 DEF TypeInv, RunInv
  <1>7. backoff' \in 1..MaxBackoff
    BY <1>1 DEF TypeOK
  <1>8. QED
    BY <1>1, <1>2, <1>4, <1>5, <1>6, <1>7, CurrentType

(* The steps that touch neither Run nor a connection.                      *)
LEMMA AsideType ==
    ASSUME TypeInv,
           \/ Cancel
           \/ \E s \in Sessions : PingerEnds(s)
           \/ \E p \in Pools : OtherUpdate(p)
           \/ UNCHANGED vars
    PROVE  TypeInv'
  <1>1. /\ UNCHANGED <<pc, backoff, meta, verified, session, ses, priceVars, usd>>
        /\ cancelled' \in BOOLEAN /\ pingers' \subseteq Sessions
        /\ graph' \in [Pools -> {"none", "old", "own", "other"}]
    BY DEF TypeInv, TypeOK, Cancel, PingerEnds, OtherUpdate, vars, connVars, priceVars,
           pricerVars
  <1>2. TypeOK'
    BY <1>1 DEF TypeInv, TypeOK, priceVars
  <1>3. RunInv'
    BY <1>1 DEF TypeInv, RunInv, Streaming, Handling, Over, Fresh
  <1>4. EventInv'
    BY <1>1 DEF TypeInv, EventInv, Handling, priceVars
  <1>5. QED
    BY <1>2, <1>3, <1>4 DEF TypeInv

LEMMA TypeStep == TypeInv /\ [Next]_vars => TypeInv'
  <1> SUFFICES ASSUME TypeInv, [Next]_vars PROVE TypeInv'
    OBVIOUS
  <1>1. CASE RunStep
    BY <1>1, AdjustType, DialType, SubscribeType, SleepType, StreamCancelledType,
       ReaderEndedType, TakeFrameType, PublishType DEF RunStep
  <1>2. CASE \E s \in Sessions : ReadFrame(s) \/ ReadError(s) \/ Push(s)
    BY <1>2, ReaderType
  <1>3. CASE Break
    BY <1>3, BreakType
  <1>4. CASE \/ Cancel
             \/ \E s \in Sessions : PingerEnds(s)
             \/ \E p \in Pools : OtherUpdate(p)
             \/ UNCHANGED vars
    BY <1>4, AsideType
  <1>5. QED
    BY <1>1, <1>2, <1>3, <1>4 DEF Next

(* The variables keep their types, and the handler works on an event of a  *)
(* pool of the connector, with reserves, in every state of the run.        *)
THEOREM TypeCorrect == Spec => [](TypeOK /\ EventInv)
  <1>1. TypeInv => TypeOK /\ EventInv
    BY DEF TypeInv
  <1>2. QED
    BY <1>1, TypeInit, TypeStep, PTL DEF Spec

(* A connection is not dialled before the one before it is closed and its  *)
(* reader is gone.                                                         *)
THEOREM ReadersApart == Spec => []OneReader
  <1>1. TypeInv => OneReader
    BY DEF TypeInv, RunInv, Over, OneReader
  <1>2. QED
    BY <1>1, TypeInit, TypeStep, PTL DEF Spec

-----------------------------------------------------------------------------
(* The metadata: only AdjustPoolsOrdering touches them.                    *)

LEMMA MetaKept ==
    ASSUME [Next]_vars
    PROVE  AdjustOrder \/ (UNCHANGED <<meta, verified>> /\ (pc' = "adjust" => pc = "adjust"))
  <1> DEFINE kept == UNCHANGED <<meta, verified>> /\ (pc' = "adjust" => pc = "adjust")
  <1>1. CASE Dial \/ Subscribe \/ Sleep \/ StreamCancelled \/ ReaderEnded
    BY <1>1 DEF Dial, Subscribe, Sleep, StreamCancelled, ReaderEnded
  <1>2. CASE TakeFrame
    BY <1>2 DEF TakeFrame, HandleRaw
  <1>3. CASE SendSpot \/ UpdatePair \/ SendUSD
    BY <1>3 DEF SendSpot, UpdatePair, SendUSD, OnlyPublish
  <1>4. CASE \E s \in Sessions : ReadFrame(s) \/ ReadError(s) \/ Push(s) \/ PingerEnds(s)
    BY <1>4 DEF ReadFrame, ReadError, Push, PingerEnds, OnlySession
  <1>5. CASE (\E p \in Pools : OtherUpdate(p)) \/ Break \/ Cancel \/ UNCHANGED vars
    BY <1>5 DEF OtherUpdate, Break, Cancel, OnlySession, vars
  <1>6. QED
    BY <1>1, <1>2, <1>3, <1>4, <1>5 DEF Next, RunStep

LEMMA MetaInit == Init => MetaInv
  <1> SUFFICES ASSUME Init PROVE MetaInv
    OBVIOUS
  <1>1. PICK f \in Files : meta = LoadPools(f)
    BY DEF Init
  <1>2. \A p \in DOMAIN meta : IsMeta(meta[p])
    BY <1>1, LoadedMeta
  <1>3. QED
    BY <1>2 DEF Init, MetaInv

LEMMA MetaStep == TypeOK /\ MetaInv /\ [Next]_vars => MetaInv'
  <1> SUFFICES ASSUME TypeOK, MetaInv, [Next]_vars PROVE MetaInv'
    OBVIOUS
  <1>1. CASE AdjustOrder
    <2>1. PICK read \in SUBSET DOMAIN meta :
            LET flipped == { p \in read : Addrs(meta[p]) = <<Chain[p][2], Chain[p][1]>> } IN
            /\ meta' = [p \in DOMAIN meta |->
                          IF p \in flipped THEN Swapped(meta[p]) ELSE meta[p]]
            /\ verified' = flipped \cup { p \in read : Addrs(meta[p]) = Chain[p] }
      BY <1>1 DEF AdjustOrder
    <2> DEFINE flipped == { p \in read : Addrs(meta[p]) = <<Chain[p][2], Chain[p][1]>> }
    <2>2. /\ DOMAIN meta' = DOMAIN meta /\ flipped \subseteq DOMAIN meta
          /\ \A p \in flipped : meta'[p] = Swapped(meta[p])
          /\ \A p \in DOMAIN meta \ flipped : meta'[p] = meta[p]
          /\ verified' \subseteq DOMAIN meta
      BY <2>1
    <2>3. ASSUME NEW p \in DOMAIN meta PROVE IsMeta(meta'[p])
      BY <2>2, SwappedMeta DEF MetaInv
    <2>4. ASSUME NEW p \in verified' PROVE Addrs(meta'[p]) = Chain[p]
      <3>1. p \in Pools /\ p \in DOMAIN meta
        BY <2>2 DEF TypeOK
      <3>2. CASE p \in flipped
        <4>1. /\ Addrs(meta[p]) = <<Chain[p][2], Chain[p][1]>>
              /\ IsMeta(meta[p]) /\ meta'[p] = Swapped(meta[p])
          BY <2>2, <3>1, <3>2 DEF MetaInv
        <4>2. Addrs(meta'[p]) = <<Addrs(meta[p])[2], Addrs(meta[p])[1]>>
          BY <4>1, SwappedMeta
        <4>3. QED
          BY <3>1, <4>1, <4>2, V2Assumption
      <3>3. CASE p \notin flipped
        BY <2>1, <2>2, <3>1, <3>3
      <3>4. QED
        BY <3>2, <3>3
    <2>5. pc' # "adjust"
      BY <1>1 DEF AdjustOrder
    <2>6. QED
      BY <2>2, <2>3, <2>4, <2>5 DEF MetaInv
  <1>2. CASE UNCHANGED <<meta, verified>> /\ (pc' = "adjust" => pc = "adjust")
    BY <1>2 DEF MetaInv
  <1>3. QED
    BY <1>1, <1>2, MetaKept

(* What a pool prices is never a stable, and what it is priced in is       *)
(* always WETH or a stable, whatever the registry calls its tokens and     *)
(* however the chain orders them.                                          *)
THEOREM MoneyPrices == Spec => []PricedInMoney
  <1>1. TypeInv => TypeOK
    BY DEF TypeInv
  <1>2. MetaInv => PricedInMoney
    BY DEF MetaInv, IsMeta, PricedInMoney
  <1>3. QED
    BY <1>1, <1>2, TypeInit, TypeStep, MetaInit, MetaStep, PTL DEF Spec

-----------------------------------------------------------------------------
(* The prices.                                                             *)

LEMMA PositivePrice ==
    ASSUME NEW r \in Nat \X Nat, Positive(r)
    PROVE  r # NoPrice /\ r[1] \in Nat /\ r[2] \in Nat
  BY DEF Positive, NoPrice

(* A price is near itself.                                                 *)
LEMMA NearItself ==
    ASSUME NEW x \in Nat \X Nat, Positive(x)
    PROVE  Near(x, x)
  <1> DEFINE a == x[1]
             b == x[2]
  <1>1. a \in Nat /\ b \in Nat /\ a > 0 /\ b > 0
    BY DEF Positive
  <1>2. Times(x, x) = a * b
    BY DEF Times
  <1> HIDE DEF a, b
  <1>3. a * b \in Nat /\ a * b > 0
    BY <1>1
  <1>4. Gap(x, x) = 0
    BY <1>2, <1>3 DEF Gap
  <1>5. Tick * 0 = 0
    BY Constants
  <1>6. QED
    BY <1>2, <1>3, <1>4, <1>5 DEF Near

LEMMA NoSnapshot ==
    ASSUME NEW m
    PROVE  Snapshot(m, NoPrice) = NoPrice
  BY DEF Snapshot, NoPrice

LEMMA PricesInit == Init => PricesInv
  <1> SUFFICES ASSUME Init, NEW p \in DOMAIN meta, Init => TypeInv PROVE PriceInv(p)
    BY TypeInit DEF PricesInv
  <1>1. p \in Pools
    BY DEF TypeInv, TypeOK
  <1>2. /\ lastPrice[p] = NoPrice /\ latest[p] = NoPrice
        /\ spot[p] = <<NoPrice, NoPrice>> /\ pc = "adjust"
    BY <1>1 DEF Init
  <1>3. QED
    BY <1>2, NoSnapshot DEF PriceInv

(* A step that leaves the prices and the metadata as they are, and neither *)
(* starts nor ends the sending of a quote.                                 *)
LEMMA PricesKept ==
    ASSUME PricesInv, UNCHANGED <<meta, lastPrice, latest, spot>>,
           pc' = "adjust" => pc = "adjust",
           \/ pc # "spot" /\ pc' # "spot"
           \/ UNCHANGED <<pc, event>>
    PROVE  PricesInv'
  <1> SUFFICES ASSUME NEW p \in DOMAIN meta PROVE PriceInv(p)'
    BY DEF PricesInv
  <1>1. PriceInv(p)
    BY DEF PricesInv
  <1>2. QED
    BY <1>1 DEF PriceInv

LEMMA AdjustPrices ==
    ASSUME PricesInv, AdjustOrder
    PROVE  PricesInv'
  <1>1. /\ pc = "adjust" /\ pc' = "dial" /\ DOMAIN meta' = DOMAIN meta
        /\ lastPrice' = lastPrice /\ latest' = latest /\ spot' = spot
    BY DEF AdjustOrder, priceVars
  <1>2. SUFFICES ASSUME NEW p \in DOMAIN meta PROVE PriceInv(p)'
    BY <1>1 DEF PricesInv
  <1>3. /\ lastPrice[p] = NoPrice /\ latest[p] = NoPrice
        /\ spot[p] = <<NoPrice, NoPrice>>
    BY <1>1 DEF PricesInv, PriceInv
  <1>4. QED
    BY <1>1, <1>3, NoSnapshot DEF PriceInv

LEMMA FramePrices ==
    ASSUME TypeInv, PricesInv, TakeFrame
    PROVE  PricesInv'
  <1> DEFINE f == Head(ses[session].buf)
             q == f.pool
             x == Snapshot(meta[q], f.reserves)
  <1>1. /\ pc = "select" /\ ses[session].buf # <<>> /\ HandleRaw(f)
        /\ meta' = meta /\ spot' = spot
    BY DEF TakeFrame
  <1>2. TypeOK /\ f \in Frames
    BY <1>1, TakenConnection, Numbers DEF TypeInv, RunInv, Streaming
  <1>3. CASE Ignores
    BY <1>1, <1>3, PricesKept DEF Ignores
  <1>4. CASE /\ q \in DOMAIN meta /\ q \in Pools
             /\ Positive(f.reserves) /\ f.reserves \in Nat \X Nat
             /\ x \in Nat \X Nat /\ Positive(x)
             /\ Drops(f) \/ Quotes(f)
    <2>1. SUFFICES ASSUME NEW p \in DOMAIN meta PROVE PriceInv(p)'
      BY <1>1 DEF PricesInv
    <2>2. p \in Pools /\ PriceInv(p)
      BY <1>2 DEF TypeOK, PricesInv
    <2>3. lastPrice \in [Pools -> Nat \X Nat] /\ latest \in [Pools -> Nat \X Nat]
      BY <1>2 DEF TypeOK
    <2>4. latest'[q] = f.reserves /\ (p # q => latest'[p] = latest[p])
      BY <1>4, <2>2, <2>3 DEF Drops, Quotes
    <2>5. f.reserves # NoPrice
      BY <1>4, PositivePrice
    <2> HIDE DEF q, x, f
    <2>6. CASE p # q /\ Drops(f)
      BY <1>1, <2>2, <2>4, <2>6 DEF Drops, PriceInv
    <2>7. CASE p # q /\ Quotes(f)
      <3>1. lastPrice'[p] = lastPrice[p] /\ pc' = "spot" /\ event'.pool # p
        BY <2>2, <2>3, <2>7 DEF Quotes, q
      <3>2. QED
        BY <1>1, <2>2, <2>4, <2>7, <3>1 DEF PriceInv
    <2>8. CASE p = q /\ Drops(f)
      <3>1. /\ lastPrice' = lastPrice /\ pc' = pc /\ event' = event
            /\ lastPrice[q] # NoPrice /\ Near(x, lastPrice[q])
        BY <2>8 DEF Drops, q, x
      <3>2. Positive(lastPrice[q])
        BY <2>2, <2>8, <3>1 DEF PriceInv
      <3>3. spot[q][1] = lastPrice[q] /\ spot[q][1] = Snapshot(meta[q], spot[q][2])
        BY <1>1, <2>2, <2>8 DEF PriceInv
      <3>4. Near(Snapshot(meta'[q], latest'[q]), lastPrice'[q])
        BY <1>1, <2>4, <3>1 DEF x
      <3>5. Positive(latest'[q]) /\ Positive(lastPrice'[q]) /\ latest'[q] # NoPrice
        BY <1>4, <2>4, <2>5, <3>1, <3>2
      <3>6. QED
        BY <1>1, <2>8, <3>1, <3>3, <3>4, <3>5 DEF PriceInv
    <2>9. CASE p = q /\ Quotes(f)
      <3>1. lastPrice'[q] = x /\ pc' = "spot" /\ event' = f
        BY <1>4, <2>3, <2>9 DEF Quotes, q, x
      <3>2. spot[q][1] = Snapshot(meta[q], spot[q][2])
        BY <2>2, <2>9 DEF PriceInv
      <3>3. Positive(latest'[q]) /\ Positive(lastPrice'[q]) /\ latest'[q] # NoPrice
        BY <1>4, <2>4, <2>5, <3>1
      <3>4. Snapshot(meta'[q], latest'[q]) = lastPrice'[q]
        BY <1>1, <2>4, <3>1 DEF x
      <3>5. event'.pool = q /\ lastPrice'[q] = Snapshot(meta'[q], event'.reserves)
        BY <1>1, <3>1 DEF x, q
      <3>6. QED
        BY <1>1, <2>9, <3>1, <3>2, <3>3, <3>4, <3>5 DEF PriceInv
    <2>10. QED
      BY <1>4, <2>6, <2>7, <2>8, <2>9
  <1>5. QED
    BY <1>1, <1>2, <1>3, <1>4, HandleRawCases

LEMMA QuotePrices ==
    ASSUME TypeInv, PricesInv, SendSpot
    PROVE  PricesInv'
  <1> DEFINE q == event.pool
             x == Snapshot(meta[q], event.reserves)
  <1>1. /\ pc = "spot" /\ pc' = "update"
        /\ spot' = [spot EXCEPT ![q] = <<x, event.reserves>>]
        /\ UNCHANGED <<meta, lastPrice, latest, event>>
    BY DEF SendSpot, OnlyPublish
  <1>2. SUFFICES ASSUME NEW p \in DOMAIN meta PROVE PriceInv(p)'
    BY <1>1 DEF PricesInv
  <1>3. p \in Pools /\ PriceInv(p) /\ DOMAIN spot = Pools
    BY DEF TypeInv, TypeOK, PricesInv
  <1>4. CASE p = q
    <2>1. lastPrice[p] = x
      BY <1>1, <1>3, <1>4 DEF PriceInv
    <2>2. spot'[p][1] = x /\ spot'[p][2] = event.reserves
      BY <1>1, <1>3, <1>4
    <2>3. spot'[p][1] = Snapshot(meta'[p], spot'[p][2]) /\ spot'[p][1] = lastPrice'[p]
      BY <1>1, <1>4, <2>1, <2>2
    <2> HIDE DEF q, x
    <2>4. QED
      BY <1>1, <1>3, <2>3 DEF PriceInv
  <1>5. CASE p # q
    BY <1>1, <1>3, <1>5 DEF PriceInv
  <1>6. QED
    BY <1>4, <1>5

LEMMA PricesStep == TypeInv /\ PricesInv /\ [Next]_vars => PricesInv'
  <1> SUFFICES ASSUME TypeInv, PricesInv, [Next]_vars PROVE PricesInv'
    OBVIOUS
  <1>1. CASE Dial \/ Subscribe \/ Sleep \/ StreamCancelled \/ ReaderEnded
    BY <1>1, PricesKept DEF Dial, Subscribe, Sleep, StreamCancelled, ReaderEnded, priceVars
  <1>2. CASE UpdatePair \/ SendUSD
    BY <1>2, PricesKept DEF UpdatePair, SendUSD, OnlyPublish
  <1>3. CASE \E s \in Sessions : ReadFrame(s) \/ ReadError(s) \/ Push(s) \/ PingerEnds(s)
    BY <1>3, PricesKept DEF ReadFrame, ReadError, Push, PingerEnds, OnlySession, priceVars
  <1>4. CASE (\E p \in Pools : OtherUpdate(p)) \/ Break \/ Cancel \/ UNCHANGED vars
    BY <1>4, PricesKept DEF OtherUpdate, Break, Cancel, OnlySession, vars, priceVars
  <1>5. QED
    BY <1>1, <1>2, <1>3, <1>4, AdjustPrices, FramePrices, QuotePrices DEF Next, RunStep

(* The dropped prices of a pool do not add up: between events its last     *)
(* quote is within a Tick-th of what its last event said.                  *)
THEOREM NoDriftEver == Spec => []NoDrift
  <1>1. ASSUME TypeInv, PricesInv PROVE NoDrift
    <2> SUFFICES ASSUME pc = "select", NEW p \in DOMAIN meta, latest[p] # NoPrice
                 PROVE  Near(Snapshot(meta[p], latest[p]), spot[p][1])
      BY DEF NoDrift
    <2>1. /\ spot[p][1] = lastPrice[p] /\ Positive(lastPrice[p])
          /\ \/ Snapshot(meta[p], latest[p]) = lastPrice[p]
             \/ Near(Snapshot(meta[p], latest[p]), lastPrice[p])
      BY <1>1 DEF PricesInv, PriceInv
    <2>2. lastPrice[p] \in Nat \X Nat
      BY <1>1 DEF TypeInv, TypeOK
    <2>3. QED
      BY <2>1, <2>2, NearItself
  <1>2. QED
    BY <1>1, TypeInit, TypeStep, PricesInit, PricesStep, PTL DEF Spec

(* A pool whose order the chain confirmed is quoted the right way round    *)
(* for the name of its quotes.                                             *)
THEOREM RightWayRound == Spec => []Oriented
  <1>1. ASSUME TypeOK, MetaInv, PricesInv PROVE Oriented
    <2> SUFFICES ASSUME NEW p \in verified
                 PROVE  spot[p][1] = TruePrice(p, spot[p][2])
      BY DEF Oriented
    <2>1. p \in DOMAIN meta /\ p \in Pools /\ IsMeta(meta[p]) /\ Addrs(meta[p]) = Chain[p]
      BY <1>1 DEF MetaInv, TypeOK
    <2>2. spot[p][1] = Snapshot(meta[p], spot[p][2])
      BY <1>1, <2>1 DEF PricesInv, PriceInv
    <2>3. /\ Chain[p][1] = meta[p].tokens[1].addr /\ Chain[p][2] = meta[p].tokens[2].addr
          /\ Chain[p][1] # Chain[p][2]
      BY <2>1, V2Assumption DEF Addrs
    <2>4. meta[p].named = Chain[p][1] <=> meta[p].base0
      BY <2>1, <2>3 DEF IsMeta, Base
    <2>5. QED
      BY <2>2, <2>4 DEF Snapshot, TruePrice
  <1>2. TypeInv => TypeOK
    BY DEF TypeInv
  <1>3. QED
    BY <1>1, <1>2, TypeInit, TypeStep, MetaInit, MetaStep, PricesInit, PricesStep, PTL DEF Spec

-----------------------------------------------------------------------------
LEMMA GraphInit == Init => GraphInv
  BY DEF Init, GraphInv, UsdHasEvent

LEMMA GraphStep == TypeInv /\ GraphInv /\ [Next]_vars => GraphInv'
  <1> SUFFICES ASSUME TypeInv, GraphInv, [Next]_vars PROVE GraphInv'
    OBVIOUS
  <1>1. /\ graph \in [Pools -> {"none", "old", "own", "other"}]
        /\ usd \in [Pools -> {"none", "old", "own", "other"}]
        /\ Handling => event.pool \in Pools
    BY DEF TypeInv, TypeOK, EventInv
  <1>2. CASE AdjustOrder \/ Dial \/ Subscribe \/ Sleep \/ StreamCancelled \/ ReaderEnded
    BY <1>2 DEF AdjustOrder, Dial, Subscribe, Sleep, StreamCancelled, ReaderEnded, pricerVars,
                GraphInv, UsdHasEvent
  <1>3. CASE TakeFrame
    BY <1>3 DEF TakeFrame, HandleRaw, GraphInv, UsdHasEvent
  <1>4. CASE SendSpot
    BY <1>4 DEF SendSpot, pricerVars, GraphInv, UsdHasEvent
  <1>5. CASE UpdatePair
    BY <1>1, <1>5 DEF UpdatePair, Handling, GraphInv, UsdHasEvent
  <1>6. CASE SendUSD
    <2>1. /\ pc \in {"usd0", "usd1"} /\ graph' = graph
          /\ pc' = "select" \/ event' = event
          /\ usd' \in {usd, [usd EXCEPT ![event.pool] = graph[event.pool]]}
      BY <1>6 DEF SendUSD
    <2>2. event.pool \in Pools /\ graph[event.pool] # "old"
      BY <1>1, <2>1 DEF Handling, GraphInv
    <2>3. UsdHasEvent'
      BY <1>1, <2>1, <2>2 DEF GraphInv, UsdHasEvent
    <2>4. QED
      BY <2>1, <2>3 DEF GraphInv
  <1>7. CASE \E s \in Sessions : ReadFrame(s) \/ ReadError(s) \/ Push(s) \/ PingerEnds(s)
    BY <1>7 DEF ReadFrame, ReadError, Push, PingerEnds, OnlySession, priceVars, pricerVars,
                GraphInv, UsdHasEvent
  <1>8. CASE \E p \in Pools : OtherUpdate(p)
    BY <1>1, <1>8 DEF OtherUpdate, priceVars, Handling, GraphInv, UsdHasEvent
  <1>9. CASE Break \/ Cancel \/ UNCHANGED vars
    BY <1>9 DEF Break, Cancel, OnlySession, vars, priceVars, pricerVars, GraphInv, UsdHasEvent
  <1>10. QED
    BY <1>2, <1>3, <1>4, <1>5, <1>6, <1>7, <1>8, <1>9 DEF Next, RunStep

(* No USD quote of an event comes from a graph that lacks the event.       *)
THEOREM UsdAfterEvent == Spec => []UsdHasEvent
  <1>1. GraphInv => UsdHasEvent
    BY DEF GraphInv
  <1>2. QED
    BY <1>1, TypeInit, TypeStep, GraphInit, GraphStep, PTL DEF Spec
=============================================================================
