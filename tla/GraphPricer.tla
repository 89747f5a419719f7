----------------------------- MODULE GraphPricer -----------------------------
(***************************************************************************)
(* internal/dex/pricing/graph_pricer.go: the graph of pair prices that the *)
(* DEX connectors share, and the search for a route from a token to a USD  *)
(* stablecoin.                                                             *)
(*                                                                         *)
(* The connectors are goroutines: UpdatePair takes the write lock three    *)
(* times (a token, the other token, the edges), ResolveUSD holds the read  *)
(* lock for the whole search, so that searches run side by side and no     *)
(* edge changes under them.  The search is modelled step by step, because  *)
(* Go iterates over a map of neighbours in an arbitrary order.             *)
(*                                                                         *)
(* A token is its address.  A price is an abstract value with an inverse;  *)
(* the price of a route is the product along it and is represented by the  *)
(* route itself.  Weights are natural numbers, in units in which           *)
(* equalWeightEpsilon is Epsilon and minWeightEpsilon is MinWeight.        *)
(***************************************************************************)
EXTENDS Naturals, Sequences, FiniteSets

CONSTANTS
    Tokens,         (* token addresses                                      *)
    InitStables,    (* the anchors NewGraphPricer registers                 *)
    Updaters,       (* goroutines that call UpdatePair                      *)
    Readers,        (* goroutines that call ResolveUSD                      *)
    Prices,         (* positive finite prices                               *)
    Overflow,       (* stands for an inverse that is not finite             *)
    InverseOf,      (* function: 1/p, or Overflow                           *)
    Weights,        (* what callers pass as weight; 0 for every bad value   *)
    MinWeight,      (* the weight that replaces a bad one                   *)
    TopWeight,      (* math.MaxFloat64                                      *)
    Epsilon,        (* equalWeightEpsilon                                   *)
    MaxTime,        (* timestamps are 1..MaxTime, 0 is the zero time.Time   *)
    MaxHops,        (* defaultMaxHops                                       *)
    NoEdge,         (* no entry in the map                                  *)
    MaxUpdates      (* bound on the calls of UpdatePair of a behaviour      *)

ASSUME PricerAssumption ==
    /\ InitStables \subseteq Tokens
    /\ Overflow \notin Prices
    /\ InverseOf \in [Prices -> Prices \cup {Overflow}]
    /\ \A p \in Prices : InverseOf[p] # Overflow => InverseOf[InverseOf[p]] = p
    /\ Weights \subseteq Nat
    /\ MinWeight \in Nat \ {0}
    /\ TopWeight \in Nat \ {0}
    /\ \A w \in Weights \cup {MinWeight} : w <= TopWeight
    /\ Epsilon \in Nat
    /\ MaxTime \in Nat \ {0}
    /\ MaxHops \in Nat \ {0}
    /\ MaxUpdates \in Nat

Edge == [price : Prices, weight : Nat \ {0}, updatedAt : 1..MaxTime]

ASSUME NoEdgeAssumption == NoEdge \notin Edge

VARIABLES
    edges,      (* edges[a][b]: the price of a in units of b, or NoEdge     *)
    symbols,    (* tokens with a display symbol                             *)
    stables,    (* tokens that are USD anchors                              *)
    upc,        (* per updater: "idle", "tokenA", "tokenB" or "edges"       *)
    arg,        (* per updater: the arguments of its call                   *)
    updates,    (* number of UpdatePair calls so far                        *)
    tainted,    (* history: pairs with a price whose inverse overflowed     *)
    rpc,        (* per reader: "idle" or "search"                           *)
    source,     (* per reader: the token it resolves                        *)
    queue,      (* per reader: the breadth-first queue                      *)
    cur,        (* per reader: the item being expanded                      *)
    todo,       (* per reader: neighbours of cur not looked at yet          *)
    visited,    (* per reader: what the search knows of each token          *)
    best        (* per reader: the candidate result                         *)

graphVars  == <<edges, symbols, stables>>
updateVars == <<upc, arg, updates, tainted>>
searchVars == <<rpc, source, queue, cur, todo, visited, best>>
vars == <<graphVars, updateVars, searchVars>>

-----------------------------------------------------------------------------
Call == [a : Tokens, b : Tokens, price : Prices, weight : Nat \ {0}, ts : 1..MaxTime]

(* A queue item: the path with the smallest weight and the oldest          *)
(* timestamp along it.  Its address is the last token of the path, its     *)
(* hops are the edges of the path.                                         *)
Item == [path : Seq(Tokens), weight : Nat, fresh : 0..MaxTime]

Addr(i) == i.path[Len(i.path)]
Hops(i) == Len(i.path) - 1

NoItem   == [path |-> <<>>, weight |-> 0, fresh |-> 0]
NotSeen  == [weight |-> 0, hops |-> 0]
NoResult == [found |-> FALSE, path |-> <<>>, weight |-> 0, fresh |-> 0]

Neighbours(t) == {n \in Tokens : edges[t][n] # NoEdge}

(* The write lock waits until no search holds the read lock.               *)
Unlocked == \A r \in Readers : rpc[r] = "idle"

-----------------------------------------------------------------------------
Init ==
    /\ edges = [a \in Tokens |-> [b \in Tokens |-> NoEdge]]
    /\ symbols = InitStables
    /\ stables = InitStables
    /\ upc = [u \in Updaters |-> "idle"]
    /\ arg = [u \in Updaters |-> NoItem]
    /\ updates = 0
    /\ tainted = {}
    /\ rpc = [r \in Readers |-> "idle"]
    /\ source = [r \in Readers |-> NoItem]
    /\ queue = [r \in Readers |-> <<>>]
    /\ cur = [r \in Readers |-> NoItem]
    /\ todo = [r \in Readers |-> {}]
    /\ visited = [r \in Readers |-> [t \in Tokens |-> NotSeen]]
    /\ best = [r \in Readers |-> NoResult]

(* RegisterStable: an anchor may be added at any time.                     *)
RegisterStable(t) ==
    /\ Unlocked
    /\ symbols' = symbols \cup {t}
    /\ stables' = stables \cup {t}
    /\ UNCHANGED <<edges, updateVars, searchVars>>

(* Mutant: a bad weight is passed on.                                      *)
UpdatePairAnyWeight(u, a, b, p, w, ts) ==
    /\ upc[u] = "idle"
    /\ a # b
    /\ updates < MaxUpdates
    /\ arg' = [arg EXCEPT ![u] = [a |-> a, b |-> b, price |-> p, weight |-> w, ts |-> ts]]
    /\ upc' = [upc EXCEPT ![u] = "tokenA"]
    /\ updates' = updates + 1
    /\ UNCHANGED <<graphVars, tainted, searchVars>>

(* UpdatePair up to its first lock.  A call with a bad price returns at    *)
(* once and is no step; a bad weight (0 here) is replaced.  The two tokens *)
(* of a pool differ.                                                       *)
UpdatePair(u, a, b, p, w, ts) ==
    /\ upc[u] = "idle"
    /\ a # b
    /\ updates < MaxUpdates
    /\ arg' = [arg EXCEPT ![u] =
                  [a |-> a, b |-> b, price |-> p,
                   weight |-> IF w = 0 THEN MinWeight ELSE w, ts |-> ts]]
    /\ upc' = [upc EXCEPT ![u] = "tokenA"]
    /\ updates' = updates + 1
    /\ UNCHANGED <<graphVars, tainted, searchVars>>

(* Mutant: only the first token of the pair is registered.                 *)
RegisterOnlyA(u) ==
    /\ upc[u] = "tokenA"
    /\ Unlocked
    /\ symbols' = symbols \cup {arg[u].a}
    /\ upc' = [upc EXCEPT ![u] = "edges"]
    /\ UNCHANGED <<edges, stables, arg, updates, tainted, searchVars>>

RegisterTokenA(u) ==
    /\ upc[u] = "tokenA"
    /\ Unlocked
    /\ symbols' = symbols \cup {arg[u].a}
    /\ upc' = [upc EXCEPT ![u] = "tokenB"]
    /\ UNCHANGED <<edges, stables, arg, updates, tainted, searchVars>>

RegisterTokenB(u) ==
    /\ upc[u] = "tokenB"
    /\ Unlocked
    /\ symbols' = symbols \cup {arg[u].b}
    /\ upc' = [upc EXCEPT ![u] = "edges"]
    /\ UNCHANGED <<edges, stables, arg, updates, tainted, searchVars>>

(* setEdgeLocked keeps the current edge only if the new quote is neither   *)
(* newer nor heavier.                                                      *)
Superseded(e, weight, ts) ==
    e # NoEdge /\ ts <= e.updatedAt /\ weight <= e.weight + Epsilon

SetEdge(e, price, weight, ts) ==
    IF Superseded(e, weight, ts) THEN e
    ELSE [price |-> price, weight |-> weight, updatedAt |-> ts]

(* Mutant: the reverse edge gets the price of the forward one.             *)
WithPairNoInverse(a, b, p, w, ts) ==
    [edges EXCEPT ![a][b] = SetEdge(@, p, w, ts),
                  ![b][a] = IF InverseOf[p] = Overflow THEN @
                            ELSE SetEdge(@, p, w, ts)]

(* Both directions under one lock; a price too small to have a finite      *)
(* inverse sets the forward direction only.                                *)
WithPair(a, b, p, w, ts) ==
    [edges EXCEPT ![a][b] = SetEdge(@, p, w, ts),
                  ![b][a] = IF InverseOf[p] = Overflow THEN @
                            ELSE SetEdge(@, InverseOf[p], w, ts)]

SetEdges(u) ==
    /\ upc[u] = "edges"
    /\ Unlocked
    /\ LET c == arg[u]
       IN  /\ edges' = WithPair(c.a, c.b, c.price, c.weight, c.ts)
           /\ tainted' = IF InverseOf[c.price] = Overflow
                         THEN tainted \cup {{c.a, c.b}} ELSE tainted
    /\ upc' = [upc EXCEPT ![u] = "idle"]
    /\ arg' = [arg EXCEPT ![u] = NoItem]
    /\ UNCHANGED <<symbols, stables, updates, searchVars>>

-----------------------------------------------------------------------------
(* ResolveUSD of an anchor answers price 1 and releases the lock at once:  *)
(* it leaves no trace here.  For any other token the search begins.        *)
StartSearch(r, t) ==
    /\ rpc[r] = "idle"
    /\ t \notin stables
    /\ rpc' = [rpc EXCEPT ![r] = "search"]
    /\ source' = [source EXCEPT ![r] = t]
    /\ queue' = [queue EXCEPT ![r] =
                    << [path |-> <<t>>, weight |-> TopWeight, fresh |-> 0] >>]
    /\ visited' = [visited EXCEPT ![r] =
                    [n \in Tokens |-> IF n = t THEN [weight |-> TopWeight, hops |-> 0]
                                      ELSE NotSeen]]
    /\ UNCHANGED <<graphVars, updateVars, cur, todo, best>>

Pop(r) ==
    /\ rpc[r] = "search"
    /\ todo[r] = {}
    /\ queue[r] # <<>>
    /\ cur' = [cur EXCEPT ![r] = Head(queue[r])]
    /\ queue' = [queue EXCEPT ![r] = Tail(queue[r])]
    /\ todo' = [todo EXCEPT ![r] = Neighbours(Addr(Head(queue[r])))]
    /\ UNCHANGED <<graphVars, updateVars, rpc, source, visited, best>>

Lighter(w1, w2) == IF w1 <= w2 THEN w1 ELSE w2

(* Mutant: the weight of the last edge instead of the smallest one.        *)
ExtendLastWeight(i, n) ==
    LET e == edges[Addr(i)][n]
    IN  [path   |-> Append(i.path, n),
         weight |-> e.weight,
         fresh  |-> IF i.fresh # 0 /\ i.fresh < e.updatedAt THEN i.fresh ELSE e.updatedAt]

(* The path of an item, one edge longer.                                   *)
Extend(i, n) ==
    LET e == edges[Addr(i)][n]
    IN  [path   |-> Append(i.path, n),
         weight |-> Lighter(i.weight, e.weight),
         fresh  |-> IF i.fresh # 0 /\ i.fresh < e.updatedAt THEN i.fresh ELSE e.updatedAt]

About(w1, w2) == w1 <= w2 + Epsilon /\ w2 <= w1 + Epsilon

(* Mutant: a token is visited once, as in a plain breadth-first search.    *)
ShouldVisitOnce(prev, weight, hops) == prev = NotSeen

ShouldVisit(prev, weight, hops) ==
    \/ prev = NotSeen
    \/ weight > prev.weight + Epsilon
    \/ About(weight, prev.weight) /\ hops < prev.hops

(* Mutant: the age of a candidate is ignored.                              *)
BetterCandidateAnyAge(old, new) ==
    \/ ~old.found
    \/ new.weight > old.weight + Epsilon

BetterCandidate(old, new) ==
    \/ ~old.found
    \/ new.weight > old.weight + Epsilon
    \/ About(new.weight, old.weight) /\ new.fresh > old.fresh

(* One neighbour of the current item: an anchor competes for the result    *)
(* and is not passed through, any other token may be queued.               *)
VisitStable(r, n) ==
    LET i == Extend(cur[r], n)
    IN  /\ n \in stables
        /\ best' = IF BetterCandidate(best[r], i)
                   THEN [best EXCEPT ![r] = [found |-> TRUE, path |-> i.path,
                                             weight |-> i.weight, fresh |-> i.fresh]]
                   ELSE best
        /\ UNCHANGED <<visited, queue>>

VisitToken(r, n) ==
    LET i == Extend(cur[r], n)
    IN  /\ n \notin stables
        /\ IF Hops(i) < MaxHops /\ ShouldVisit(visited[r][n], i.weight, Hops(i))
           THEN /\ visited' = [visited EXCEPT ![r][n] = [weight |-> i.weight, hops |-> Hops(i)]]
                /\ queue' = [queue EXCEPT ![r] = Append(@, i)]
           ELSE UNCHANGED <<visited, queue>>
        /\ UNCHANGED best

Visit(r, n) ==
    /\ rpc[r] = "search"
    /\ n \in todo[r]
    /\ todo' = [todo EXCEPT ![r] = @ \ {n}]
    /\ VisitStable(r, n) \/ VisitToken(r, n)
    /\ UNCHANGED <<graphVars, updateVars, rpc, source, cur>>

(* The queue is empty: the candidate is the answer, the lock is released,  *)
(* and the locals of the search are gone.                                  *)
Exhausted(r) == rpc[r] = "search" /\ todo[r] = {} /\ queue[r] = <<>>

Return(r) ==
    /\ Exhausted(r)
    /\ rpc' = [rpc EXCEPT ![r] = "idle"]
    /\ source' = [source EXCEPT ![r] = NoItem]
    /\ cur' = [cur EXCEPT ![r] = NoItem]
    /\ visited' = [visited EXCEPT ![r] = [t \in Tokens |-> NotSeen]]
    /\ best' = [best EXCEPT ![r] = NoResult]
    /\ UNCHANGED <<graphVars, updateVars, queue, todo>>

-----------------------------------------------------------------------------
UpdaterStep(u) ==
    \/ \E a \in Tokens, b \in Tokens, p \in Prices, w \in Weights, ts \in 1..MaxTime :
          UpdatePair(u, a, b, p, w, ts)
    \/ RegisterTokenA(u)
    \/ RegisterTokenB(u)
    \/ SetEdges(u)

ReaderStep(r) ==
    \/ \E t \in Tokens : StartSearch(r, t)
    \/ Pop(r)
    \/ \E n \in Tokens : Visit(r, n)
    \/ Return(r)

Next ==
    \/ \E t \in Tokens : RegisterStable(t)
    \/ \E u \in Updaters : UpdaterStep(u)
    \/ \E r \in Readers : ReaderStep(r)

Spec == Init /\ [][Next]_vars

-----------------------------------------------------------------------------
TypeOK ==
    /\ edges \in [Tokens -> [Tokens -> Edge \cup {NoEdge}]]
    /\ symbols \in SUBSET Tokens
    /\ stables \in SUBSET Tokens
    /\ upc \in [Updaters -> {"idle", "tokenA", "tokenB", "edges"}]
    /\ arg \in [Updaters -> Call \cup {NoItem}]
    /\ updates \in Nat
    /\ tainted \in SUBSET SUBSET Tokens
    /\ rpc \in [Readers -> {"idle", "search"}]
    /\ source \in [Readers -> Tokens \cup {NoItem}]
    /\ queue \in [Readers -> Seq(Item)]
    /\ cur \in [Readers -> Item]
    /\ todo \in [Readers -> SUBSET Tokens]
    /\ visited \in [Readers -> [Tokens -> [weight : Nat, hops : Nat]]]
    /\ best \in [Readers -> [found : BOOLEAN, path : Seq(Tokens), weight : Nat,
                             fresh : 0..MaxTime]]

(* The two directions of a pair are one quote: both are there with the     *)
(* same weight and time and inverse prices, or neither is, whatever the    *)
(* connectors do at the same time.  Pairs that ever had a price without a  *)
(* finite inverse are excepted: there the two directions drift apart       *)
(* (graph_pricer.go:214-221).                                              *)
Reciprocal ==
    \A a, b \in Tokens :
        edges[a][b] # NoEdge /\ {a, b} \notin tainted =>
            /\ edges[b][a] # NoEdge
            /\ edges[b][a].price = InverseOf[edges[a][b].price]
            /\ edges[b][a].weight = edges[a][b].weight
            /\ edges[b][a].updatedAt = edges[a][b].updatedAt

(* Every token a route can mention has a symbol: tokens are registered     *)
(* before the edges that name them (graph_pricer.go:211-217, 301).         *)
EdgesRegistered ==
    \A a, b \in Tokens : edges[a][b] # NoEdge => {a, b} \subseteq symbols

IsRoute(p) ==
    /\ Len(p) > 1
    /\ Len(p) <= MaxHops + 1
    /\ \A i \in 1..(Len(p) - 1) : edges[p[i]][p[i + 1]] # NoEdge /\ p[i] \notin stables
    /\ p[Len(p)] \in stables

(* Reference definition: all routes from a token to an anchor.             *)
RoutesFrom(t) ==
    {p \in UNION {[1..n -> Tokens] : n \in 2..(MaxHops + 1)} : p[1] = t /\ IsRoute(p)}

EdgesOf(p) == {edges[p[i]][p[i + 1]] : i \in 1..(Len(p) - 1)}

(* A candidate is a route of the graph as it is, with the weight of its    *)
(* lightest and the time of its oldest edge.                               *)
CandidateSound ==
    \A r \in Readers :
        rpc[r] = "search" /\ best[r].found =>
            /\ best[r].path[1] = source[r]
            /\ IsRoute(best[r].path)
            /\ \A e \in EdgesOf(best[r].path) :
                  best[r].weight <= e.weight /\ best[r].fresh <= e.updatedAt
            /\ \E e \in EdgesOf(best[r].path) : best[r].weight = e.weight
            /\ \E e \in EdgesOf(best[r].path) : best[r].fresh = e.updatedAt

(* The search answers exactly when there is a route, and with the heaviest *)
(* bottleneck of all routes, in whatever order the neighbours were visited *)
(* (exact for Epsilon = 0; graph_pricer.go:266-329).                       *)
HeaviestRoute ==
    \A r \in Readers :
        Exhausted(r) =>
            /\ best[r].found <=> RoutesFrom(source[r]) # {}
            /\ \A p \in RoutesFrom(source[r]) :
                  \E e \in EdgesOf(p) : e.weight <= best[r].weight

(* Among the anchors the token trades against directly, one whose pair is  *)
(* as heavy as the answer is not fresher than the answer (exact for        *)
(* Epsilon = 0).  Over several hops this does not hold: a stale edge can   *)
(* hide a fresh one (graph_pricer.go:357, graph_pricer_test.go:54).        *)
FreshestDirect ==
    \A r \in Readers :
        Exhausted(r) =>
            \A s \in stables \cap Neighbours(source[r]) :
                LET e == edges[source[r]][s]
                IN  e.weight = best[r].weight => e.updatedAt <= best[r].fresh

(* The comment on ResolveUSD: the route is a shortest one.                 *)
ShortestRoute ==
    \A r \in Readers :
        Exhausted(r) =>
            \A p \in RoutesFrom(source[r]) : Len(best[r].path) <= Len(p)
=============================================================================
