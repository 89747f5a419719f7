-------------------------- MODULE GraphSearchProofs --------------------------
(***************************************************************************)
(* What a search of GraphPricer answers once it is over, for every graph,  *)
(* every order in which neighbours are visited, and any limit of hops.     *)
(***************************************************************************)
EXTENDS GraphPricerProofs, WellFoundedInduction

(* The weights that occur, and what the two theorems assume of them: two   *)
(* of them are equal, or apart by more than equalWeightEpsilon.  With an   *)
(* exact comparison (Epsilon = 0) nothing is assumed (ExactSeparated).     *)
Known == (Weights \ {0}) \cup {MinWeight, TopWeight}

Separated == \A v, w \in Known : v < w => v + Epsilon < w

KnownInv ==
    /\ \A a, b \in Tokens : edges[a][b] # NoEdge => edges[a][b].weight \in Known
    /\ \A u \in Updaters : upc[u] # "idle" => arg[u].weight \in Known

-----------------------------------------------------------------------------
(* A search under way: vis is what it knows of the tokens, q its queue, c  *)
(* the item being expanded, td the neighbours of c still to come, b the    *)
(* candidate, G the graph.                                                 *)

Labels(vis, src) ==
    /\ vis[src] = [weight |-> TopWeight, hops |-> 0]
    /\ \A t \in Tokens : vis[t] # NotSeen => vis[t].weight \in Known

(* The search is breadth-first: it meets tokens in the order of hops.      *)
Levels(q, c, td, vis) ==
    /\ \A k, l \in 1..Len(q) : /\ k <= l => Hops(q[k]) <= Hops(q[l])
                               /\ Hops(q[l]) <= Hops(q[k]) + 1
    /\ \A k \in 1..Len(q), t \in Tokens : vis[t].hops <= Hops(q[k]) + 1
    /\ td # {} =>
          /\ \A k \in 1..Len(q) : Hops(c) <= Hops(q[k]) /\ Hops(q[k]) <= Hops(c) + 1
          /\ \A t \in Tokens : vis[t].hops <= Hops(c) + 1

(* w is at least as heavy as the way along p to its j-th token.            *)
AsHeavy(G, w, p, j) ==
    w = TopWeight \/ \E i \in 1..(j - 1) : G[p[i]][p[i + 1]].weight <= w

(* The search knows a way to the j-th token of p as good as p itself.      *)
Reached(G, v, p, j) == v # NotSeen /\ v.hops < j /\ AsHeavy(G, v.weight, p, j)

(* Item x ends at the j-th token of p and is as good a way to it as p.     *)
Leads(G, x, p, j) == Addr(x) = p[j] /\ Hops(x) < j /\ AsHeavy(G, x.weight, p, j)

(* The search has yet to follow p from its j-th token on.                  *)
Waits(G, q, c, td, p, j) ==
    \/ \E k \in 1..Len(q) : Leads(G, q[k], p, j)
    \/ p[j + 1] \in td /\ Leads(G, c, p, j)

Beaten(G, p, b) ==
    b.found /\ \E i \in 1..(Len(p) - 1) : G[p[i]][p[i + 1]].weight <= b.weight

(* A route that was reached as far as its j-th token is beaten, or will be *)
(* followed further from there or from a later token.                      *)
Covered(G, p, q, c, td, vis, b) ==
    \A j \in 1..(Len(p) - 1) :
        Reached(G, vis[p[j]], p, j) =>
            Beaten(G, p, b) \/ \E i \in j..(Len(p) - 1) : Waits(G, q, c, td, p, i)

Covers(G, R, q, c, td, vis, b) == \A p \in R : Covered(G, p, q, c, td, vis, b)

Dominates(b, w, f) == b.found /\ (w < b.weight \/ (w = b.weight /\ f <= b.fresh))

First(t) == [path |-> <<t>>, weight |-> TopWeight, fresh |-> 0]

(* Every direct pair with an anchor is dominated or still to be seen.      *)
Direct(G, N, src, q, c, td, b) ==
    \A s \in N :
        \/ \E k \in 1..Len(q) : q[k] = First(src)
        \/ c = First(src) /\ s \in td
        \/ Dominates(b, G[src][s].weight, G[src][s].updatedAt)

Anchors(t) == stables \cap Neighbours(t)

ProgressInv(r) ==
    /\ Labels(visited[r], source[r])
    /\ Levels(queue[r], cur[r], todo[r], visited[r])
    /\ Covers(edges, RoutesFrom(source[r]), queue[r], cur[r], todo[r], visited[r], best[r])
    /\ Direct(edges, Anchors(source[r]), source[r], queue[r], cur[r], todo[r], best[r])

(* The inductive invariant is AnswerInv.                                   *)
Progress == \A r \in Readers : rpc[r] = "search" => ProgressInv(r)

AnswerInv == IInv /\ KnownInv /\ Progress

-----------------------------------------------------------------------------
(* A bounded set of numbers has a largest one.                             *)
LEMMA LargestExists ==
    ASSUME NEW T \in SUBSET Nat, NEW n \in Nat, \A i \in T : i <= n, T # {}
    PROVE  \E m \in T : \A i \in T : i <= m
  <1> DEFINE Less == OpToRel(<, Nat)
             D == {n - i : i \in T}
  <1>1. \A a, b \in Nat : <<a, b>> \in Less <=> a < b
    BY DEF OpToRel
  <1>2. D \subseteq Nat /\ D # {}
    <2>1. \A i \in T : n - i \in Nat
      OBVIOUS
    <2>2. QED
      BY <2>1
  <1>3. IsWellFoundedOn(Less, Nat)
    BY NatLessThanWellFounded
  <1> HIDE DEF Less, D
  <1>4. PICK d \in D : \A c \in D : ~ (<<c, d>> \in Less)
    BY <1>2, <1>3, WFMin
  <1>5. PICK m \in T : d = n - m
    BY DEF D
  <1>6. ASSUME NEW i \in T PROVE i <= m
    <2>1. n - i \in D
      BY DEF D
    <2>2. ~ (n - i < d)
      BY <1>1, <1>2, <1>4, <2>1
    <2>3. QED
      BY <1>5, <2>2
  <1>7. QED
    BY <1>6

LEMMA RouteFacts ==
    ASSUME NEW t, NEW p \in RoutesFrom(t)
    PROVE  /\ Len(p) \in 2..(MaxHops + 1)
           /\ p[1] = t
           /\ p[Len(p)] \in stables
           /\ \A i \in 1..(Len(p) - 1) :
                 /\ p[i] \in Tokens /\ p[i + 1] \in Tokens
                 /\ edges[p[i]][p[i + 1]] # NoEdge
                 /\ p[i] \notin stables
  <1>1. PICK n \in 2..(MaxHops + 1) : p \in [1..n -> Tokens]
    BY DEF RoutesFrom
  <1>2. p \in Seq(Tokens) /\ Len(p) = n
    BY <1>1, PricerAssumption
  <1>3. p[1] = t /\ IsRoute(p)
    BY DEF RoutesFrom
  <1>4. \A i \in 1..n : p[i] \in Tokens
    BY <1>1
  <1>5. \A i \in 1..(n - 1) : i \in 1..n /\ i + 1 \in 1..n
    BY PricerAssumption
  <1>6. QED
    BY <1>2, <1>3, <1>4, <1>5 DEF IsRoute

(* The weights of what a search has found occur in the graph.              *)
LEMMA MeasuredKnown ==
    ASSUME TypeInv, KnownInv, NEW r \in Readers, NEW p, NEW w, NEW f,
           Walk(p, r), Measured(p, w, f)
    PROVE  w \in Known
  <1>0. p \in Seq(Tokens) /\ Len(p) \in Nat /\ Len(p) > 0
    BY LenProperties DEF Walk
  <1>1. p \in Seq(Tokens) /\ Len(p) \in Nat /\ (Len(p) = 1 \/ Len(p) > 1)
    <2> DEFINE k == Len(p)
    <2> HIDE DEF k
    <2>1. k \in Nat /\ k > 0 => k = 1 \/ k > 1
      OBVIOUS
    <2>2. QED
      BY <1>0, <2>1 DEF k
  <1>2. CASE Len(p) = 1
    BY <1>2 DEF Measured, Known
  <1>3. CASE Len(p) > 1
    <2>1. PICK j \in 1..(Len(p) - 1) : w = edges[p[j]][p[j + 1]].weight
      BY <1>3 DEF Measured, EdgesOf
    <2>2. p[j] \in Tokens /\ p[j + 1] \in Tokens
      BY <1>1, ElementOfSeq
    <2>3. edges[p[j]][p[j + 1]] # NoEdge
      BY DEF Walk
    <2>4. QED
      BY <2>1, <2>2, <2>3 DEF KnownInv
  <1>4. QED
    BY <1>1, <1>2, <1>3

LEMMA KnownNat ==
    /\ \A w \in Known : w \in Nat /\ w # 0 /\ w <= TopWeight
    /\ TopWeight \in Nat /\ TopWeight \in Known /\ Epsilon \in Nat
  BY PricerAssumption DEF Known

(* Weights that are compared exactly are always apart.                     *)
LEMMA ExactSeparated == Epsilon = 0 => Separated
  <1> SUFFICES ASSUME Epsilon = 0, NEW v \in Known, NEW w \in Known, v < w
               PROVE  v + Epsilon < w
    BY DEF Separated
  <1>1. v \in Nat /\ w \in Nat
    BY KnownNat
  <1>2. QED
    BY <1>1

(* What a search looks at when it follows an edge.                         *)
LEMMA ExtendEffect ==
    ASSUME TypeInv, KnownInv, NEW r \in Readers, NEW i \in Item, ItemOK(i, r),
           NEW n \in Tokens, edges[Addr(i)][n] # NoEdge
    PROVE  LET x == Extend(i, n)
               e == edges[Addr(i)][n]
           IN  /\ Addr(x) = n /\ Hops(x) = Hops(i) + 1 /\ Hops(i) \in Nat
               /\ Addr(i) \in Tokens
               /\ i.weight \in Known /\ x.weight \in Known /\ e.weight \in Known
               /\ x.weight <= e.weight
               /\ x.weight = i.weight \/ x.weight = e.weight
               /\ x.fresh \in Nat
               /\ i = First(Addr(i)) => x.weight = e.weight /\ x.fresh = e.updatedAt
  <1> DEFINE x == Extend(i, n)
             e == edges[Addr(i)][n]
  <1>1. /\ Len(x.path) = Len(i.path) + 1 /\ Addr(x) = n /\ x \in Item
        /\ Walk(x.path, r) /\ Measured(x.path, x.weight, x.fresh)
    BY ExtendProperties
  <1>2. i.path \in Seq(Tokens) /\ Len(i.path) \in Nat /\ Len(i.path) > 0 /\ Addr(i) \in Tokens
    BY AddrToken, LenProperties DEF ItemOK, Walk
  <1>3. Hops(x) = Hops(i) + 1 /\ Hops(i) \in Nat
    <2> HIDE DEF x
    <2>1. QED
      BY <1>1, <1>2 DEF Hops
  <1>4. i.weight \in Known /\ x.weight \in Known /\ e.weight \in Known
    BY <1>1, <1>2, MeasuredKnown DEF ItemOK, KnownInv
  <1>5. x.weight = IF i.weight <= e.weight THEN i.weight ELSE e.weight
    BY DEF Extend, Lighter
  <1>6. x.fresh = IF i.fresh # 0 /\ i.fresh < e.updatedAt THEN i.fresh ELSE e.updatedAt
    BY DEF Extend
  <1>7. x.fresh \in Nat
    BY <1>1, PricerAssumption DEF Item
  <1> HIDE DEF x, e
  <1>8. x.weight <= e.weight /\ (x.weight = i.weight \/ x.weight = e.weight)
    <2> DEFINE wx == x.weight
               wi == i.weight
               we == e.weight
    <2>1. wx \in Nat /\ wi \in Nat /\ we \in Nat
      BY <1>4, KnownNat
    <2>2. wx = IF wi <= we THEN wi ELSE we
      BY <1>5
    <2> HIDE DEF wx, wi, we
    <2>3. wx <= we /\ (wx = wi \/ wx = we)
      BY <2>1, <2>2
    <2>4. QED
      BY <2>3 DEF wx, wi, we
  <1>9. ASSUME i = First(Addr(i)) PROVE x.weight = e.weight /\ x.fresh = e.updatedAt
    <2>1. i.weight = TopWeight /\ i.fresh = 0
      BY <1>9 DEF First
    <2>2. x.fresh = e.updatedAt
      BY <1>6, <2>1
    <2>3. e.weight <= TopWeight /\ TopWeight \in Nat /\ e.weight \in Nat
      BY <1>4, KnownNat
    <2> DEFINE we == e.weight
    <2>4. x.weight = IF TopWeight <= we THEN TopWeight ELSE we
      BY <1>5, <2>1
    <2> HIDE DEF we
    <2>5. we \in Nat /\ we <= TopWeight
      BY <2>3 DEF we
    <2>6. x.weight = we
      BY <2>3, <2>4, <2>5
    <2>7. QED
      BY <2>2, <2>6 DEF we
  <1>10. QED
    BY <1>1, <1>2, <1>3, <1>4, <1>7, <1>8, <1>9 DEF x, e

-----------------------------------------------------------------------------
(* The steps of a search.                                                  *)

Found(x) == [found |-> TRUE, path |-> x.path, weight |-> x.weight, fresh |-> x.fresh]

Label(x) == [weight |-> x.weight, hops |-> Hops(x)]

(* Looking at a neighbour: an anchor competes with the candidate, another  *)
(* token is queued or passed over.                                         *)
LEMMA VisitDetail ==
    ASSUME IInv, NEW r \in Readers, NEW n \in Tokens, Visit(r, n)
    PROVE  LET x == Extend(cur[r], n)
           IN  /\ rpc[r] = "search" /\ n \in todo[r] /\ todo'[r] = todo[r] \ {n}
               /\ cur'[r] = cur[r] /\ source'[r] = source[r]
               /\ UNCHANGED <<edges, stables>>
               /\ cur[r] \in Item /\ ItemOK(cur[r], r) /\ edges[Addr(cur[r])][n] # NoEdge
               /\ \/ /\ n \in stables
                     /\ queue'[r] = queue[r] /\ visited'[r] = visited[r]
                     /\ best'[r] = IF BetterCandidate(best[r], x) THEN Found(x) ELSE best[r]
                  \/ /\ n \notin stables
                     /\ Hops(x) < MaxHops /\ ShouldVisit(visited[r][n], x.weight, Hops(x))
                     /\ queue'[r] = Append(queue[r], x)
                     /\ visited'[r] = [visited[r] EXCEPT ![n] = Label(x)]
                     /\ best'[r] = best[r]
                  \/ /\ n \notin stables
                     /\ ~ (Hops(x) < MaxHops /\ ShouldVisit(visited[r][n], x.weight, Hops(x)))
                     /\ queue'[r] = queue[r] /\ visited'[r] = visited[r]
                     /\ best'[r] = best[r]
  <1> DEFINE x == Extend(cur[r], n)
  <1>1. /\ rpc[r] = "search" /\ n \in todo[r]
        /\ todo' = [todo EXCEPT ![r] = @ \ {n}]
        /\ UNCHANGED <<edges, stables, source, cur>>
    BY DEF Visit, graphVars
  <1>2. todo'[r] = todo[r] \ {n}
    BY <1>1 DEF IInv, TypeInv, TypeOK
  <1>3. cur[r] \in Item /\ ItemOK(cur[r], r) /\ edges[Addr(cur[r])][n] # NoEdge
    BY <1>1 DEF IInv, TypeInv, TypeOK, SearchInv, Neighbours
  <1>4. /\ queue \in [Readers -> Seq(Item)]
        /\ visited \in [Readers -> [Tokens -> [weight : Nat, hops : Nat]]]
        /\ DOMAIN best = Readers
    BY DEF IInv, TypeInv, TypeOK
  <1>5. CASE VisitStable(r, n)
    <2>1. /\ n \in stables /\ UNCHANGED <<visited, queue>>
          /\ best' = IF BetterCandidate(best[r], x) THEN [best EXCEPT ![r] = Found(x)] ELSE best
      BY <1>5 DEF VisitStable, Found
    <2>2. best'[r] = IF BetterCandidate(best[r], x) THEN Found(x) ELSE best[r]
      BY <1>4, <2>1
    <2>3. QED
      BY <1>1, <1>2, <1>3, <2>1, <2>2
  <1>6. CASE VisitToken(r, n)
    <2>1. n \notin stables /\ best' = best
      BY <1>6 DEF VisitToken
    <2>2. CASE Hops(x) < MaxHops /\ ShouldVisit(visited[r][n], x.weight, Hops(x))
      <3>1. /\ visited' = [visited EXCEPT ![r][n] = Label(x)]
            /\ queue' = [queue EXCEPT ![r] = Append(@, x)]
        BY <1>6, <2>2 DEF VisitToken, Label
      <3> HIDE DEF x
      <3>2. visited'[r] = [visited[r] EXCEPT ![n] = Label(x)] /\ queue'[r] = Append(queue[r], x)
        BY <1>4, <3>1
      <3>3. QED
        BY <1>1, <1>2, <1>3, <2>1, <2>2, <3>2 DEF x
    <2>3. CASE ~ (Hops(x) < MaxHops /\ ShouldVisit(visited[r][n], x.weight, Hops(x)))
      <3>1. UNCHANGED <<visited, queue>>
        BY <1>6, <2>3 DEF VisitToken
      <3>2. QED
        BY <1>1, <1>2, <1>3, <2>1, <2>3, <3>1
    <2>4. QED
      BY <2>2, <2>3
  <1>7. QED
    BY <1>5, <1>6 DEF Visit

(* The candidate only ever gets better, and is no worse than an anchor     *)
(* that was looked at.                                                     *)
LEMMA BestGrows ==
    ASSUME Separated, IInv, KnownInv, NEW r \in Readers, NEW n \in Tokens, Visit(r, n)
    PROVE  LET x == Extend(cur[r], n)
           IN  /\ best[r].found => Dominates(best'[r], best[r].weight, best[r].fresh)
               /\ n \in stables => Dominates(best'[r], x.weight, x.fresh)
               /\ best[r].weight \in Nat /\ best[r].fresh \in Nat
               /\ best'[r].weight \in Nat /\ best'[r].fresh \in Nat
  <1> DEFINE x == Extend(cur[r], n)
  <1>1. /\ rpc[r] = "search" /\ cur[r] \in Item /\ ItemOK(cur[r], r)
        /\ edges[Addr(cur[r])][n] # NoEdge
        /\ \/ n \in stables /\ best'[r] = IF BetterCandidate(best[r], x) THEN Found(x) ELSE best[r]
           \/ n \notin stables /\ best'[r] = best[r]
    BY VisitDetail
  <1>2. x.weight \in Known /\ x.fresh \in Nat
    BY <1>1, ExtendEffect DEF IInv
  <1>3. /\ best[r].weight \in Nat /\ best[r].fresh \in Nat /\ best[r].found \in BOOLEAN
        /\ best[r].found => best[r].weight \in Known
    <2>1. best[r] \in [found : BOOLEAN, path : Seq(Tokens), weight : Nat, fresh : 0..MaxTime]
      BY DEF IInv, TypeInv, TypeOK
    <2>2. best[r].found => BestOK(r)
      BY <1>1 DEF IInv, SearchInv
    <2>3. best[r].found => best[r].weight \in Known
      BY <2>2, MeasuredKnown DEF BestOK, IInv
    <2>4. QED
      BY <2>1, <2>3, PricerAssumption
  <1> DEFINE wx == x.weight
             fx == x.fresh
             wb == best[r].weight
             fb == best[r].fresh
             wn == best'[r].weight
             fn == best'[r].fresh
             old == best[r].found
             new == best'[r].found
             Goal == /\ old => new /\ (wb < wn \/ (wb = wn /\ fb <= fn))
                     /\ n \in stables => new /\ (wx < wn \/ (wx = wn /\ fx <= fn))
                     /\ wb \in Nat /\ fb \in Nat /\ wn \in Nat /\ fn \in Nat
  <1>4. /\ wx \in Nat /\ fx \in Nat /\ wb \in Nat /\ fb \in Nat /\ Epsilon \in Nat
        /\ wx \in Known /\ (old => wb \in Known)
    BY <1>2, <1>3, KnownNat
  <1>5. old => (wx < wb => wx + Epsilon < wb) /\ (wb < wx => wb + Epsilon < wx)
    BY <1>4 DEF Separated
  <1>6. BetterCandidate(best[r], x) <=>
           \/ ~old
           \/ wx > wb + Epsilon
           \/ wx <= wb + Epsilon /\ wb <= wx + Epsilon /\ fx > fb
    BY DEF BetterCandidate, About
  <1>7. \/ n \notin stables /\ new = old /\ wn = wb /\ fn = fb
        \/ BetterCandidate(best[r], x) /\ new = TRUE /\ wn = wx /\ fn = fx
        \/ ~ BetterCandidate(best[r], x) /\ new = old /\ wn = wb /\ fn = fb
    BY <1>1 DEF Found
  <1> HIDE DEF x, wx, fx, wb, fb, wn, fn, old, new, Goal
  <1>8. ASSUME n \notin stables /\ new = old /\ wn = wb /\ fn = fb PROVE Goal
    BY <1>4, <1>8 DEF Goal
  <1>9. ASSUME BetterCandidate(best[r], x) /\ new = TRUE /\ wn = wx /\ fn = fx PROVE Goal
    BY <1>4, <1>5, <1>6, <1>9 DEF Goal
  <1>10. ASSUME ~ BetterCandidate(best[r], x) /\ new = old /\ wn = wb /\ fn = fb PROVE Goal
    BY <1>4, <1>5, <1>6, <1>10 DEF Goal
  <1>11. Goal
    BY <1>7, <1>8, <1>9, <1>10
  <1>12. QED
    BY <1>11 DEF Goal, Dominates, x, wx, fx, wb, fb, wn, fn, old, new

(* The route p of the graph G passes through no anchor and ends at one.    *)
Way(G, S, p) ==
    /\ Len(p) \in 2..(MaxHops + 1)
    /\ p[Len(p)] \in S
    /\ \A i \in 1..(Len(p) - 1) :
          /\ p[i] \in Tokens /\ p[i + 1] \in Tokens /\ p[i] \notin S
          /\ G[p[i]][p[i + 1]].weight \in Nat
          /\ G[p[i]][p[i + 1]].weight <= TopWeight

(* One more edge of p: the item that follows it still leads along p.       *)
LEMMA LeadsOn ==
    ASSUME NEW G, NEW S, NEW p, NEW c, NEW x, NEW m \in 1..(Len(p) - 1),
           Way(G, S, p), Leads(G, c, p, m), Hops(c) \in Nat,
           Addr(x) = p[m + 1], Hops(x) = Hops(c) + 1,
           x.weight = c.weight \/ x.weight = G[Addr(c)][Addr(x)].weight
    PROVE  Leads(G, x, p, m + 1)
  <1>0. Len(p) \in Nat /\ m \in Nat /\ m <= Len(p) - 1 /\ MaxHops \in Nat
    BY PricerAssumption DEF Way
  <1>1. Addr(c) = p[m] /\ Hops(c) < m /\ AsHeavy(G, c.weight, p, m)
    BY DEF Leads
  <1>2. Hops(x) < m + 1
    BY <1>0, <1>1
  <1>3. CASE x.weight = c.weight
    <2>1. CASE c.weight = TopWeight
      BY <1>2, <1>3, <2>1 DEF Leads, AsHeavy
    <2>2. CASE \E i \in 1..(m - 1) : G[p[i]][p[i + 1]].weight <= c.weight
      <3>1. PICK i \in 1..(m - 1) : G[p[i]][p[i + 1]].weight <= c.weight
        BY <2>2
      <3>2. i \in 1..(m + 1 - 1) /\ G[p[i]][p[i + 1]].weight <= x.weight
        BY <1>0, <1>3, <3>1
      <3>3. QED
        BY <1>2, <3>2 DEF Leads, AsHeavy
    <2>3. QED
      BY <1>1, <2>1, <2>2 DEF AsHeavy
  <1>4. CASE x.weight = G[Addr(c)][Addr(x)].weight
    <2>1. m \in 1..(m + 1 - 1) /\ G[p[m]][p[m + 1]].weight = x.weight
      BY <1>0, <1>1, <1>4
    <2>2. G[p[m]][p[m + 1]].weight <= x.weight
      BY <2>1 DEF Way
    <2>3. QED
      BY <1>2, <2>1, <2>2 DEF Leads, AsHeavy
  <1>5. QED
    BY <1>3, <1>4

(* A candidate as heavy as an item that followed p to its end beats p.     *)
LEMMA EndBeaten ==
    ASSUME NEW G, NEW S, NEW p, NEW w \in Nat, NEW b, Way(G, S, p),
           AsHeavy(G, w, p, Len(p)), b.found, b.weight \in Nat, w <= b.weight
    PROVE  Beaten(G, p, b)
  <1>0. Len(p) \in Nat /\ Len(p) >= 2
    BY PricerAssumption DEF Way
  <1>1. PICK i \in 1..(Len(p) - 1) : G[p[i]][p[i + 1]].weight <= w
    <2>1. CASE w = TopWeight
      <3>1. 1 \in 1..(Len(p) - 1)
        BY <1>0
      <3>2. QED
        BY <2>1, <3>1 DEF Way
    <2>2. QED
      BY <2>1 DEF AsHeavy
  <1> DEFINE g == G[p[i]][p[i + 1]].weight
             wb == b.weight
  <1>2. g \in Nat /\ wb \in Nat /\ g <= w /\ w <= wb
    BY <1>1 DEF Way
  <1> HIDE DEF g, wb
  <1>3. g <= wb
    BY <1>2
  <1>4. QED
    BY <1>3 DEF Beaten, g, wb

(* A token that is passed over is known by a label as good as the item.    *)
LEMMA PassedOver ==
    ASSUME Separated, NEW G, NEW S, NEW p, NEW v, NEW x, NEW m \in 1..Len(p),
           Way(G, S, p), Leads(G, x, p, m), Hops(x) \in Nat, x.weight \in Known,
           v # NotSeen => v.weight \in Known, v.hops \in Nat, v.hops <= Hops(x),
           ~ShouldVisit(v, x.weight, Hops(x))
    PROVE  Reached(G, v, p, m)
  <1> DEFINE wx == x.weight
             wv == v.weight
             hx == Hops(x)
             hv == v.hops
  <1>1. v # NotSeen /\ ~ (wx > wv + Epsilon)
    BY DEF ShouldVisit
  <1>2. wx \in Nat /\ wv \in Nat /\ Epsilon \in Nat /\ TopWeight \in Nat
        /\ wv <= TopWeight /\ wx \in Known /\ wv \in Known
    BY <1>1, KnownNat
  <1>3. wv < wx => wv + Epsilon < wx
    BY <1>2 DEF Separated
  <1>4. /\ hx \in Nat /\ hv \in Nat /\ hv <= hx /\ hx < m /\ m \in Nat
        /\ AsHeavy(G, wx, p, m)
    BY PricerAssumption DEF Leads, Way
  <1> HIDE DEF wx, wv, hx, hv
  <1>5. wx <= wv /\ hv < m
    <2>1. ~ (wv + Epsilon < wx)
      BY <1>1, <1>2 DEF wx, wv
    <2>2. QED
      BY <1>2, <1>3, <1>4, <2>1
  <1>6. AsHeavy(G, wv, p, m)
    <2>1. CASE wx = TopWeight
      <3>1. wv = TopWeight
        BY <1>2, <1>5, <2>1
      <3>2. QED
        BY <3>1 DEF AsHeavy
    <2>2. CASE \E i \in 1..(m - 1) : G[p[i]][p[i + 1]].weight <= wx
      <3>1. PICK i \in 1..(m - 1) : G[p[i]][p[i + 1]].weight <= wx
        BY <2>2
      <3>2. i \in 1..(Len(p) - 1)
        BY <1>4, PricerAssumption DEF Way
      <3> DEFINE g == G[p[i]][p[i + 1]].weight
      <3>3. g \in Nat /\ g <= wx
        BY <3>1, <3>2 DEF Way
      <3> HIDE DEF g
      <3>4. g <= wv
        BY <1>2, <1>5, <3>3
      <3>5. QED
        BY <3>4 DEF AsHeavy, g
    <2>3. QED
      BY <1>4, <2>1, <2>2 DEF AsHeavy
  <1>7. QED
    BY <1>1, <1>5, <1>6 DEF Reached, wv, hv

(* A visit of the neighbour n of c, seen from outside: x is the item c     *)
(* extended to n, the state is that of before and, with a 2, of after.     *)
Looks(G, S, q, c, vis, n, x, q2, vis2, b2) ==
    /\ n \in Tokens
    /\ Addr(x) = n /\ Hops(x) = Hops(c) + 1 /\ Hops(c) \in Nat
    /\ x.weight \in Known
    /\ x.weight = c.weight \/ x.weight = G[Addr(c)][n].weight
    /\ Len(q) \in Nat /\ Len(q2) \in Nat /\ Len(q) <= Len(q2)
    /\ \A k \in 1..Len(q) : q2[k] = q[k]
    /\ \A t \in Tokens \ {n} : vis2[t] = vis[t]
    /\ vis[n] # NotSeen => vis[n].weight \in Known
    /\ vis[n].hops \in Nat /\ vis[n].hops <= Hops(c) + 1
    /\ b2.weight \in Nat /\ (n \in S => Dominates(b2, x.weight, x.fresh))
    /\ \/ /\ vis2[n] = vis[n]
          /\ n \in S \/ ~(Hops(x) < MaxHops /\ ShouldVisit(vis[n], x.weight, Hops(x)))
       \/ vis2[n] = Label(x) /\ \E k \in 1..Len(q2) : q2[k] = x

(* A visit keeps what Covers says of a route.                              *)
LEMMA CoverStep ==
    ASSUME Separated,
           NEW G, NEW S, NEW p, NEW q, NEW c, NEW td, NEW vis, NEW b,
           NEW n \in td, NEW x, NEW q2, NEW vis2, NEW b2,
           Looks(G, S, q, c, vis, n, x, q2, vis2, b2),
           Way(G, S, p),
           Beaten(G, p, b) => Beaten(G, p, b2),
           Covered(G, p, q, c, td, vis, b)
    PROVE  Covered(G, p, q2, c, td \ {n}, vis2, b2)
  <1> SUFFICES ASSUME NEW j \in 1..(Len(p) - 1), Reached(G, vis2[p[j]], p, j)
               PROVE  Beaten(G, p, b2) \/ \E i \in j..(Len(p) - 1) : Waits(G, q2, c, td \ {n}, p, i)
    BY DEF Covered
  <1> DEFINE L == Len(p)
             Pending(i) == Waits(G, q, c, td, p, i)
             Goal == Beaten(G, p, b2) \/ \E i \in j..(Len(p) - 1) : Waits(G, q2, c, td \ {n}, p, i)
  <1> USE DEF Looks, Covered
  <1>0. L \in Nat /\ L >= 2 /\ L <= MaxHops + 1 /\ MaxHops \in Nat /\ j \in Nat /\ j <= L - 1
    BY PricerAssumption DEF Way
  <1>1. ASSUME p[j] = n, vis2[n] = Label(x), NEW k \in 1..Len(q2), q2[k] = x PROVE Goal
    <2>1. Reached(G, Label(x), p, j)
      BY <1>1
    <2>2. Leads(G, x, p, j)
      BY <1>1, <2>1 DEF Reached, Label, Leads
    <2>3. j \in j..(Len(p) - 1) /\ Waits(G, q2, c, td \ {n}, p, j)
      BY <1>0, <1>1, <2>2 DEF Waits
    <2>4. QED
      BY <2>3
  <1>2. ASSUME Reached(G, vis[p[j]], p, j) PROVE Goal
    <2>1. CASE Beaten(G, p, b)
      BY <2>1
    <2>2. CASE \E i \in j..(L - 1) : Pending(i)
      <3> DEFINE T == {i \in 1..(L - 1) : Pending(i)}
      <3>1. PICK i0 \in j..(L - 1) : Pending(i0)
        BY <2>2
      <3>2. T \subseteq Nat /\ (\A i \in T : i <= L - 1) /\ i0 \in T /\ L - 1 \in Nat
        BY <1>0, <3>1
      <3> HIDE DEF Pending, Goal
      <3>3. PICK m \in T : \A i \in T : i <= m
        <4> HIDE DEF T
        <4>1. QED
          BY <3>2, LargestExists
      <3>4. m \in 1..(L - 1) /\ m \in j..(L - 1) /\ Pending(m) /\ m \in Nat
        BY <1>0, <3>1, <3>2, <3>3
      <3>5. ASSUME NEW k \in 1..Len(q), Leads(G, q[k], p, m) PROVE Goal
        <4>1. k \in 1..Len(q2) /\ Leads(G, q2[k], p, m)
          BY <3>5
        <4>2. QED
          BY <3>4, <4>1 DEF Goal, Waits
      <3>6. ASSUME p[m + 1] \in td, p[m + 1] # n, Leads(G, c, p, m) PROVE Goal
        BY <3>4, <3>6 DEF Goal, Waits
      <3>7. ASSUME p[m + 1] = n, Leads(G, c, p, m) PROVE Goal
        <4>1. Leads(G, x, p, m + 1) /\ AsHeavy(G, x.weight, p, m + 1)
          <5>1. m \in 1..(Len(p) - 1) /\ Addr(x) = p[m + 1]
            BY <3>4, <3>7
          <5>2. x.weight = c.weight \/ x.weight = G[Addr(c)][Addr(x)].weight
            OBVIOUS
          <5>3. Leads(G, x, p, m + 1)
            BY <3>7, <5>1, <5>2, LeadsOn
          <5>4. QED
            BY <5>3 DEF Leads
        <4>2. CASE n \in S
          <5>1. m + 1 = L
            BY <1>0, <3>4, <3>7, <4>2 DEF Way
          <5>2. b2.found /\ (x.weight < b2.weight \/ x.weight = b2.weight)
            BY <4>2 DEF Dominates
          <5>3. x.weight \in Nat
            BY KnownNat
          <5>4. x.weight <= b2.weight
            <6> DEFINE wx == x.weight
                       wb == b2.weight
            <6>1. wx \in Nat /\ wb \in Nat /\ (wx < wb \/ wx = wb)
              BY <5>2, <5>3
            <6> HIDE DEF wx, wb
            <6>2. wx <= wb
              BY <6>1
            <6>3. QED
              BY <6>2 DEF wx, wb
          <5>5. Beaten(G, p, b2)
            BY <4>1, <5>1, <5>2, <5>3, <5>4, EndBeaten
          <5>6. QED
            BY <5>5 DEF Goal
        <4>3. CASE n \notin S
          <5>1. m + 1 # L
            BY <3>7, <4>3 DEF Way
          <5>2. m + 1 \in 1..(L - 1) /\ m + 1 \in j..(L - 1) /\ m + 1 <= MaxHops
            BY <1>0, <3>4, <5>1
          <5>3. Hops(x) < m + 1 /\ Hops(x) \in Nat
            BY <4>1 DEF Leads
          <5>4. Hops(x) < MaxHops
            BY <1>0, <3>4, <5>2, <5>3
          <5>5. ASSUME NEW k \in 1..Len(q2), q2[k] = x PROVE Goal
            BY <4>1, <5>2, <5>5 DEF Goal, Waits
          <5>6. ASSUME ~ShouldVisit(vis[n], x.weight, Hops(x)) PROVE Goal
            <6>1. m + 1 \in 1..Len(p)
              BY <1>0, <5>2
            <6>2. Reached(G, vis[n], p, m + 1)
              BY <4>1, <5>3, <5>6, <6>1, PassedOver
            <6>3. Reached(G, vis[p[m + 1]], p, m + 1)
              BY <3>7, <6>2
            <6>4. Beaten(G, p, b) \/ \E i \in (m + 1)..(L - 1) : Pending(i)
              BY <5>2, <6>3 DEF Pending
            <6>5. ~ \E i \in (m + 1)..(L - 1) : Pending(i)
              BY <1>0, <3>3, <3>4
            <6>6. QED
              BY <6>4, <6>5 DEF Goal
          <5>7. QED
            BY <4>3, <5>4, <5>5, <5>6
        <4>4. QED
          BY <4>2, <4>3
      <3>8. QED
        BY <3>4, <3>5, <3>6, <3>7 DEF Pending, Waits
    <2>3. QED
      BY <1>2, <2>1, <2>2
  <1>3. CASE p[j] = n /\ vis2[n] = Label(x) /\ \E k \in 1..Len(q2) : q2[k] = x
    BY <1>1, <1>3
  <1>4. CASE ~ (p[j] = n /\ vis2[n] = Label(x) /\ \E k \in 1..Len(q2) : q2[k] = x)
    <2>1. p[j] \in Tokens
      BY DEF Way
    <2>2. vis2[p[j]] = vis[p[j]]
      BY <1>4, <2>1
    <2>3. QED
      BY <1>2, <2>2
  <1>5. QED
    BY <1>3, <1>4

LEMMA RouteWay ==
    ASSUME TypeInv, NEW t, NEW p \in RoutesFrom(t)
    PROVE  Way(edges, stables, p) /\ p[1] = t
  <1>1. ASSUME NEW i \in 1..(Len(p) - 1)
        PROVE  /\ edges[p[i]][p[i + 1]].weight \in Nat
               /\ edges[p[i]][p[i + 1]].weight <= TopWeight
    <2>1. p[i] \in Tokens /\ p[i + 1] \in Tokens /\ edges[p[i]][p[i + 1]] # NoEdge
      BY RouteFacts
    <2>2. edges[p[i]][p[i + 1]] \in Edge
      BY <2>1 DEF TypeInv, TypeOK
    <2>3. QED
      BY <2>1, <2>2 DEF Edge, TypeInv, WeightsBounded
  <1>2. QED
    BY <1>1, RouteFacts DEF Way

(* The token of the search keeps its label, and new labels are known.      *)
LEMMA VisitLabels ==
    ASSUME IInv, KnownInv, NEW r \in Readers, NEW n \in Tokens, Visit(r, n),
           Labels(visited[r], source[r])
    PROVE  Labels(visited'[r], source'[r])
  <1> DEFINE x == Extend(cur[r], n)
             v == visited[r][n]
  <1>1. source'[r] = source[r] /\ source[r] \in Tokens /\ visited[r] \in [Tokens -> [weight : Nat, hops : Nat]]
    <2>1. source'[r] = source[r] /\ cur[r] \in Item /\ ItemOK(cur[r], r)
      BY VisitDetail
    <2>2. source[r] \in Tokens
      BY <2>1, ElementOfSeq, LenProperties DEF ItemOK, Walk
    <2>3. QED
      BY <2>1, <2>2 DEF IInv, TypeInv, TypeOK
  <1>2. x.weight \in Known /\ Hops(x) \in Nat
    <2>1. cur[r] \in Item /\ ItemOK(cur[r], r) /\ edges[Addr(cur[r])][n] # NoEdge
      BY VisitDetail
    <2>2. x.weight \in Known /\ Hops(x) = Hops(cur[r]) + 1 /\ Hops(cur[r]) \in Nat
      BY <2>1, ExtendEffect DEF IInv
    <2> HIDE DEF x
    <2>3. QED
      BY <2>2
  <1>3. CASE visited'[r] = visited[r]
    BY <1>1, <1>3
  <1>4. CASE /\ ShouldVisit(v, x.weight, Hops(x))
             /\ visited'[r] = [visited[r] EXCEPT ![n] = Label(x)]
    <2>1. ASSUME n = source[r] PROVE FALSE
      <3>1. v = [weight |-> TopWeight, hops |-> 0]
        BY <2>1 DEF Labels
      <3>2. TopWeight \in Nat /\ TopWeight # 0 /\ Epsilon \in Nat
            /\ x.weight \in Nat /\ x.weight <= TopWeight
        BY <1>2, KnownNat, PricerAssumption
      <3>3. v # NotSeen
        BY <3>1, <3>2 DEF NotSeen
      <3>4. x.weight > TopWeight + Epsilon \/ Hops(x) < 0
        BY <1>4, <3>1, <3>3 DEF ShouldVisit
      <3> DEFINE wx == x.weight
                 hx == Hops(x)
      <3>5. wx \in Nat /\ wx <= TopWeight /\ hx \in Nat /\ (wx > TopWeight + Epsilon \/ hx < 0)
        BY <1>2, <3>2, <3>4
      <3> HIDE DEF x, wx, hx
      <3>6. QED
        BY <3>2, <3>5
    <2> HIDE DEF x
    <2>2. visited'[r][source[r]] = visited[r][source[r]]
      BY <1>1, <1>4, <2>1
    <2>3. \A t \in Tokens : visited'[r][t] = visited[r][t] \/ visited'[r][t].weight = x.weight
      BY <1>1, <1>4 DEF Label
    <2>4. QED
      BY <1>1, <1>2, <2>2, <2>3 DEF Labels
  <1>5. QED
    BY <1>3, <1>4, VisitDetail

(* Items are queued in the order of their hops.                            *)
LEMMA LevelStep ==
    ASSUME NEW q \in Seq(Item), NEW c, NEW td, NEW n \in td, NEW x \in Item,
           NEW vis \in [Tokens -> [weight : Nat, hops : Nat]],
           n \in Tokens, Levels(q, c, td, vis),
           Hops(c) \in Nat, Hops(x) = Hops(c) + 1,
           \A k \in 1..Len(q) : Hops(q[k]) \in Nat
    PROVE  /\ Levels(q, c, td \ {n}, vis)
           /\ Levels(Append(q, x), c, td \ {n}, [vis EXCEPT ![n] = Label(x)])
  <1>1. Levels(q, c, td \ {n}, vis)
    BY DEF Levels
  <1> DEFINE q2 == Append(q, x)
             vis2 == [vis EXCEPT ![n] = Label(x)]
             Lq == Len(q)
             h(k) == Hops(q2[k])
             hc == Hops(c)
  <1>2. /\ Lq \in Nat /\ Len(q2) = Lq + 1
        /\ \A k \in 1..Lq : h(k) = Hops(q[k])
        /\ h(Lq + 1) = hc + 1
    BY LenProperties, AppendProperties
  <1>3. /\ \A k, l \in 1..Lq : (k <= l => h(k) <= h(l)) /\ h(l) <= h(k) + 1
        /\ \A k \in 1..Lq : h(k) \in Nat /\ hc <= h(k) /\ h(k) <= hc + 1
        /\ hc \in Nat
    BY <1>2 DEF Levels
  <1>4. \A t \in Tokens : vis2[t].hops \in Nat /\ vis2[t].hops <= hc + 1
    <2>1. \A t \in Tokens : vis2[t].hops = hc + 1 \/ vis2[t].hops = vis[t].hops
      BY DEF Label
    <2>2. \A t \in Tokens : vis[t].hops \in Nat /\ vis[t].hops <= hc + 1
      BY DEF Levels
    <2> HIDE DEF vis2, hc
    <2>3. QED
      BY <1>3, <2>1, <2>2
  <1> HIDE DEF q2, vis2, Lq, h, hc
  <1>5. \A k \in 1..(Lq + 1) : k \in 1..Lq \/ k = Lq + 1
    BY <1>2
  <1>6. \A k \in 1..(Lq + 1) : h(k) \in Nat /\ hc <= h(k) /\ h(k) <= hc + 1
    BY <1>2, <1>3, <1>5
  <1>7. ASSUME NEW k \in 1..(Lq + 1), NEW l \in 1..(Lq + 1)
        PROVE  (k <= l => h(k) <= h(l)) /\ h(l) <= h(k) + 1
    <2>1. CASE l = Lq + 1
      BY <1>2, <1>3, <1>6, <2>1
    <2>2. CASE k = Lq + 1 /\ l \in 1..Lq
      BY <1>2, <1>3, <1>6, <2>2
    <2>3. CASE k \in 1..Lq /\ l \in 1..Lq
      BY <1>3, <2>3
    <2>4. QED
      BY <1>5, <2>1, <2>2, <2>3
  <1>8. ASSUME NEW k \in 1..(Lq + 1), NEW t \in Tokens PROVE vis2[t].hops <= h(k) + 1
    <2> DEFINE ht == vis2[t].hops
    <2>1. ht \in Nat /\ ht <= hc + 1
      BY <1>4
    <2> HIDE DEF ht
    <2>2. ht <= h(k) + 1
      BY <1>3, <1>6, <2>1
    <2>3. QED
      BY <2>2 DEF ht
  <1>9. Levels(q2, c, td \ {n}, vis2)
    BY <1>2, <1>4, <1>6, <1>7, <1>8 DEF Levels, h, hc
  <1>10. QED
    BY <1>1, <1>9 DEF q2, vis2

LEMMA VisitLevels ==
    ASSUME IInv, KnownInv, NEW r \in Readers, NEW n \in Tokens, Visit(r, n),
           Levels(queue[r], cur[r], todo[r], visited[r])
    PROVE  Levels(queue'[r], cur'[r], todo'[r], visited'[r])
  <1> DEFINE x == Extend(cur[r], n)
  <1>1. /\ rpc[r] = "search" /\ n \in todo[r] /\ todo'[r] = todo[r] \ {n} /\ cur'[r] = cur[r]
        /\ cur[r] \in Item /\ ItemOK(cur[r], r) /\ edges[Addr(cur[r])][n] # NoEdge
        /\ \/ queue'[r] = queue[r] /\ visited'[r] = visited[r]
           \/ queue'[r] = Append(queue[r], x) /\ visited'[r] = [visited[r] EXCEPT ![n] = Label(x)]
    BY VisitDetail
  <1>2. Hops(x) = Hops(cur[r]) + 1 /\ Hops(cur[r]) \in Nat
    BY <1>1, ExtendEffect DEF IInv
  <1>3. x \in Item
    BY <1>1, ExtendProperties DEF IInv
  <1>4. ASSUME NEW k \in 1..Len(queue[r]) PROVE Hops(queue[r][k]) \in Nat
    <2>1. ItemOK(queue[r][k], r)
      BY <1>1 DEF IInv, SearchInv
    <2> DEFINE L == Len(queue[r][k].path)
    <2>2. L \in Nat /\ L > 0
      BY <2>1, LenProperties DEF ItemOK, Walk
    <2> HIDE DEF L
    <2>3. L - 1 \in Nat
      BY <2>2
    <2>4. QED
      BY <2>3 DEF L, Hops
  <1>5. queue[r] \in Seq(Item) /\ visited[r] \in [Tokens -> [weight : Nat, hops : Nat]]
    BY DEF IInv, TypeInv, TypeOK
  <1> DEFINE q == queue[r]
             c == cur[r]
             td == todo[r]
             vis == visited[r]
  <1>6. /\ q \in Seq(Item) /\ vis \in [Tokens -> [weight : Nat, hops : Nat]]
        /\ n \in td /\ Levels(q, c, td, vis)
        /\ Hops(c) \in Nat /\ Hops(x) = Hops(c) + 1
        /\ \A k \in 1..Len(q) : Hops(q[k]) \in Nat
    BY <1>1, <1>2, <1>4, <1>5
  <1> HIDE DEF x, q, c, td, vis
  <1>7. /\ Levels(q, c, td \ {n}, vis)
        /\ Levels(Append(q, x), c, td \ {n}, [vis EXCEPT ![n] = Label(x)])
    BY <1>3, <1>6, LevelStep
  <1>8. QED
    BY <1>1, <1>7 DEF q, c, td, vis

LEMMA DominatesTrans ==
    ASSUME NEW b, NEW b2, NEW w \in Nat, NEW f \in Nat,
           b.weight \in Nat, b.fresh \in Nat, b2.weight \in Nat, b2.fresh \in Nat,
           b.found => Dominates(b2, b.weight, b.fresh), Dominates(b, w, f)
    PROVE  Dominates(b2, w, f)
  <1> DEFINE wb == b.weight
             fb == b.fresh
             wn == b2.weight
             fn == b2.fresh
  <1>1. /\ wb \in Nat /\ fb \in Nat /\ wn \in Nat /\ fn \in Nat
        /\ wb < wn \/ (wb = wn /\ fb <= fn)
        /\ w < wb \/ (w = wb /\ f <= fb)
        /\ b2.found
    BY DEF Dominates
  <1> HIDE DEF wb, fb, wn, fn
  <1>2. b2.found /\ (w < wn \/ (w = wn /\ f <= fn))
    BY <1>1
  <1>3. QED
    BY <1>2 DEF Dominates, wn, fn

LEMMA VisitDirect ==
    ASSUME Separated, IInv, KnownInv, NEW r \in Readers, NEW n \in Tokens, Visit(r, n),
           Direct(edges, Anchors(source[r]), source[r], queue[r], cur[r], todo[r], best[r])
    PROVE  Direct(edges, Anchors(source[r]), source[r], queue'[r], cur'[r], todo'[r], best'[r])
  <1> DEFINE x == Extend(cur[r], n)
             src == source[r]
  <1>1. /\ n \in todo[r] /\ todo'[r] = todo[r] \ {n} /\ cur'[r] = cur[r]
        /\ cur[r] \in Item /\ ItemOK(cur[r], r) /\ edges[Addr(cur[r])][n] # NoEdge
        /\ queue'[r] = queue[r] \/ queue'[r] = Append(queue[r], x)
        /\ queue[r] \in Seq(Item)
    BY VisitDetail DEF IInv, TypeInv, TypeOK
  <1>2. src \in Tokens
    BY <1>1, ElementOfSeq, LenProperties DEF ItemOK, Walk
  <1>3. x \in Item
    BY <1>1, ExtendProperties DEF IInv
  <1>4. ASSUME NEW s \in Anchors(src)
        PROVE  \/ \E k \in 1..Len(queue'[r]) : queue'[r][k] = First(src)
               \/ cur'[r] = First(src) /\ s \in todo'[r]
               \/ Dominates(best'[r], edges[src][s].weight, edges[src][s].updatedAt)
    <2> DEFINE Goal == \/ \E k \in 1..Len(queue'[r]) : queue'[r][k] = First(src)
                       \/ cur'[r] = First(src) /\ s \in todo'[r]
                       \/ Dominates(best'[r], edges[src][s].weight, edges[src][s].updatedAt)
    <2>1. s \in Tokens /\ s \in stables /\ edges[src][s] # NoEdge
      BY <1>4 DEF Anchors, Neighbours
    <2>2. ASSUME NEW k \in 1..Len(queue[r]), queue[r][k] = First(src) PROVE Goal
      <3> HIDE DEF x
      <3>1. k \in 1..Len(queue'[r]) /\ queue'[r][k] = queue[r][k]
        BY <1>1, <1>3, <2>2, AppendProperties, LenProperties
      <3>2. QED
        BY <2>2, <3>1
    <2>3. ASSUME cur[r] = First(src), s \in todo[r], s # n PROVE Goal
      BY <1>1, <2>3
    <2>4. ASSUME cur[r] = First(src), s = n PROVE Goal
      <3>1. Addr(cur[r]) = src
        <4>1. First(src).path = <<src>>
          BY DEF First
        <4>2. QED
          BY <2>4, <4>1 DEF Addr
      <3>2. cur[r] = First(Addr(cur[r]))
        BY <2>4, <3>1
      <3>3. x.weight = edges[Addr(cur[r])][n].weight /\ x.fresh = edges[Addr(cur[r])][n].updatedAt
        BY <1>1, <3>2, ExtendEffect DEF IInv
      <3>4. Dominates(best'[r], x.weight, x.fresh)
        BY <2>1, <2>4, BestGrows
      <3>5. QED
        BY <2>4, <3>1, <3>3, <3>4
    <2>5. ASSUME Dominates(best[r], edges[src][s].weight, edges[src][s].updatedAt) PROVE Goal
      <3>1. edges[src][s] \in Edge
        BY <1>2, <2>1 DEF IInv, TypeInv, TypeOK
      <3>2. edges[src][s].weight \in Nat /\ edges[src][s].updatedAt \in Nat
        BY <3>1, PricerAssumption DEF Edge
      <3>3. /\ best[r].weight \in Nat /\ best[r].fresh \in Nat
            /\ best'[r].weight \in Nat /\ best'[r].fresh \in Nat
            /\ best[r].found => Dominates(best'[r], best[r].weight, best[r].fresh)
        BY BestGrows
      <3>4. Dominates(best'[r], edges[src][s].weight, edges[src][s].updatedAt)
        BY <2>5, <3>2, <3>3, DominatesTrans
      <3>5. QED
        BY <3>4
    <2> HIDE DEF Goal
    <2>6. Goal
      BY <1>4, <2>2, <2>3, <2>4, <2>5 DEF Direct
    <2>7. QED
      BY <2>6 DEF Goal
  <1>5. QED
    BY <1>4 DEF Direct

LEMMA BeatenStays ==
    ASSUME NEW G, NEW S, NEW p, NEW b, NEW b2, Way(G, S, p), Beaten(G, p, b),
           b.weight \in Nat, b2.weight \in Nat, b.found => Dominates(b2, b.weight, b.fresh)
    PROVE  Beaten(G, p, b2)
  <1>1. PICK i \in 1..(Len(p) - 1) : G[p[i]][p[i + 1]].weight <= b.weight
    BY DEF Beaten
  <1> DEFINE g == G[p[i]][p[i + 1]].weight
             wb == b.weight
             wn == b2.weight
  <1>2. /\ g \in Nat /\ wb \in Nat /\ wn \in Nat /\ g <= wb /\ b2.found
        /\ wb < wn \/ wb = wn
    BY <1>1 DEF Way, Beaten, Dominates
  <1> HIDE DEF g, wb, wn
  <1>3. g <= wn
    BY <1>2
  <1>4. QED
    BY <1>2, <1>3 DEF Beaten, g, wn

LEMMA VisitCovers ==
    ASSUME Separated, IInv, KnownInv, NEW r \in Readers, NEW n \in Tokens, Visit(r, n),
           Labels(visited[r], source[r]), Levels(queue[r], cur[r], todo[r], visited[r]),
           Covers(edges, RoutesFrom(source[r]), queue[r], cur[r], todo[r], visited[r], best[r])
    PROVE  Covers(edges, RoutesFrom(source[r]), queue'[r], cur'[r], todo'[r], visited'[r], best'[r])
  <1> DEFINE x == Extend(cur[r], n)
             q == queue[r]
             c == cur[r]
             td == todo[r]
             vis == visited[r]
             b == best[r]
             q2 == queue'[r]
             vis2 == visited'[r]
             b2 == best'[r]
  <1>1. /\ n \in td /\ todo'[r] = td \ {n} /\ cur'[r] = c
        /\ c \in Item /\ ItemOK(c, r) /\ edges[Addr(c)][n] # NoEdge
        /\ \/ vis2 = vis /\ q2 = q /\ (n \in stables \/ ~(Hops(x) < MaxHops /\ ShouldVisit(vis[n], x.weight, Hops(x))))
           \/ vis2 = [vis EXCEPT ![n] = Label(x)] /\ q2 = Append(q, x)
    BY VisitDetail
  <1>2. q \in Seq(Item) /\ vis \in [Tokens -> [weight : Nat, hops : Nat]] /\ x \in Item
    BY <1>1, ExtendProperties DEF IInv, TypeInv, TypeOK
  <1>3. /\ Addr(x) = n /\ Hops(x) = Hops(c) + 1 /\ Hops(c) \in Nat
        /\ x.weight \in Known
        /\ x.weight = c.weight \/ x.weight = edges[Addr(c)][n].weight
    BY <1>1, ExtendEffect DEF IInv
  <1>4. /\ b.found => Dominates(b2, b.weight, b.fresh)
        /\ n \in stables => Dominates(b2, x.weight, x.fresh)
        /\ b.weight \in Nat /\ b2.weight \in Nat
    BY BestGrows
  <1>5. /\ vis[n] # NotSeen => vis[n].weight \in Known
        /\ vis[n].hops \in Nat /\ vis[n].hops <= Hops(c) + 1
    BY <1>1, <1>2 DEF Labels, Levels
  <1> HIDE DEF x
  <1>6. /\ Len(q) \in Nat /\ Len(q2) \in Nat /\ Len(q) <= Len(q2)
        /\ \A k \in 1..Len(q) : q2[k] = q[k]
        /\ \/ vis2[n] = vis[n] /\ (n \in stables \/ ~(Hops(x) < MaxHops /\ ShouldVisit(vis[n], x.weight, Hops(x))))
           \/ vis2[n] = Label(x) /\ \E k \in 1..Len(q2) : q2[k] = x
        /\ \A t \in Tokens \ {n} : vis2[t] = vis[t]
    <2>1. CASE vis2 = vis /\ q2 = q /\ (n \in stables \/ ~(Hops(x) < MaxHops /\ ShouldVisit(vis[n], x.weight, Hops(x))))
      BY <1>2, <2>1, LenProperties
    <2>2. CASE vis2 = [vis EXCEPT ![n] = Label(x)] /\ q2 = Append(q, x)
      <3> HIDE DEF q, q2, vis, vis2
      <3>1. /\ Len(q) \in Nat /\ Len(q2) = Len(q) + 1
            /\ \A k \in 1..Len(q) : q2[k] = q[k]
            /\ q2[Len(q) + 1] = x
        BY <1>2, <2>2, LenProperties, AppendProperties
      <3>2. vis2[n] = Label(x) /\ \A t \in Tokens \ {n} : vis2[t] = vis[t]
        BY <1>2, <2>2
      <3>3. Len(q) + 1 \in 1..Len(q2)
        BY <3>1
      <3>4. QED
        BY <3>1, <3>2, <3>3
    <2>3. QED
      BY <1>1, <2>1, <2>2
  <1>7. ASSUME NEW p \in RoutesFrom(source[r])
        PROVE  Covered(edges, p, q2, c, td \ {n}, vis2, b2)
    <2>1. Way(edges, stables, p)
      BY RouteWay DEF IInv
    <2>2. Beaten(edges, p, b) => Beaten(edges, p, b2)
      BY <1>4, <2>1, BeatenStays
    <2>3. Covered(edges, p, q, c, td, vis, b)
      BY DEF Covers
    <2> HIDE DEF q, c, td, vis, b, q2, vis2, b2
    <2>4. Looks(edges, stables, q, c, vis, n, x, q2, vis2, b2)
      BY <1>3, <1>4, <1>5, <1>6 DEF Looks
    <2>5. QED
      BY <1>1, <2>1, <2>2, <2>3, <2>4, CoverStep
  <1>8. QED
    BY <1>1, <1>7 DEF Covers

-----------------------------------------------------------------------------
(* The weights that occur.                                                 *)

LEMMA KnownInit == Init => KnownInv
  BY DEF Init, KnownInv

LEMMA KnownSetEdges ==
    ASSUME IInv, KnownInv, NEW u \in Updaters, SetEdges(u)
    PROVE  KnownInv'
  <1> USE DEF IInv, TypeInv
  <1>1. PICK a \in Tokens, b \in Tokens, p \in Prices, w \in Nat \ {0}, ts \in 1..MaxTime :
           /\ a = arg[u].a /\ b = arg[u].b /\ p = arg[u].price /\ w = arg[u].weight
           /\ a # b /\ w <= TopWeight
           /\ edges' \in [Tokens -> [Tokens -> Edge \cup {NoEdge}]]
           /\ edges'[a][b] = SetEdge(edges[a][b], p, w, ts)
           /\ edges'[b][a] = IF InverseOf[p] = Overflow THEN edges[b][a]
                             ELSE SetEdge(edges[b][a], InverseOf[p], w, ts)
           /\ \A x, y \in Tokens : {x, y} # {a, b} => edges'[x][y] = edges[x][y]
    BY SetEdgesEffect
  <1>2. w \in Known
    BY <1>1 DEF SetEdges, KnownInv
  <1>3. ASSUME NEW e, e # NoEdge => e.weight \in Known, NEW q
        PROVE  SetEdge(e, q, w, ts) # NoEdge => SetEdge(e, q, w, ts).weight \in Known
    BY <1>2, <1>3 DEF SetEdge, Superseded
  <1>4. ASSUME NEW x \in Tokens, NEW y \in Tokens, edges'[x][y] # NoEdge
        PROVE  edges'[x][y].weight \in Known
    <2>1. \A i, j \in Tokens : edges[i][j] # NoEdge => edges[i][j].weight \in Known
      BY DEF KnownInv
    <2>2. CASE {x, y} # {a, b}
      BY <1>1, <1>4, <2>1, <2>2
    <2>3. CASE x = a /\ y = b
      <3>1. edges[a][b] # NoEdge => edges[a][b].weight \in Known
        BY <2>1
      <3>2. edges'[a][b] # NoEdge => edges'[a][b].weight \in Known
        BY <1>1, <1>3, <3>1
      <3>3. QED
        BY <1>4, <2>3, <3>2
    <2>4. CASE x = b /\ y = a
      <3>1. edges[b][a] # NoEdge => edges[b][a].weight \in Known
        BY <2>1
      <3>2. edges'[b][a] # NoEdge => edges'[b][a].weight \in Known
        <4>1. CASE InverseOf[p] = Overflow
          BY <1>1, <3>1, <4>1
        <4>2. CASE InverseOf[p] # Overflow
          BY <1>1, <1>3, <3>1, <4>2
        <4>3. QED
          BY <4>1, <4>2
      <3>3. QED
        BY <1>4, <2>4, <3>2
    <2>5. QED
      BY <2>2, <2>3, <2>4
  <1>5. ASSUME NEW v \in Updaters, upc'[v] # "idle" PROVE arg'[v].weight \in Known
    <2>1. v # u /\ upc'[v] = upc[v] /\ arg'[v] = arg[v]
      BY <1>5 DEF SetEdges, TypeOK
    <2>2. QED
      BY <1>5, <2>1 DEF KnownInv
  <1>6. QED
    BY <1>4, <1>5 DEF KnownInv

LEMMA KnownStep == IInv /\ KnownInv /\ [Next]_vars => KnownInv'
  <1> SUFFICES ASSUME IInv, KnownInv, [Next]_vars PROVE KnownInv'
    OBVIOUS
  <1>1. ASSUME UNCHANGED edges,
               \A v \in Updaters : /\ upc'[v] # "idle" => upc[v] # "idle"
                                   /\ arg'[v] = arg[v]
        PROVE  KnownInv'
    BY <1>1 DEF KnownInv
  <1>2. ASSUME NEW t \in Tokens, RegisterStable(t) PROVE KnownInv'
    BY <1>1, <1>2 DEF RegisterStable, updateVars
  <1>3. ASSUME NEW u \in Updaters, NEW a \in Tokens, NEW b \in Tokens, NEW p \in Prices,
               NEW w \in Weights, NEW ts \in 1..MaxTime, UpdatePair(u, a, b, p, w, ts)
        PROVE  KnownInv'
    <2>1. UNCHANGED edges
      BY <1>3 DEF UpdatePair, graphVars
    <2>2. arg'[u].weight = IF w = 0 THEN MinWeight ELSE w
      BY <1>3 DEF UpdatePair, IInv, TypeInv, TypeOK
    <2>3. arg'[u].weight \in Known
      BY <2>2 DEF Known
    <2>4. \A v \in Updaters : v # u => upc'[v] = upc[v] /\ arg'[v] = arg[v]
      BY <1>3 DEF UpdatePair, IInv, TypeInv, TypeOK
    <2>5. QED
      BY <2>1, <2>3, <2>4 DEF KnownInv
  <1>4. ASSUME NEW u \in Updaters, RegisterTokenA(u) \/ RegisterTokenB(u) PROVE KnownInv'
    <2>1. UNCHANGED <<edges, arg>> /\ upc[u] # "idle"
      BY <1>4 DEF RegisterTokenA, RegisterTokenB
    <2>2. \A v \in Updaters : v # u => upc'[v] = upc[v]
      BY <1>4 DEF RegisterTokenA, RegisterTokenB, IInv, TypeInv, TypeOK
    <2>3. QED
      BY <1>1, <2>1, <2>2
  <1>5. ASSUME NEW r \in Readers, ReaderStep(r) PROVE KnownInv'
    <2>1. UNCHANGED <<edges, upc, arg>>
      BY <1>5 DEF ReaderStep, StartSearch, Pop, Visit, Return, graphVars, updateVars
    <2>2. QED
      BY <1>1, <2>1
  <1>6. CASE UNCHANGED vars
    BY <1>1, <1>6 DEF vars, graphVars, updateVars
  <1>7. QED
    BY <1>2, <1>3, <1>4, <1>5, <1>6, KnownSetEdges DEF Next, UpdaterStep

-----------------------------------------------------------------------------
(* The other steps of a search.                                            *)

LEMMA FirstFacts ==
    ASSUME NEW t \in Tokens
    PROVE  First(t).weight = TopWeight /\ Addr(First(t)) = t /\ Hops(First(t)) = 0
  <1>1. First(t).path = <<t>> /\ First(t).weight = TopWeight
    BY DEF First
  <1> HIDE DEF First
  <1>2. Len(First(t).path) = 1 /\ First(t).path[1] = t
    BY <1>1
  <1>3. QED
    BY <1>1, <1>2 DEF Addr, Hops

LEMMA StartProgress ==
    ASSUME IInv, KnownInv, NEW r \in Readers, NEW t \in Tokens, StartSearch(r, t)
    PROVE  ProgressInv(r)'
  <1> DEFINE i == First(t)
             vis2 == visited'[r]
  <1>1. /\ queue'[r] = <<i>> /\ todo'[r] = {} /\ source'[r] = t
        /\ vis2 = [n \in Tokens |-> IF n = t THEN [weight |-> TopWeight, hops |-> 0] ELSE NotSeen]
        /\ UNCHANGED <<edges, stables>>
    BY DEF StartSearch, First, graphVars, IInv, TypeInv, TypeOK, SearchInv
  <1>2. i.weight = TopWeight /\ Addr(i) = t /\ Hops(i) = 0
    BY FirstFacts
  <1> HIDE DEF i
  <1>3. Len(queue'[r]) = 1 /\ queue'[r][1] = i
    BY <1>1
  <1>4. Labels(vis2, t)
    BY <1>1, KnownNat DEF Labels
  <1>5. Levels(queue'[r], cur'[r], todo'[r], vis2)
    <2>1. \A k \in 1..Len(queue'[r]) : Hops(queue'[r][k]) = 0
      BY <1>2, <1>3
    <2>2. \A n \in Tokens : vis2[n].hops = 0
      BY <1>1 DEF NotSeen
    <2>3. QED
      BY <1>1, <2>1, <2>2 DEF Levels
  <1>6. ASSUME NEW p \in RoutesFrom(source[r])'
        PROVE  Covered(edges', p, queue'[r], cur'[r], todo'[r], vis2, best'[r])
    <2> SUFFICES ASSUME NEW j \in 1..(Len(p) - 1), Reached(edges', vis2[p[j]], p, j)
                 PROVE  \E m \in j..(Len(p) - 1) : Waits(edges', queue'[r], cur'[r], todo'[r], p, m)
      BY DEF Covered
    <2>1. p \in RoutesFrom(t)
      BY <1>1, <1>6 DEF RoutesFrom, IsRoute
    <2>2. p[j] \in Tokens /\ Len(p) \in 2..(MaxHops + 1)
      BY <2>1, RouteFacts
    <2>3. p[j] = t
      BY <1>1, <2>2 DEF Reached
    <2>4. Leads(edges', i, p, j)
      BY <1>2, <2>2, <2>3, PricerAssumption DEF Leads, AsHeavy
    <2>5. j \in j..(Len(p) - 1)
      BY <2>2, PricerAssumption
    <2>6. Waits(edges', queue'[r], cur'[r], todo'[r], p, j)
      BY <1>3, <2>4 DEF Waits
    <2>7. QED
      BY <2>5, <2>6
  <1>7. Direct(edges', Anchors(t)', t, queue'[r], cur'[r], todo'[r], best'[r])
    BY <1>3 DEF Direct, i
  <1>8. Covers(edges', RoutesFrom(source[r])', queue'[r], cur'[r], todo'[r], vis2, best'[r])
    BY <1>6 DEF Covers
  <1>9. Anchors(source[r])' = Anchors(t)'
    BY <1>1 DEF Anchors, Neighbours
  <1>10. QED
    BY <1>1, <1>4, <1>5, <1>7, <1>8, <1>9 DEF ProgressInv

LEMMA PopProgress ==
    ASSUME IInv, KnownInv, NEW r \in Readers, Pop(r), ProgressInv(r)
    PROVE  ProgressInv(r)'
  <1> DEFINE q == queue[r]
             q2 == queue'[r]
             c2 == cur'[r]
             td2 == todo'[r]
             vis == visited[r]
             src == source[r]
  <1>1. /\ rpc[r] = "search" /\ todo[r] = {} /\ q # <<>>
        /\ c2 = Head(q) /\ q2 = Tail(q) /\ td2 = Neighbours(Addr(c2))
        /\ visited'[r] = vis /\ source'[r] = src /\ best'[r] = best[r]
        /\ UNCHANGED <<edges, stables>>
    BY DEF Pop, graphVars, IInv, TypeInv, TypeOK
  <1>2. /\ Len(q) \in Nat /\ Len(q) >= 1 /\ Len(q2) = Len(q) - 1
        /\ c2 = q[1] /\ \A k \in 1..Len(q2) : q2[k] = q[k + 1]
        /\ ItemOK(c2, r)
    <2>1. q \in Seq(Item)
      BY DEF IInv, TypeInv, TypeOK
    <2>2. Len(q) \in Nat \ {0}
      BY <1>1, <2>1, EmptySeq
    <2>3. Len(q2) = Len(q) - 1 /\ c2 = q[1] /\ \A k \in 1..Len(q2) : q2[k] = q[k + 1]
      BY <1>1, <2>1, <2>2, HeadTailProperties
    <2>4. 1 \in 1..Len(q)
      BY <2>2
    <2>5. ItemOK(c2, r)
      BY <1>1, <2>3, <2>4 DEF IInv, SearchInv
    <2>6. QED
      BY <2>2, <2>3, <2>5
  <1>3. src \in Tokens /\ Addr(c2) \in Tokens
    BY <1>2, AddrToken, ElementOfSeq, LenProperties DEF ItemOK, Walk
  <1>4. \A k \in 1..Len(q) : k = 1 \/ (k - 1 \in 1..Len(q2) /\ q2[k - 1] = q[k])
    BY <1>2
  <1>5. \A k \in 1..Len(q2) : k + 1 \in 1..Len(q) /\ 1 <= k + 1
    BY <1>2
  <1>6. Levels(q2, c2, td2, vis)
    <2> DEFINE h(k) == Hops(q[k])
    <2>1. /\ \A k, l \in 1..Len(q) : (k <= l => h(k) <= h(l)) /\ h(l) <= h(k) + 1
          /\ \A k \in 1..Len(q), t \in Tokens : vis[t].hops <= h(k) + 1
      BY DEF ProgressInv, Levels
    <2>2. Hops(c2) = h(1) /\ \A k \in 1..Len(q2) : Hops(q2[k]) = h(k + 1)
      BY <1>2
    <2>3. 1 \in 1..Len(q)
      BY <1>2
    <2> HIDE DEF h, q, q2, c2, td2, vis
    <2>4. \A k, l \in 1..Len(q2) : k <= l => k + 1 <= l + 1
      BY <1>2
    <2>5. QED
      BY <1>5, <2>1, <2>2, <2>3, <2>4 DEF Levels
  <1>7. ASSUME NEW p \in RoutesFrom(src)
        PROVE  Covered(edges, p, q2, c2, td2, vis, best[r])
    <2>1. ASSUME NEW m \in 1..(Len(p) - 1), Waits(edges, q, cur[r], todo[r], p, m)
          PROVE  Waits(edges, q2, c2, td2, p, m)
      <3>1. PICK k \in 1..Len(q) : Leads(edges, q[k], p, m)
        BY <1>1, <2>1 DEF Waits
      <3>2. CASE k = 1
        <4>1. Leads(edges, c2, p, m) /\ Addr(c2) = p[m]
          BY <1>2, <3>1, <3>2 DEF Leads
        <4>2. p[m + 1] \in Neighbours(p[m])
          BY RouteFacts DEF Neighbours
        <4>3. QED
          BY <1>1, <4>1, <4>2 DEF Waits
      <3>3. CASE k - 1 \in 1..Len(q2) /\ q2[k - 1] = q[k]
        BY <3>1, <3>3 DEF Waits
      <3>4. QED
        BY <1>4, <3>2, <3>3
    <2>2. Len(p) \in Nat
      BY RouteFacts, PricerAssumption
    <2>3. Covered(edges, p, q, cur[r], todo[r], vis, best[r])
      BY DEF ProgressInv, Covers
    <2> HIDE DEF q, q2, c2, td2, vis
    <2>4. ASSUME NEW j \in 1..(Len(p) - 1), Reached(edges, vis[p[j]], p, j)
          PROVE  Beaten(edges, p, best[r]) \/ \E m \in j..(Len(p) - 1) : Waits(edges, q2, c2, td2, p, m)
      <3>1. CASE Beaten(edges, p, best[r])
        BY <3>1
      <3>2. CASE \E m \in j..(Len(p) - 1) : Waits(edges, q, cur[r], todo[r], p, m)
        <4>1. PICK m \in j..(Len(p) - 1) : Waits(edges, q, cur[r], todo[r], p, m)
          BY <3>2
        <4>2. m \in 1..(Len(p) - 1)
          BY <2>2, <4>1
        <4>3. QED
          BY <2>1, <4>1, <4>2
      <3>3. QED
        BY <2>3, <2>4, <3>1, <3>2 DEF Covered
    <2>5. QED
      BY <2>4 DEF Covered
  <1>8. Direct(edges, Anchors(src), src, q2, c2, td2, best[r])
    <2> SUFFICES ASSUME NEW s \in Anchors(src)
                 PROVE  \/ \E k \in 1..Len(q2) : q2[k] = First(src)
                        \/ c2 = First(src) /\ s \in td2
                        \/ Dominates(best[r], edges[src][s].weight, edges[src][s].updatedAt)
      BY DEF Direct
    <2>1. \/ \E k \in 1..Len(q) : q[k] = First(src)
          \/ Dominates(best[r], edges[src][s].weight, edges[src][s].updatedAt)
      BY <1>1 DEF ProgressInv, Direct
    <2>2. ASSUME c2 = First(src) PROVE s \in td2
      <3>1. Addr(c2) = src
        BY <1>3, <2>2, FirstFacts
      <3>2. QED
        BY <1>1, <3>1 DEF Anchors
    <2> HIDE DEF q, q2, c2, td2, src
    <2>3. ASSUME NEW k \in 1..Len(q), q[k] = First(src)
          PROVE  c2 = First(src) \/ \E l \in 1..Len(q2) : q2[l] = First(src)
      BY <1>2, <1>4, <2>3
    <2>4. QED
      BY <2>1, <2>2, <2>3
  <1>9. RoutesFrom(source[r])' = RoutesFrom(src) /\ Anchors(source[r])' = Anchors(src)
    BY <1>1 DEF RoutesFrom, IsRoute, Anchors, Neighbours
  <1>10. Covers(edges, RoutesFrom(src), q2, c2, td2, vis, best[r])
    BY <1>7 DEF Covers
  <1>11. QED
    BY <1>1, <1>6, <1>8, <1>9, <1>10 DEF ProgressInv

LEMMA VisitProgress ==
    ASSUME Separated, IInv, KnownInv, NEW r \in Readers, NEW n \in Tokens, Visit(r, n),
           ProgressInv(r)
    PROVE  ProgressInv(r)'
  <1>1. source'[r] = source[r] /\ UNCHANGED <<edges, stables>>
    BY VisitDetail
  <1>2. RoutesFrom(source[r])' = RoutesFrom(source[r]) /\ Anchors(source[r])' = Anchors(source[r])
    BY <1>1 DEF RoutesFrom, IsRoute, Anchors, Neighbours
  <1>3. Labels(visited'[r], source'[r])
    BY VisitLabels DEF ProgressInv
  <1>4. Levels(queue'[r], cur'[r], todo'[r], visited'[r])
    BY VisitLevels DEF ProgressInv
  <1>5. Covers(edges, RoutesFrom(source[r]), queue'[r], cur'[r], todo'[r], visited'[r], best'[r])
    BY VisitCovers DEF ProgressInv
  <1>6. Direct(edges, Anchors(source[r]), source[r], queue'[r], cur'[r], todo'[r], best'[r])
    BY VisitDirect DEF ProgressInv
  <1>7. QED
    BY <1>1, <1>2, <1>3, <1>4, <1>5, <1>6 DEF ProgressInv

(* A step of another goroutine leaves a search as it is.                   *)
LEMMA ProgressFrame ==
    ASSUME NEW r \in Readers, ProgressInv(r), UNCHANGED <<edges, stables>>,
           source'[r] = source[r], queue'[r] = queue[r], cur'[r] = cur[r],
           todo'[r] = todo[r], visited'[r] = visited[r], best'[r] = best[r]
    PROVE  ProgressInv(r)'
  <1>1. RoutesFrom(source[r])' = RoutesFrom(source[r]) /\ Anchors(source[r])' = Anchors(source[r])
    BY DEF RoutesFrom, IsRoute, Anchors, Neighbours
  <1>2. QED
    BY <1>1 DEF ProgressInv

-----------------------------------------------------------------------------
(* Every step of the system.                                               *)

LEMMA ReaderProgress ==
    ASSUME Separated, IInv, KnownInv, Progress, NEW r \in Readers, ReaderStep(r)
    PROVE  Progress'
  <1>1. /\ UNCHANGED <<edges, stables>>
        /\ \A s \in Readers \ {r} :
              /\ rpc'[s] = rpc[s] /\ source'[s] = source[s] /\ queue'[s] = queue[s]
              /\ cur'[s] = cur[s] /\ todo'[s] = todo[s] /\ visited'[s] = visited[s]
              /\ best'[s] = best[s]
    <2> USE DEF IInv, TypeInv, TypeOK, graphVars
    <2>1. CASE \E t \in Tokens : StartSearch(r, t)
      BY <2>1 DEF StartSearch
    <2>2. CASE Pop(r)
      BY <2>2 DEF Pop
    <2>3. CASE \E n \in Tokens : Visit(r, n)
      BY <2>3 DEF Visit, VisitStable, VisitToken
    <2>4. CASE Return(r)
      BY <2>4 DEF Return
    <2>5. QED
      BY <2>1, <2>2, <2>3, <2>4 DEF ReaderStep
  <1>2. ASSUME NEW s \in Readers \ {r}, rpc'[s] = "search" PROVE ProgressInv(s)'
    <2>1. ProgressInv(s)
      BY <1>1, <1>2 DEF Progress
    <2>2. QED
      BY <1>1, <2>1, ProgressFrame
  <1>3. ASSUME rpc'[r] = "search" PROVE ProgressInv(r)'
    <2>1. CASE \E t \in Tokens : StartSearch(r, t)
      BY <2>1, StartProgress
    <2>2. CASE Pop(r)
      <3>1. ProgressInv(r)
        BY <2>2 DEF Pop, Progress
      <3>2. QED
        BY <2>2, <3>1, PopProgress
    <2>3. CASE \E n \in Tokens : Visit(r, n)
      <3>1. ProgressInv(r)
        BY <2>3 DEF Visit, Progress
      <3>2. QED
        BY <2>3, <3>1, VisitProgress
    <2>4. CASE Return(r)
      BY <1>3, <2>4 DEF Return, IInv, TypeInv, TypeOK
    <2>5. QED
      BY <2>1, <2>2, <2>3, <2>4 DEF ReaderStep
  <1>4. QED
    BY <1>2, <1>3 DEF Progress

LEMMA ProgressStep ==
    ASSUME Separated, IInv, KnownInv, Progress, [Next]_vars
    PROVE  Progress'
  <1>1. ASSUME Unlocked, UNCHANGED searchVars PROVE Progress'
    BY <1>1 DEF Progress, Unlocked, searchVars
  <1>2. ASSUME UNCHANGED <<edges, stables>>, UNCHANGED searchVars PROVE Progress'
    <2>1. ASSUME NEW r \in Readers, rpc'[r] = "search" PROVE ProgressInv(r)'
      <3>1. ProgressInv(r)
        BY <1>2, <2>1 DEF Progress, searchVars
      <3>2. QED
        BY <1>2, <3>1, ProgressFrame DEF searchVars
    <2>2. QED
      BY <2>1 DEF Progress
  <1>3. ASSUME NEW t \in Tokens, RegisterStable(t) PROVE Progress'
    BY <1>1, <1>3 DEF RegisterStable
  <1>4. ASSUME NEW u \in Updaters, NEW a \in Tokens, NEW b \in Tokens, NEW p \in Prices,
               NEW w \in Weights, NEW ts \in 1..MaxTime, UpdatePair(u, a, b, p, w, ts)
        PROVE  Progress'
    BY <1>2, <1>4 DEF UpdatePair, graphVars
  <1>5. ASSUME NEW u \in Updaters, RegisterTokenA(u) \/ RegisterTokenB(u) \/ SetEdges(u)
        PROVE  Progress'
    BY <1>1, <1>5 DEF RegisterTokenA, RegisterTokenB, SetEdges
  <1>6. CASE UNCHANGED vars
    BY <1>2, <1>6 DEF vars, graphVars
  <1>7. QED
    BY <1>3, <1>4, <1>5, <1>6, ReaderProgress DEF Next, UpdaterStep

LEMMA AnswerInvariant == ASSUME Separated PROVE Spec => []AnswerInv
  <1>1. Init => AnswerInv
    BY IInvInit, KnownInit DEF Init, Progress, AnswerInv
  <1>2. AnswerInv /\ [Next]_vars => AnswerInv'
    BY IInvStep, KnownStep, ProgressStep DEF AnswerInv
  <1>3. QED
    BY <1>1, <1>2, PTL DEF Spec

-----------------------------------------------------------------------------
(* When the queue is empty, every route to an anchor was either followed   *)
(* or cut off at a token that was known by a way as heavy and as short.    *)
(* The answer is therefore the heaviest route, and there is an answer when *)
(* there is a route, provided that no two weights are different and yet    *)
(* taken for equal: the search passes over a way that is heavier by no     *)
(* more than equalWeightEpsilon (graph_pricer.go:266-329, 337-351).        *)
THEOREM HeaviestWins == ASSUME Separated PROVE Spec => []HeaviestRoute
  <1>1. AnswerInv => HeaviestRoute
    <2> SUFFICES ASSUME IInv, KnownInv, Progress, NEW r \in Readers, Exhausted(r)
                 PROVE  /\ best[r].found <=> RoutesFrom(source[r]) # {}
                        /\ \A p \in RoutesFrom(source[r]) :
                              \E e \in EdgesOf(p) : e.weight <= best[r].weight
      BY DEF HeaviestRoute, AnswerInv
    <2>1. rpc[r] = "search" /\ todo[r] = {} /\ queue[r] = <<>> /\ ProgressInv(r)
      BY DEF Exhausted, Progress
    <2>2. ASSUME NEW p \in RoutesFrom(source[r]) PROVE Beaten(edges, p, best[r])
      <3>1. Len(p) \in Nat /\ Len(p) >= 2 /\ p[1] = source[r]
        BY RouteFacts, PricerAssumption
      <3>2. visited[r][source[r]] = [weight |-> TopWeight, hops |-> 0] /\ TopWeight # 0
        BY <2>1, PricerAssumption DEF ProgressInv, Labels
      <3>3. visited[r][p[1]] # NotSeen /\ visited[r][p[1]].hops = 0
            /\ visited[r][p[1]].weight = TopWeight
        BY <3>1, <3>2 DEF NotSeen
      <3>4. Reached(edges, visited[r][p[1]], p, 1) /\ 1 \in 1..(Len(p) - 1)
        BY <3>1, <3>3 DEF Reached, AsHeavy
      <3>5. \A i : ~ Waits(edges, queue[r], cur[r], todo[r], p, i)
        BY <2>1 DEF Waits
      <3>6. Covered(edges, p, queue[r], cur[r], todo[r], visited[r], best[r])
        BY <2>1 DEF ProgressInv, Covers
      <3>7. QED
        BY <3>4, <3>5, <3>6 DEF Covered
    <2>3. ASSUME best[r].found PROVE RoutesFrom(source[r]) # {}
      <3> DEFINE p == best[r].path
      <3>1. /\ Walk(p, r) /\ Len(p) \in 2..(MaxHops + 1) /\ p[Len(p)] \in stables
        BY <2>1, <2>3 DEF IInv, SearchInv, BestOK
      <3> HIDE DEF p
      <3>2. p \in [1..Len(p) -> Tokens]
        BY <3>1, LenProperties DEF Walk
      <3>3. IsRoute(p) /\ p[1] = source[r]
        BY <3>1, PricerAssumption DEF IsRoute, Walk
      <3>4. p \in RoutesFrom(source[r])
        BY <3>1, <3>2, <3>3 DEF RoutesFrom
      <3>5. QED
        BY <3>4
    <2>4. QED
      BY <2>2, <2>3 DEF Beaten, EdgesOf
  <1>2. QED
    BY <1>1, AnswerInvariant, PTL

(* Among the pairs of the token with an anchor that are as heavy as the    *)
(* answer, none is fresher than the answer: a direct pair competes with    *)
(* its own weight and time, and the candidate only ever gets heavier or,   *)
(* at the same weight, fresher (graph_pricer.go:297-309, 353-361).         *)
THEOREM FreshestWins == ASSUME Separated PROVE Spec => []FreshestDirect
  <1>1. AnswerInv => FreshestDirect
    <2> SUFFICES ASSUME IInv, KnownInv, Progress, NEW r \in Readers, Exhausted(r),
                        NEW s \in stables \cap Neighbours(source[r]),
                        edges[source[r]][s].weight = best[r].weight
                 PROVE  edges[source[r]][s].updatedAt <= best[r].fresh
      BY DEF FreshestDirect, AnswerInv
    <2>1. todo[r] = {} /\ queue[r] = <<>> /\ ProgressInv(r)
      BY DEF Exhausted, Progress
    <2>2. Dominates(best[r], edges[source[r]][s].weight, edges[source[r]][s].updatedAt)
      BY <2>1 DEF ProgressInv, Direct, Anchors
    <2>3. best[r].weight \in Nat
      BY DEF IInv, TypeInv, TypeOK
    <2> DEFINE w == best[r].weight
    <2>4. w \in Nat /\ (w < w \/ edges[source[r]][s].updatedAt <= best[r].fresh)
      BY <2>2, <2>3 DEF Dominates
    <2> HIDE DEF w
    <2>5. QED
      BY <2>4
  <1>2. QED
    BY <1>1, AnswerInvariant, PTL
=============================================================================
