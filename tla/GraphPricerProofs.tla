-------------------------- MODULE GraphPricerProofs --------------------------
(***************************************************************************)
(* Theorems about GraphPricer, for every set of tokens, prices, weights    *)
(* and timestamps and any number of connectors that update and search.     *)
(***************************************************************************)
EXTENDS GraphPricer, SequenceTheorems, TLAPS

(* A call of UpdatePair under way has checked arguments.                   *)
CallInv ==
    \A u \in Updaters :
        upc[u] # "idle" =>
            /\ arg[u] \in Call
            /\ arg[u].a # arg[u].b
            /\ arg[u].weight <= TopWeight

WeightsBounded ==
    \A a, b \in Tokens : edges[a][b] # NoEdge => edges[a][b].weight <= TopWeight

(* The tokens of a call are registered one after the other.                *)
RegisterInv ==
    \A u \in Updaters :
        /\ upc[u] = "tokenB" => arg[u].a \in symbols
        /\ upc[u] = "edges" => {arg[u].a, arg[u].b} \subseteq symbols

(* A path of the graph that starts at the token a reader resolves and      *)
(* passes through no anchor.                                               *)
Walk(p, r) ==
    /\ p \in Seq(Tokens)
    /\ Len(p) > 0
    /\ p[1] = source[r]
    /\ \A i \in 1..(Len(p) - 1) : edges[p[i]][p[i + 1]] # NoEdge /\ p[i] \notin stables

(* w is the smallest weight and f the oldest time along a path.            *)
Measured(p, w, f) ==
    /\ Len(p) = 1 => w = TopWeight /\ f = 0
    /\ Len(p) > 1 => /\ \A e \in EdgesOf(p) : w <= e.weight /\ f <= e.updatedAt
                     /\ \E e \in EdgesOf(p) : w = e.weight
                     /\ \E e \in EdgesOf(p) : f = e.updatedAt
                     /\ f # 0

(* What the queue holds.                                                   *)
ItemOK(i, r) ==
    /\ Walk(i.path, r)
    /\ Measured(i.path, i.weight, i.fresh)
    /\ Len(i.path) <= MaxHops
    /\ Addr(i) \notin stables

(* What the candidate is.                                                  *)
BestOK(r) ==
    /\ Walk(best[r].path, r)
    /\ Measured(best[r].path, best[r].weight, best[r].fresh)
    /\ Len(best[r].path) \in 2..(MaxHops + 1)
    /\ best[r].path[Len(best[r].path)] \in stables

SearchInv ==
    \A r \in Readers :
        /\ rpc[r] = "idle" => todo[r] = {} /\ queue[r] = <<>> /\ ~best[r].found
        /\ rpc[r] = "search" =>
              /\ \A k \in 1..Len(queue[r]) : ItemOK(queue[r][k], r)
              /\ todo[r] # {} => ItemOK(cur[r], r) /\ todo[r] \subseteq Neighbours(Addr(cur[r]))
              /\ best[r].found => BestOK(r)

TypeInv == TypeOK /\ CallInv /\ WeightsBounded

IInv == TypeInv /\ SearchInv

-----------------------------------------------------------------------------
(* The graph.                                                              *)

(* What setEdgeLocked stores is an edge again.                             *)
LEMMA SetEdgeType ==
    ASSUME NEW e \in Edge \cup {NoEdge}, NEW p \in Prices, NEW w \in Nat \ {0},
           NEW ts \in 1..MaxTime
    PROVE  /\ SetEdge(e, p, w, ts) \in Edge
           /\ w <= TopWeight /\ (e # NoEdge => e.weight <= TopWeight) =>
                 SetEdge(e, p, w, ts).weight <= TopWeight
  BY NoEdgeAssumption DEF SetEdge, Superseded, Edge

(* SetEdges sets both directions of the pair and touches no other edge.    *)
LEMMA SetEdgesEffect ==
    ASSUME TypeInv, NEW u \in Updaters, SetEdges(u)
    PROVE  \E a, b \in Tokens, p \in Prices, w \in Nat \ {0}, ts \in 1..MaxTime :
              /\ a = arg[u].a /\ b = arg[u].b /\ p = arg[u].price /\ w = arg[u].weight
              /\ a # b /\ w <= TopWeight
              /\ edges' \in [Tokens -> [Tokens -> Edge \cup {NoEdge}]]
              /\ edges'[a][b] = SetEdge(edges[a][b], p, w, ts)
              /\ edges'[b][a] = IF InverseOf[p] = Overflow THEN edges[b][a]
                                ELSE SetEdge(edges[b][a], InverseOf[p], w, ts)
              /\ \A x, y \in Tokens : {x, y} # {a, b} => edges'[x][y] = edges[x][y]
  <1> DEFINE a == arg[u].a
             b == arg[u].b
             p == arg[u].price
             w == arg[u].weight
             ts == arg[u].ts
             ab == SetEdge(edges[a][b], p, w, ts)
             ba == IF InverseOf[p] = Overflow THEN edges[b][a]
                   ELSE SetEdge(edges[b][a], InverseOf[p], w, ts)
  <1>1. /\ a \in Tokens /\ b \in Tokens /\ a # b
        /\ p \in Prices /\ w \in Nat \ {0} /\ ts \in 1..MaxTime
        /\ w <= TopWeight
    BY DEF SetEdges, TypeInv, CallInv, Call
  <1>2. edges' = [edges EXCEPT ![a][b] = SetEdge(@, p, w, ts),
                               ![b][a] = IF InverseOf[p] = Overflow THEN @
                                         ELSE SetEdge(@, InverseOf[p], w, ts)]
    BY DEF SetEdges, WithPair
  <1> HIDE DEF a, b, p, w, ts
  <1>3. edges \in [Tokens -> [Tokens -> Edge \cup {NoEdge}]]
    BY DEF TypeInv, TypeOK
  <1>4. ab \in Edge \cup {NoEdge}
    BY <1>1, <1>3, SetEdgeType
  <1>5. ba \in Edge \cup {NoEdge}
    BY <1>1, <1>3, SetEdgeType, PricerAssumption
  <1>6. edges' = [edges EXCEPT ![a][b] = ab, ![b][a] = ba]
    BY <1>1, <1>2, <1>3
  <1> HIDE DEF ab, ba
  <1>7. /\ edges' \in [Tokens -> [Tokens -> Edge \cup {NoEdge}]]
        /\ edges'[a][b] = ab /\ edges'[b][a] = ba
        /\ \A x, y \in Tokens : {x, y} # {a, b} => edges'[x][y] = edges[x][y]
    <2> DEFINE S == Edge \cup {NoEdge}
    <2>1. edges \in [Tokens -> [Tokens -> S]] /\ ab \in S /\ ba \in S
      BY <1>3, <1>4, <1>5
    <2> HIDE DEF S
    <2>2. edges' \in [Tokens -> [Tokens -> S]]
      BY <1>1, <1>6, <2>1
    <2>3. edges'[a][b] = ab /\ edges'[b][a] = ba
      BY <1>1, <1>6, <2>1
    <2>4. ASSUME NEW x \in Tokens, NEW y \in Tokens, {x, y} # {a, b}
          PROVE  edges'[x][y] = edges[x][y]
      <3>1. ~(x = a /\ y = b) /\ ~(x = b /\ y = a)
        BY <2>4
      <3>2. QED
        BY <1>1, <1>6, <2>1, <3>1
    <2>5. QED
      BY <2>2, <2>3, <2>4 DEF S
  <1>8. QED
    <2> USE DEF ab, ba
    <2>1. QED
      BY <1>1, <1>7 DEF a, b, p, w

-----------------------------------------------------------------------------
(* Routes.                                                                 *)

(* One edge more.                                                          *)
LEMMA EdgesOfAppend ==
    ASSUME NEW p \in Seq(Tokens), Len(p) > 0, NEW n \in Tokens
    PROVE  /\ Append(p, n) \in Seq(Tokens)
           /\ Len(Append(p, n)) = Len(p) + 1
           /\ Append(p, n)[Len(p) + 1] = n
           /\ \A i \in 1..Len(p) : Append(p, n)[i] = p[i]
           /\ EdgesOf(Append(p, n)) = EdgesOf(p) \cup {edges[p[Len(p)]][n]}
  <1> DEFINE q == Append(p, n)
             k == Len(p)
  <1>1. /\ q \in Seq(Tokens) /\ Len(q) = k + 1 /\ q[k + 1] = n
        /\ \A i \in 1..k : q[i] = p[i]
        /\ k \in Nat /\ k > 0
    BY AppendProperties, LenProperties
  <1> HIDE DEF q, k
  <1>2. EdgesOf(q) = {edges[q[i]][q[i + 1]] : i \in 1..k}
    BY <1>1 DEF EdgesOf
  <1>3. EdgesOf(p) = {edges[p[i]][p[i + 1]] : i \in 1..(k - 1)}
    BY DEF EdgesOf, k
  <1>4. \A i \in 1..(k - 1) : q[i] = p[i] /\ q[i + 1] = p[i + 1] /\ i \in 1..k
    BY <1>1
  <1>5. q[k] = p[k] /\ k \in 1..k
    BY <1>1
  <1>6. \A i \in 1..k : i \in 1..(k - 1) \/ i = k
    BY <1>1
  <1>7. EdgesOf(q) = EdgesOf(p) \cup {edges[p[k]][n]}
    BY <1>1, <1>2, <1>3, <1>4, <1>5, <1>6
  <1>8. QED
    BY <1>1, <1>7 DEF q, k

LEMMA EdgeFacts ==
    ASSUME TypeInv, NEW a \in Tokens, NEW b \in Tokens, edges[a][b] # NoEdge
    PROVE  /\ edges[a][b] \in Edge
           /\ edges[a][b].weight \in Nat \ {0} /\ edges[a][b].weight <= TopWeight
           /\ edges[a][b].updatedAt \in 1..MaxTime
  BY DEF TypeInv, TypeOK, WeightsBounded, Edge

(* The last token of the path of an item.                                  *)
LEMMA AddrToken ==
    ASSUME NEW i, i.path \in Seq(Tokens), Len(i.path) > 0
    PROVE  Addr(i) \in Tokens /\ Len(i.path) \in 1..Len(i.path) /\ Addr(i) = i.path[Len(i.path)]
  BY ElementOfSeq, LenProperties DEF Addr

(* Following one more edge keeps a path a path, and the measures right.    *)
LEMMA ExtendProperties ==
    ASSUME TypeInv, NEW r \in Readers, NEW i \in Item, ItemOK(i, r),
           NEW n \in Tokens, edges[Addr(i)][n] # NoEdge
    PROVE  LET x == Extend(i, n)
           IN  /\ x \in Item
               /\ Walk(x.path, r)
               /\ Measured(x.path, x.weight, x.fresh)
               /\ Len(x.path) = Len(i.path) + 1
               /\ Addr(x) = n
  <1> DEFINE x == Extend(i, n)
             e == edges[Addr(i)][n]
             p == i.path
             q == x.path
  <1>1. /\ p \in Seq(Tokens) /\ Len(p) \in Nat /\ Len(p) > 0 /\ i.weight \in Nat
        /\ i.fresh \in 0..MaxTime /\ Addr(i) \in Tokens /\ Addr(i) = p[Len(p)]
        /\ MaxTime \in Nat /\ TopWeight \in Nat
    BY LenProperties, AddrToken, PricerAssumption DEF ItemOK, Walk, Item
  <1>0. Len(p) = 1 \/ Len(p) > 1
    <2> DEFINE k == Len(i.path)
    <2>1. k \in Nat /\ k > 0
      BY <1>1
    <2> HIDE DEF k
    <2>2. k = 1 \/ k > 1
      BY <2>1
    <2>3. QED
      BY <2>2 DEF k
  <1>2. e.weight \in Nat \ {0} /\ e.weight <= TopWeight /\ e.updatedAt \in 1..MaxTime
    BY <1>1, EdgeFacts
  <1>3. /\ q = Append(p, n)
        /\ x.weight = IF i.weight <= e.weight THEN i.weight ELSE e.weight
        /\ x.fresh = IF i.fresh # 0 /\ i.fresh < e.updatedAt THEN i.fresh ELSE e.updatedAt
        /\ x = [path |-> q, weight |-> x.weight, fresh |-> x.fresh]
    BY DEF Extend, Lighter
  <1>4. /\ q \in Seq(Tokens) /\ Len(q) = Len(p) + 1 /\ q[Len(p) + 1] = n
        /\ \A j \in 1..Len(p) : q[j] = p[j]
        /\ EdgesOf(q) = EdgesOf(p) \cup {e}
    BY <1>1, <1>3, EdgesOfAppend
  <1>5. Measured(p, i.weight, i.fresh)
    BY DEF ItemOK
  <1>6. /\ p[1] = source[r]
        /\ \A j \in 1..(Len(p) - 1) : edges[p[j]][p[j + 1]] # NoEdge /\ p[j] \notin stables
        /\ p[Len(p)] \notin stables
    BY <1>1 DEF ItemOK, Walk
  <1>7. Walk(q, r)
    <2>1. q[1] = source[r] /\ Len(q) > 0
      BY <1>1, <1>4, <1>6
    <2>2. ASSUME NEW j \in 1..(Len(q) - 1)
          PROVE  edges[q[j]][q[j + 1]] # NoEdge /\ q[j] \notin stables
      <3> HIDE DEF p, q, x, e
      <3>1. CASE j = Len(p)
        <4>1. q[j] = Addr(i) /\ q[j + 1] = n
          BY <1>1, <1>4, <3>1
        <4>2. QED
          BY <1>1, <1>6, <3>1, <4>1
      <3>2. CASE j # Len(p)
        <4>1. j \in 1..(Len(p) - 1) /\ q[j] = p[j] /\ q[j + 1] = p[j + 1]
          BY <1>1, <1>4, <3>2
        <4>2. QED
          BY <1>6, <4>1
      <3>3. QED
        BY <3>1, <3>2
    <2>3. QED
      BY <1>4, <2>1, <2>2 DEF Walk
  <1>8. Measured(q, x.weight, x.fresh)
    <2> SUFFICES /\ \A d \in EdgesOf(q) : x.weight <= d.weight /\ x.fresh <= d.updatedAt
                 /\ \E d \in EdgesOf(q) : x.weight = d.weight
                 /\ \E d \in EdgesOf(q) : x.fresh = d.updatedAt
                 /\ x.fresh # 0
      BY <1>1, <1>4 DEF Measured
    <2>1. CASE Len(p) = 1
      <3>1. EdgesOf(q) = {e}
        <4>1. EdgesOf(p) = {}
          BY <2>1 DEF EdgesOf
        <4>2. QED
          BY <1>4, <4>1
      <3>2. i.weight = TopWeight /\ i.fresh = 0
        BY <1>5, <2>1 DEF Measured
      <3> HIDE DEF p, q, x, e
      <3>3. x.weight = e.weight /\ x.fresh = e.updatedAt
        BY <1>1, <1>2, <1>3, <3>2
      <3>4. QED
        BY <1>2, <3>1, <3>3
    <2>2. CASE Len(p) > 1
      <3>1. /\ \A d \in EdgesOf(p) : i.weight <= d.weight /\ i.fresh <= d.updatedAt
            /\ \E d \in EdgesOf(p) : i.weight = d.weight
            /\ \E d \in EdgesOf(p) : i.fresh = d.updatedAt
            /\ i.fresh # 0
        BY <1>5, <2>2 DEF Measured
      <3>2. ASSUME NEW d \in EdgesOf(p) PROVE d.weight \in Nat /\ d.updatedAt \in Nat
        <4>1. PICK j \in 1..(Len(p) - 1) : d = edges[p[j]][p[j + 1]]
          BY DEF EdgesOf
        <4>2. p[j] \in Tokens /\ p[j + 1] \in Tokens
          BY <1>1, ElementOfSeq
        <4>3. QED
          <5>1. edges[p[j]][p[j + 1]] # NoEdge
            BY <1>6
          <5>2. d.weight \in Nat \ {0} /\ d.updatedAt \in 1..MaxTime
            BY <4>1, <4>2, <5>1, EdgeFacts
          <5>3. QED
            BY <1>1, <5>2
      <3> HIDE DEF p, q, x, e
      <3>3. /\ x.weight <= i.weight /\ x.weight <= e.weight
            /\ x.weight = i.weight \/ x.weight = e.weight
            /\ x.fresh <= i.fresh /\ x.fresh <= e.updatedAt
            /\ x.fresh = i.fresh \/ x.fresh = e.updatedAt
            /\ x.fresh # 0 /\ x.weight \in Nat /\ x.fresh \in Nat
        BY <1>1, <1>2, <1>3, <3>1
      <3>4. \A d \in EdgesOf(p) : x.weight <= d.weight /\ x.fresh <= d.updatedAt
        BY <1>1, <3>1, <3>2, <3>3
      <3>5. QED
        BY <1>4, <3>1, <3>3, <3>4
    <2>3. QED
      BY <1>0, <2>1, <2>2
  <1>9. x \in Item /\ Addr(x) = n
    <2>1. x.weight \in Nat /\ x.fresh \in 0..MaxTime
      <3> HIDE DEF p, q, x, e
      <3>1. QED
        BY <1>1, <1>2, <1>3
    <2>2. Addr(x) = n
      BY <1>4 DEF Addr
    <2>3. x \in Item
      <3> HIDE DEF p, q, x, e
      <3> DEFINE w == x.weight
                 f == x.fresh
      <3>1. q \in Seq(Tokens) /\ w \in Nat /\ f \in 0..MaxTime
        BY <1>4, <2>1
      <3>2. x = [path |-> q, weight |-> w, fresh |-> f]
        BY <1>3
      <3> HIDE DEF w, f
      <3>3. QED
        BY <3>1, <3>2 DEF Item
    <2>4. QED
      BY <2>2, <2>3
  <1>10. QED
    BY <1>4, <1>7, <1>8, <1>9

-----------------------------------------------------------------------------
(* IInv is inductive.                                                      *)

LEMMA IInvInit == Init => IInv
  BY PricerAssumption, EmptySeq
     DEF Init, IInv, TypeInv, TypeOK, CallInv, WeightsBounded, SearchInv, Item, NoItem,
         NotSeen, NoResult

(* A step that changes neither the edges nor the anchors nor a search, or  *)
(* that needs the write lock, leaves the searches as they are.             *)
LEMMA SearchFrame ==
    ASSUME SearchInv, UNCHANGED searchVars, Unlocked \/ UNCHANGED <<edges, stables>>
    PROVE  SearchInv'
  <1>1. CASE Unlocked
    BY <1>1 DEF SearchInv, Unlocked, searchVars
  <1>2. CASE UNCHANGED <<edges, stables>>
    <2> SUFFICES ASSUME NEW r \in Readers
                 PROVE  /\ rpc[r] = "idle" => todo[r] = {} /\ queue[r] = <<>> /\ ~best[r].found
                        /\ rpc[r] = "search" =>
                              /\ \A k \in 1..Len(queue[r]) : ItemOK(queue[r][k], r)'
                              /\ todo[r] # {} => /\ ItemOK(cur[r], r)'
                                                /\ todo[r] \subseteq Neighbours(Addr(cur[r]))'
                              /\ best[r].found => BestOK(r)'
      BY <1>2 DEF SearchInv, searchVars
    <2>1. UNCHANGED <<edges, stables, source, queue, cur, best>>
      BY <1>2 DEF searchVars
    <2>2. ASSUME NEW k \in 1..Len(queue[r]), ItemOK(queue[r][k], r)
          PROVE  ItemOK(queue[r][k], r)'
      BY <2>1, <2>2 DEF ItemOK, Walk, Measured, EdgesOf, Addr
    <2>3. ItemOK(cur[r], r) => ItemOK(cur[r], r)'
      BY <2>1 DEF ItemOK, Walk, Measured, EdgesOf, Addr
    <2>4. Neighbours(Addr(cur[r]))' = Neighbours(Addr(cur[r]))
      BY <2>1 DEF Neighbours, Addr
    <2>5. BestOK(r) => BestOK(r)'
      BY <2>1 DEF BestOK, Walk, Measured, EdgesOf
    <2>6. QED
      BY <2>2, <2>3, <2>4, <2>5 DEF SearchInv
  <1>3. QED
    BY <1>1, <1>2

LEMMA UpdatePairInv ==
    ASSUME IInv, NEW u \in Updaters, NEW a \in Tokens, NEW b \in Tokens, NEW p \in Prices,
           NEW w \in Weights, NEW ts \in 1..MaxTime, UpdatePair(u, a, b, p, w, ts)
    PROVE  IInv'
  <1> DEFINE weight == IF w = 0 THEN MinWeight ELSE w
             c == [a |-> a, b |-> b, price |-> p, weight |-> weight, ts |-> ts]
  <1>1. weight \in Nat \ {0} /\ weight <= TopWeight
    BY PricerAssumption
  <1> HIDE DEF weight
  <1>2. c \in Call /\ c.a # c.b /\ c.weight <= TopWeight
    BY <1>1 DEF Call, UpdatePair
  <1>3. /\ arg' = [arg EXCEPT ![u] = c]
        /\ upc' = [upc EXCEPT ![u] = "tokenA"]
        /\ updates' = updates + 1
        /\ UNCHANGED <<graphVars, tainted, searchVars>>
    BY DEF UpdatePair, weight
  <1> HIDE DEF c
  <1>4. TypeOK'
    BY <1>2, <1>3 DEF IInv, TypeInv, TypeOK, graphVars, searchVars
  <1>5. CallInv' /\ WeightsBounded'
    BY <1>2, <1>3 DEF IInv, TypeInv, TypeOK, CallInv, WeightsBounded, graphVars
  <1>6. SearchInv'
    BY <1>3, SearchFrame DEF IInv, graphVars
  <1>7. QED
    BY <1>4, <1>5, <1>6 DEF IInv, TypeInv

LEMMA RegisterTokenInv ==
    ASSUME IInv, NEW u \in Updaters, RegisterTokenA(u) \/ RegisterTokenB(u)
    PROVE  IInv'
  <1> USE DEF IInv, TypeInv
  <1>1. upc[u] # "idle" /\ arg[u].a \in Tokens /\ arg[u].b \in Tokens
    BY DEF RegisterTokenA, RegisterTokenB, CallInv, Call
  <1>2. /\ symbols' \in {symbols \cup {arg[u].a}, symbols \cup {arg[u].b}}
        /\ upc' \in {[upc EXCEPT ![u] = "tokenB"], [upc EXCEPT ![u] = "edges"]}
        /\ UNCHANGED <<edges, stables, arg, updates, tainted, searchVars>>
    BY DEF RegisterTokenA, RegisterTokenB
  <1>3. TypeOK'
    <2>1. symbols' \in SUBSET Tokens
      BY <1>1, <1>2 DEF TypeOK
    <2>2. upc' \in [Updaters -> {"idle", "tokenA", "tokenB", "edges"}]
      BY <1>2 DEF TypeOK
    <2>3. QED
      BY <1>2, <2>1, <2>2 DEF TypeOK, searchVars
  <1>4. CallInv' /\ WeightsBounded'
    BY <1>1, <1>2 DEF TypeOK, CallInv, WeightsBounded
  <1>5. SearchInv'
    BY <1>2, SearchFrame
  <1>6. QED
    BY <1>3, <1>4, <1>5

LEMMA SetEdgesInv ==
    ASSUME IInv, NEW u \in Updaters, SetEdges(u)
    PROVE  IInv'
  <1> USE DEF IInv, TypeInv
  <1>1. PICK a \in Tokens, b \in Tokens, p \in Prices, w \in Nat \ {0}, ts \in 1..MaxTime :
           /\ a = arg[u].a /\ b = arg[u].b /\ p = arg[u].price /\ w = arg[u].weight
           /\ a # b /\ w <= TopWeight
           /\ edges' \in [Tokens -> [Tokens -> Edge \cup {NoEdge}]]
           /\ edges'[a][b] = SetEdge(edges[a][b], p, w, ts)
           /\ edges'[b][a] = IF InverseOf[p] = Overflow THEN edges[b][a]
                             ELSE SetEdge(edges[b][a], InverseOf[p], w, ts)
           /\ \A x, y \in Tokens : {x, y} # {a, b} => edges'[x][y] = edges[x][y]
    BY SetEdgesEffect
  <1>2. /\ Unlocked
        /\ tainted' = IF InverseOf[p] = Overflow THEN tainted \cup {{a, b}} ELSE tainted
        /\ upc' = [upc EXCEPT ![u] = "idle"]
        /\ arg' = [arg EXCEPT ![u] = NoItem]
        /\ UNCHANGED <<symbols, stables, updates, searchVars>>
    BY <1>1 DEF SetEdges
  <1>3. TypeOK'
    <2>1. tainted' \in SUBSET SUBSET Tokens
      <3>1. tainted \in SUBSET SUBSET Tokens /\ {a, b} \in SUBSET Tokens
        BY DEF TypeOK
      <3>2. QED
        BY <1>2, <3>1
    <2>2. arg' \in [Updaters -> Call \cup {NoItem}]
      BY <1>2 DEF TypeOK
    <2>3. upc' \in [Updaters -> {"idle", "tokenA", "tokenB", "edges"}]
      BY <1>2 DEF TypeOK
    <2>4. QED
      BY <1>1, <1>2, <2>1, <2>2, <2>3 DEF TypeOK, searchVars
  <1>4. CallInv'
    BY <1>2 DEF TypeOK, CallInv
  <1>5. WeightsBounded'
    <2> SUFFICES ASSUME NEW x \in Tokens, NEW y \in Tokens, edges'[x][y] # NoEdge
                 PROVE  edges'[x][y].weight <= TopWeight
      BY DEF WeightsBounded
    <2>1. CASE {x, y} # {a, b}
      BY <1>1, <2>1 DEF WeightsBounded
    <2>2. CASE x = a /\ y = b
      <3>1. /\ edges[a][b] \in Edge \cup {NoEdge}
            /\ edges[a][b] # NoEdge => edges[a][b].weight <= TopWeight
        BY DEF WeightsBounded, TypeOK
      <3>2. SetEdge(edges[a][b], p, w, ts).weight <= TopWeight
        BY <1>1, <3>1, SetEdgeType
      <3>3. QED
        BY <1>1, <2>2, <3>2
    <2>3. CASE x = b /\ y = a
      <3>1. CASE InverseOf[p] = Overflow
        BY <1>1, <2>3, <3>1 DEF WeightsBounded
      <3>2. CASE InverseOf[p] # Overflow
        <4>1. InverseOf[p] \in Prices
          BY <3>2, PricerAssumption
        <4>2. /\ edges[b][a] \in Edge \cup {NoEdge}
              /\ edges[b][a] # NoEdge => edges[b][a].weight <= TopWeight
          BY DEF WeightsBounded, TypeOK
        <4>3. SetEdge(edges[b][a], InverseOf[p], w, ts).weight <= TopWeight
          BY <1>1, <4>1, <4>2, SetEdgeType
        <4>4. QED
          BY <1>1, <2>3, <3>2, <4>3
      <3>3. QED
        BY <3>1, <3>2
    <2>4. QED
      BY <2>1, <2>2, <2>3
  <1>6. SearchInv'
    BY <1>2, SearchFrame
  <1>7. QED
    BY <1>3, <1>4, <1>5, <1>6

LEMMA RegisterStableInv ==
    ASSUME IInv, NEW t \in Tokens, RegisterStable(t)
    PROVE  IInv'
  <1> USE DEF IInv, TypeInv, RegisterStable
  <1>1. TypeOK'
    BY DEF TypeOK, updateVars, searchVars
  <1>2. CallInv' /\ WeightsBounded'
    BY DEF CallInv, WeightsBounded, updateVars
  <1>3. SearchInv'
    BY SearchFrame
  <1>4. QED
    BY <1>1, <1>2, <1>3

(* A step of one search changes nothing the others rely on.                *)
LEMMA OtherSearches ==
    ASSUME IInv, NEW r \in Readers, NEW s \in Readers, s # r,
           UNCHANGED <<edges, stables>>,
           rpc'[s] = rpc[s], source'[s] = source[s], queue'[s] = queue[s], cur'[s] = cur[s],
           todo'[s] = todo[s], best'[s] = best[s]
    PROVE  /\ rpc'[s] = "idle" => todo'[s] = {} /\ queue'[s] = <<>> /\ ~best'[s].found
           /\ rpc'[s] = "search" =>
                 /\ \A k \in 1..Len(queue'[s]) : ItemOK(queue[s][k], s)'
                 /\ todo'[s] # {} => /\ ItemOK(cur[s], s)'
                                     /\ todo'[s] \subseteq Neighbours(Addr(cur[s]))'
                 /\ best'[s].found => BestOK(s)'
  <1>1. ASSUME NEW k \in 1..Len(queue[s]), ItemOK(queue[s][k], s)
        PROVE  ItemOK(queue[s][k], s)'
    BY <1>1 DEF ItemOK, Walk, Measured, EdgesOf, Addr
  <1>2. ItemOK(cur[s], s) => ItemOK(cur[s], s)'
    BY DEF ItemOK, Walk, Measured, EdgesOf, Addr
  <1>3. Neighbours(Addr(cur[s]))' = Neighbours(Addr(cur[s]))
    BY DEF Neighbours, Addr
  <1>4. BestOK(s) => BestOK(s)'
    BY DEF BestOK, Walk, Measured, EdgesOf
  <1>5. QED
    BY <1>1, <1>2, <1>3, <1>4 DEF IInv, SearchInv

LEMMA UpdateFrame ==
    ASSUME TypeInv, UNCHANGED <<graphVars, updateVars>>
    PROVE  CallInv' /\ WeightsBounded'
  BY DEF TypeInv, CallInv, WeightsBounded, graphVars, updateVars

(* A path of one token.                                                    *)
LEMMA FirstItem ==
    ASSUME NEW t \in Tokens
    PROVE  LET i == [path |-> <<t>>, weight |-> TopWeight, fresh |-> 0]
           IN  /\ i \in Item
               /\ Len(i.path) = 1 /\ i.path[1] = t /\ Addr(i) = t
               /\ i.path \in Seq(Tokens) /\ i.weight = TopWeight /\ i.fresh = 0
  BY PricerAssumption DEF Item, Addr

LEMMA StartSearchInv ==
    ASSUME IInv, NEW r \in Readers, NEW t \in Tokens, StartSearch(r, t)
    PROVE  IInv'
  <1> DEFINE i == [path |-> <<t>>, weight |-> TopWeight, fresh |-> 0]
  <1>1. /\ i \in Item
        /\ Len(i.path) = 1 /\ i.path[1] = t /\ Addr(i) = t
        /\ i.path \in Seq(Tokens) /\ i.weight = TopWeight /\ i.fresh = 0
    BY FirstItem
  <1>2. /\ rpc[r] = "idle" /\ t \notin stables
        /\ rpc' = [rpc EXCEPT ![r] = "search"]
        /\ source' = [source EXCEPT ![r] = t]
        /\ queue' = [queue EXCEPT ![r] = <<i>>]
        /\ UNCHANGED <<graphVars, updateVars, cur, todo, best>>
    BY DEF StartSearch
  <1> HIDE DEF i
  <1>3. TypeOK'
    <2>1. visited' \in [Readers -> [Tokens -> [weight : Nat, hops : Nat]]]
      BY PricerAssumption DEF StartSearch, IInv, TypeInv, TypeOK, NotSeen
    <2>2. queue' \in [Readers -> Seq(Item)]
      BY <1>1, <1>2 DEF IInv, TypeInv, TypeOK
    <2>3. QED
      BY <1>2, <2>1, <2>2 DEF IInv, TypeInv, TypeOK, graphVars, updateVars
  <1>4. CallInv' /\ WeightsBounded'
    BY <1>2, UpdateFrame DEF IInv
  <1>5. rpc'[r] = "search" /\ source'[r] = t /\ queue'[r] = <<i>> /\ todo'[r] = {}
        /\ ~best'[r].found
    BY <1>2 DEF IInv, TypeInv, TypeOK, SearchInv
  <1>6. ItemOK(i, r)'
    <2>1. Walk(i.path, r)'
      BY <1>1, <1>5 DEF Walk
    <2>2. Measured(i.path, i.weight, i.fresh)'
      BY <1>1 DEF Measured
    <2>3. QED
      BY <1>1, <1>2, <2>1, <2>2, PricerAssumption DEF ItemOK, graphVars
  <1>7. SearchInv'
    <2>1. ASSUME NEW s \in Readers, s # r
          PROVE  /\ UNCHANGED <<edges, stables>>
                 /\ rpc'[s] = rpc[s] /\ source'[s] = source[s] /\ queue'[s] = queue[s]
                 /\ cur'[s] = cur[s] /\ todo'[s] = todo[s] /\ best'[s] = best[s]
      BY <1>2, <2>1 DEF IInv, TypeInv, TypeOK, graphVars
    <2>2. \A k \in 1..Len(queue'[r]) : queue'[r][k] = i
      BY <1>5
    <2>3. \A k \in 1..Len(queue'[r]) : ItemOK(queue[r][k], r)'
      BY <1>6, <2>2 DEF ItemOK, Addr
    <2>4. QED
      BY <1>5, <2>1, <2>3, OtherSearches DEF SearchInv
  <1>8. QED
    BY <1>3, <1>4, <1>7 DEF IInv, TypeInv

LEMMA PopInv ==
    ASSUME IInv, NEW r \in Readers, Pop(r)
    PROVE  IInv'
  <1>1. /\ rpc[r] = "search" /\ todo[r] = {} /\ queue[r] # <<>>
        /\ cur' = [cur EXCEPT ![r] = Head(queue[r])]
        /\ queue' = [queue EXCEPT ![r] = Tail(queue[r])]
        /\ todo' = [todo EXCEPT ![r] = Neighbours(Addr(Head(queue[r])))]
        /\ UNCHANGED <<graphVars, updateVars, rpc, source, visited, best>>
    BY DEF Pop
  <1>2. /\ Head(queue[r]) \in Item /\ Tail(queue[r]) \in Seq(Item)
        /\ Head(queue[r]) = queue[r][1] /\ 1 \in 1..Len(queue[r])
        /\ Len(Tail(queue[r])) = Len(queue[r]) - 1 /\ Len(queue[r]) \in Nat
        /\ \A k \in 1..Len(Tail(queue[r])) : Tail(queue[r])[k] = queue[r][k + 1]
    <2>1. queue[r] \in Seq(Item)
      BY DEF IInv, TypeInv, TypeOK
    <2>2. Len(queue[r]) \in Nat \ {0}
      BY <1>1, <2>1, EmptySeq
    <2>3. QED
      BY <1>1, <2>1, <2>2, HeadTailProperties
  <1>3. TypeOK'
    <2>1. todo' \in [Readers -> SUBSET Tokens]
      BY <1>1 DEF IInv, TypeInv, TypeOK, Neighbours
    <2>2. cur' \in [Readers -> Item] /\ queue' \in [Readers -> Seq(Item)]
      BY <1>1, <1>2 DEF IInv, TypeInv, TypeOK
    <2>3. QED
      BY <1>1, <2>1, <2>2 DEF IInv, TypeInv, TypeOK, graphVars, updateVars
  <1>4. CallInv' /\ WeightsBounded'
    BY <1>1, UpdateFrame DEF IInv
  <1>5. /\ rpc'[r] = "search" /\ queue'[r] = Tail(queue[r]) /\ cur'[r] = queue[r][1]
        /\ todo'[r] = Neighbours(Addr(queue[r][1]))
        /\ UNCHANGED <<edges, stables, source, best>>
    BY <1>1, <1>2 DEF IInv, TypeInv, TypeOK, graphVars
  <1>6. \A k \in 1..Len(queue[r]) : ItemOK(queue[r][k], r)
    BY <1>1 DEF IInv, SearchInv
  <1>7. ASSUME NEW k \in 1..Len(queue'[r]) PROVE ItemOK(queue[r][k], r)'
    <2>1. k + 1 \in 1..Len(queue[r]) /\ queue'[r][k] = queue[r][k + 1]
      BY <1>2, <1>5
    <2>2. ItemOK(queue[r][k + 1], r)
      BY <1>6, <2>1
    <2>3. QED
      BY <1>5, <2>1, <2>2 DEF ItemOK, Walk, Measured, EdgesOf, Addr
  <1>8. ItemOK(cur[r], r)'
    <2>1. ItemOK(queue[r][1], r)
      BY <1>2, <1>6
    <2>2. QED
      BY <1>5, <2>1 DEF ItemOK, Walk, Measured, EdgesOf, Addr
  <1>9. todo'[r] \subseteq Neighbours(Addr(cur[r]))'
    BY <1>5 DEF Neighbours, Addr
  <1>10. best'[r].found => BestOK(r)'
    <2>1. best[r].found => BestOK(r)
      BY <1>1 DEF IInv, SearchInv
    <2>2. BestOK(r) => BestOK(r)'
      BY <1>5 DEF BestOK, Walk, Measured, EdgesOf
    <2>3. QED
      BY <1>5, <2>1, <2>2
  <1>11. SearchInv'
    <2>1. ASSUME NEW s \in Readers, s # r
          PROVE  /\ UNCHANGED <<edges, stables>>
                 /\ rpc'[s] = rpc[s] /\ source'[s] = source[s] /\ queue'[s] = queue[s]
                 /\ cur'[s] = cur[s] /\ todo'[s] = todo[s] /\ best'[s] = best[s]
      BY <1>1, <2>1 DEF IInv, TypeInv, TypeOK, graphVars
    <2>2. QED
      BY <1>5, <1>7, <1>8, <1>9, <1>10, <2>1, OtherSearches DEF SearchInv
  <1>12. QED
    BY <1>3, <1>4, <1>11 DEF IInv, TypeInv

LEMMA ReturnInv ==
    ASSUME IInv, NEW r \in Readers, Return(r)
    PROVE  IInv'
  <1>1. /\ todo[r] = {} /\ queue[r] = <<>>
        /\ rpc' = [rpc EXCEPT ![r] = "idle"]
        /\ source' = [source EXCEPT ![r] = NoItem]
        /\ cur' = [cur EXCEPT ![r] = NoItem]
        /\ visited' = [visited EXCEPT ![r] = [t \in Tokens |-> NotSeen]]
        /\ best' = [best EXCEPT ![r] = NoResult]
        /\ UNCHANGED <<graphVars, updateVars, queue, todo>>
    BY DEF Return, Exhausted
  <1>2. NoItem \in Item /\ NotSeen \in [weight : Nat, hops : Nat]
        /\ NoResult \in [found : BOOLEAN, path : Seq(Tokens), weight : Nat, fresh : 0..MaxTime]
        /\ ~NoResult.found
    BY PricerAssumption DEF NoItem, Item, NotSeen, NoResult
  <1>3. TypeOK'
    BY <1>1, <1>2 DEF IInv, TypeInv, TypeOK, graphVars, updateVars
  <1>4. CallInv' /\ WeightsBounded'
    BY <1>1, UpdateFrame DEF IInv
  <1>5. SearchInv'
    <2>1. ASSUME NEW s \in Readers, s # r
          PROVE  /\ UNCHANGED <<edges, stables>>
                 /\ rpc'[s] = rpc[s] /\ source'[s] = source[s] /\ queue'[s] = queue[s]
                 /\ cur'[s] = cur[s] /\ todo'[s] = todo[s] /\ best'[s] = best[s]
      BY <1>1, <2>1 DEF IInv, TypeInv, TypeOK, graphVars
    <2>2. rpc'[r] = "idle" /\ todo'[r] = {} /\ queue'[r] = <<>> /\ best'[r] = NoResult
      BY <1>1 DEF IInv, TypeInv, TypeOK
    <2>3. QED
      BY <1>2, <2>1, <2>2, OtherSearches DEF SearchInv
  <1>6. QED
    BY <1>3, <1>4, <1>5 DEF IInv, TypeInv

(* What looking at a neighbour does: it may queue the longer path, or make *)
(* it the candidate.                                                       *)
LEMMA VisitEffect ==
    ASSUME IInv, NEW r \in Readers, NEW n \in Tokens, Visit(r, n)
    PROVE  LET x == Extend(cur[r], n)
           IN  /\ x \in Item /\ Walk(x.path, r) /\ Measured(x.path, x.weight, x.fresh)
               /\ Len(x.path) \in 2..(MaxHops + 1) /\ Addr(x) = n
               /\ \/ queue' = queue
                  \/ /\ queue' = [queue EXCEPT ![r] = Append(@, x)]
                     /\ Len(x.path) <= MaxHops /\ n \notin stables
               /\ \/ best' = best
                  \/ /\ best' = [best EXCEPT ![r] = [found |-> TRUE, path |-> x.path,
                                                     weight |-> x.weight, fresh |-> x.fresh]]
                     /\ n \in stables
               /\ \/ visited' = visited
                  \/ visited' = [visited EXCEPT ![r][n] = [weight |-> x.weight,
                                                           hops |-> Hops(x)]]
  <1> DEFINE x == Extend(cur[r], n)
  <1>1. /\ cur[r] \in Item /\ ItemOK(cur[r], r) /\ edges[Addr(cur[r])][n] # NoEdge
        /\ Len(cur[r].path) \in 1..MaxHops
    <2>1. rpc[r] = "search" /\ n \in todo[r]
      BY DEF Visit
    <2>2. cur[r] \in Item /\ ItemOK(cur[r], r) /\ n \in Neighbours(Addr(cur[r]))
      BY <2>1 DEF IInv, TypeInv, TypeOK, SearchInv
    <2>3. Len(cur[r].path) \in Nat /\ Len(cur[r].path) > 0 /\ Len(cur[r].path) <= MaxHops
      BY <2>2, LenProperties DEF ItemOK, Walk
    <2>4. QED
      BY <2>2, <2>3, PricerAssumption DEF Neighbours
  <1>2. /\ x \in Item /\ Walk(x.path, r) /\ Measured(x.path, x.weight, x.fresh)
        /\ Len(x.path) = Len(cur[r].path) + 1 /\ Addr(x) = n
    BY <1>1, ExtendProperties DEF IInv
  <1>3. Len(x.path) \in 2..(MaxHops + 1)
    <2> HIDE DEF x
    <2>1. QED
      BY <1>1, <1>2, PricerAssumption
  <1>4. /\ \/ queue' = queue
           \/ /\ queue' = [queue EXCEPT ![r] = Append(@, x)]
              /\ Hops(x) < MaxHops /\ n \notin stables
        /\ \/ best' = best
           \/ /\ best' = [best EXCEPT ![r] = [found |-> TRUE, path |-> x.path,
                                              weight |-> x.weight, fresh |-> x.fresh]]
              /\ n \in stables
        /\ \/ visited' = visited
           \/ visited' = [visited EXCEPT ![r][n] = [weight |-> x.weight, hops |-> Hops(x)]]
    BY DEF Visit, VisitStable, VisitToken
  <1> HIDE DEF x
  <1>5. Hops(x) < MaxHops => Len(x.path) <= MaxHops
    BY <1>3, PricerAssumption DEF Hops
  <1>6. QED
    BY <1>2, <1>3, <1>4, <1>5 DEF x

LEMMA VisitInv ==
    ASSUME IInv, NEW r \in Readers, NEW n \in Tokens, Visit(r, n)
    PROVE  IInv'
  <1> DEFINE x == Extend(cur[r], n)
             b == [found |-> TRUE, path |-> x.path, weight |-> x.weight, fresh |-> x.fresh]
             v == [weight |-> x.weight, hops |-> Hops(x)]
  <1>1. /\ x \in Item /\ Walk(x.path, r) /\ Measured(x.path, x.weight, x.fresh)
        /\ Len(x.path) \in 2..(MaxHops + 1) /\ Addr(x) = n
        /\ \/ queue' = queue
           \/ /\ queue' = [queue EXCEPT ![r] = Append(@, x)]
              /\ Len(x.path) <= MaxHops /\ n \notin stables
        /\ \/ best' = best
           \/ best' = [best EXCEPT ![r] = b] /\ n \in stables
        /\ visited' = visited \/ visited' = [visited EXCEPT ![r][n] = v]
    BY VisitEffect
  <1>2. /\ rpc[r] = "search" /\ n \in todo[r]
        /\ todo' = [todo EXCEPT ![r] = @ \ {n}]
        /\ UNCHANGED <<graphVars, updateVars, rpc, source, cur>>
    BY DEF Visit
  <1>3. /\ b \in [found : BOOLEAN, path : Seq(Tokens), weight : Nat, fresh : 0..MaxTime]
        /\ b.path = x.path /\ b.weight = x.weight /\ b.fresh = x.fresh
    <2> HIDE DEF x
    <2>1. QED
      BY <1>1 DEF Item
  <1>4. v \in [weight : Nat, hops : Nat]
    <2> HIDE DEF x
    <2>1. x.weight \in Nat /\ Hops(x) \in Nat
      BY <1>1, PricerAssumption DEF Item, Hops
    <2>2. QED
      BY <2>1
  <1> HIDE DEF x, b, v
  <1>5. TypeOK'
    <2>1. queue' \in [Readers -> Seq(Item)]
      <3>1. queue \in [Readers -> Seq(Item)]
        BY DEF IInv, TypeInv, TypeOK
      <3>2. Append(queue[r], x) \in Seq(Item)
        BY <1>1, <3>1, AppendProperties
      <3>3. QED
        BY <1>1, <3>1, <3>2
    <2>2. best' \in [Readers -> [found : BOOLEAN, path : Seq(Tokens), weight : Nat,
                                 fresh : 0..MaxTime]]
      BY <1>1, <1>3 DEF IInv, TypeInv, TypeOK
    <2>3. visited' \in [Readers -> [Tokens -> [weight : Nat, hops : Nat]]]
      <3>1. visited \in [Readers -> [Tokens -> [weight : Nat, hops : Nat]]]
        BY DEF IInv, TypeInv, TypeOK
      <3>2. CASE visited' = [visited EXCEPT ![r][n] = v]
        <4> DEFINE S == [weight : Nat, hops : Nat]
        <4> HIDE DEF S
        <4>1. visited \in [Readers -> [Tokens -> S]] /\ v \in S
          BY <1>4, <3>1 DEF S
        <4>2. visited' \in [Readers -> [Tokens -> S]]
          BY <3>2, <4>1
        <4>3. QED
          BY <4>2 DEF S
      <3>3. QED
        BY <1>1, <3>1, <3>2
    <2>4. todo' \in [Readers -> SUBSET Tokens]
      BY <1>2 DEF IInv, TypeInv, TypeOK
    <2>5. QED
      BY <1>2, <2>1, <2>2, <2>3, <2>4 DEF IInv, TypeInv, TypeOK, graphVars, updateVars
  <1>6. CallInv' /\ WeightsBounded'
    BY <1>2, UpdateFrame DEF IInv
  <1>7. /\ rpc'[r] = "search" /\ todo'[r] = todo[r] \ {n} /\ cur'[r] = cur[r]
        /\ source'[r] = source[r] /\ UNCHANGED <<edges, stables>>
        /\ queue[r] \in Seq(Item)
        /\ \/ queue'[r] = queue[r]
           \/ queue'[r] = Append(queue[r], x) /\ Len(x.path) <= MaxHops /\ n \notin stables
        /\ best'[r] = best[r] \/ (best'[r] = b /\ n \in stables)
    BY <1>1, <1>2 DEF IInv, TypeInv, TypeOK, graphVars
  <1>8. /\ \A k \in 1..Len(queue[r]) : ItemOK(queue[r][k], r)
        /\ ItemOK(cur[r], r) /\ todo[r] \subseteq Neighbours(Addr(cur[r]))
        /\ best[r].found => BestOK(r)
    BY <1>2 DEF IInv, SearchInv
  <1>9. ASSUME NEW k \in 1..Len(queue'[r]) PROVE ItemOK(queue[r][k], r)'
    <2>1. CASE k \in 1..Len(queue[r]) /\ queue'[r][k] = queue[r][k]
      <3>1. ItemOK(queue[r][k], r)
        BY <1>8, <2>1
      <3>2. QED
        BY <1>7, <2>1, <3>1 DEF ItemOK, Walk, Measured, EdgesOf, Addr
    <2>2. CASE queue'[r][k] = x /\ Len(x.path) <= MaxHops /\ n \notin stables
      <3>1. ItemOK(x, r)
        BY <1>1, <2>2 DEF ItemOK
      <3>2. QED
        BY <1>7, <2>2, <3>1 DEF ItemOK, Walk, Measured, EdgesOf, Addr
    <2>3. CASE queue'[r] = Append(queue[r], x) /\ Len(x.path) <= MaxHops /\ n \notin stables
      <3>1. /\ Len(queue'[r]) = Len(queue[r]) + 1 /\ Len(queue[r]) \in Nat
            /\ \A j \in 1..Len(queue[r]) : queue'[r][j] = queue[r][j]
            /\ queue'[r][Len(queue[r]) + 1] = x
        BY <1>1, <1>7, <2>3, AppendProperties, LenProperties
      <3>2. k \in 1..Len(queue[r]) \/ k = Len(queue[r]) + 1
        BY <3>1
      <3>3. QED
        BY <2>1, <2>2, <2>3, <3>1, <3>2
    <2>4. QED
      BY <1>7, <2>1, <2>3
  <1>10. ItemOK(cur[r], r)' /\ todo'[r] \subseteq Neighbours(Addr(cur[r]))'
    <2>1. ItemOK(cur[r], r)'
      <3>1. ItemOK(cur[r], r)
        BY <1>8
      <3>2. edges' = edges /\ stables' = stables /\ cur'[r] = cur[r] /\ source'[r] = source[r]
        BY <1>7
      <3>3. QED
        BY <3>1, <3>2 DEF ItemOK, Walk, Measured, EdgesOf, Addr
    <2>2. Neighbours(Addr(cur[r]))' = Neighbours(Addr(cur[r]))
      BY <1>7 DEF Neighbours, Addr
    <2>3. QED
      BY <1>7, <1>8, <2>1, <2>2
  <1>11. best'[r].found => BestOK(r)'
    <2>1. CASE best'[r] = best[r]
      <3>1. BestOK(r) => BestOK(r)'
        BY <1>7, <2>1 DEF BestOK, Walk, Measured, EdgesOf
      <3>2. QED
        BY <1>8, <2>1, <3>1
    <2>2. CASE best'[r] = b /\ n \in stables
      <3>1. x.path[Len(x.path)] \in stables
        BY <1>1, <2>2 DEF Addr
      <3>2. /\ best'[r].path = x.path /\ best'[r].weight = x.weight
            /\ best'[r].fresh = x.fresh
        BY <1>3, <2>2
      <3>3. QED
        BY <1>1, <1>7, <3>1, <3>2 DEF BestOK, Walk, Measured, EdgesOf
    <2>3. QED
      BY <1>7, <2>1, <2>2
  <1>12. SearchInv'
    <2>1. ASSUME NEW s \in Readers, s # r
          PROVE  /\ UNCHANGED <<edges, stables>>
                 /\ rpc'[s] = rpc[s] /\ source'[s] = source[s] /\ queue'[s] = queue[s]
                 /\ cur'[s] = cur[s] /\ todo'[s] = todo[s] /\ best'[s] = best[s]
      BY <1>1, <1>2, <2>1 DEF IInv, TypeInv, TypeOK, graphVars
    <2>2. QED
      BY <1>7, <1>9, <1>10, <1>11, <2>1, OtherSearches DEF SearchInv
  <1>13. QED
    BY <1>5, <1>6, <1>12 DEF IInv, TypeInv

LEMMA StutterInv == IInv /\ UNCHANGED vars => IInv'
  <1> SUFFICES ASSUME IInv, UNCHANGED vars PROVE IInv'
    OBVIOUS
  <1>1. TypeOK'
    BY DEF IInv, TypeInv, TypeOK, vars, graphVars, updateVars, searchVars
  <1>2. CallInv' /\ WeightsBounded'
    BY UpdateFrame DEF IInv, vars
  <1>3. SearchInv'
    BY SearchFrame DEF IInv, vars, graphVars
  <1>4. QED
    BY <1>1, <1>2, <1>3 DEF IInv, TypeInv

LEMMA IInvStep == IInv /\ [Next]_vars => IInv'
  BY UpdatePairInv, RegisterTokenInv, SetEdgesInv, RegisterStableInv, StartSearchInv, PopInv,
     VisitInv, ReturnInv, StutterInv
     DEF Next, UpdaterStep, ReaderStep

LEMMA IInvInvariant == Spec => []IInv
  BY IInvInit, IInvStep, PTL DEF Spec

-----------------------------------------------------------------------------
(* Every variable keeps its type, for any number of concurrent updates and *)
(* searches (graph_pricer.go:38-58, 194-376).                              *)
THEOREM TypeCorrect == Spec => []TypeOK
  BY IInvInvariant, PTL DEF IInv, TypeInv

(* What a search would answer is a route of the current graph to an        *)
(* anchor, with the weight of its lightest edge and the time of its oldest *)
(* one, although other goroutines update the graph between searches        *)
(* (graph_pricer.go:275-327).                                              *)
THEOREM CandidatesSound == Spec => []CandidateSound
  <1>1. IInv => CandidateSound
    <2> SUFFICES ASSUME IInv, NEW r \in Readers, rpc[r] = "search", best[r].found
                 PROVE  /\ best[r].path[1] = source[r]
                        /\ IsRoute(best[r].path)
                        /\ \A e \in EdgesOf(best[r].path) :
                              best[r].weight <= e.weight /\ best[r].fresh <= e.updatedAt
                        /\ \E e \in EdgesOf(best[r].path) : best[r].weight = e.weight
                        /\ \E e \in EdgesOf(best[r].path) : best[r].fresh = e.updatedAt
      BY DEF CandidateSound
    <2>1. BestOK(r)
      BY DEF IInv, SearchInv
    <2>2. Len(best[r].path) > 1 /\ Len(best[r].path) <= MaxHops + 1
      BY <2>1, PricerAssumption DEF BestOK
    <2>3. IsRoute(best[r].path)
      BY <2>1, <2>2 DEF BestOK, Walk, IsRoute
    <2>4. QED
      BY <2>1, <2>2, <2>3 DEF BestOK, Walk, Measured
  <1>2. QED
    BY <1>1, IInvInvariant, PTL

-----------------------------------------------------------------------------
(* Registration.                                                           *)

LEMMA RegisterStep ==
    ASSUME IInv, RegisterInv, EdgesRegistered, [Next]_vars
    PROVE  RegisterInv' /\ EdgesRegistered'
  <1> USE DEF IInv, TypeInv
  <1>1. ASSUME UNCHANGED <<edges, upc, arg>>, symbols \subseteq symbols'
        PROVE  RegisterInv' /\ EdgesRegistered'
    BY <1>1 DEF RegisterInv, EdgesRegistered
  <1>2. ASSUME NEW t \in Tokens, RegisterStable(t)
        PROVE  RegisterInv' /\ EdgesRegistered'
    BY <1>1, <1>2 DEF RegisterStable, updateVars
  <1>3. ASSUME NEW u \in Updaters, NEW a \in Tokens, NEW b \in Tokens, NEW p \in Prices,
               NEW w \in Weights, NEW ts \in 1..MaxTime, UpdatePair(u, a, b, p, w, ts)
        PROVE  RegisterInv' /\ EdgesRegistered'
    <2>1. UNCHANGED <<edges, symbols>> /\ upc'[u] = "tokenA"
          /\ \A v \in Updaters : v # u => upc'[v] = upc[v] /\ arg'[v] = arg[v]
      BY <1>3 DEF UpdatePair, graphVars, TypeOK
    <2>2. QED
      BY <2>1 DEF RegisterInv, EdgesRegistered
  <1>4. ASSUME NEW u \in Updaters, RegisterTokenA(u)
        PROVE  RegisterInv' /\ EdgesRegistered'
    <2>1. /\ UNCHANGED <<edges, arg>> /\ upc'[u] = "tokenB"
          /\ symbols' = symbols \cup {arg[u].a}
          /\ \A v \in Updaters : v # u => upc'[v] = upc[v]
      BY <1>4 DEF RegisterTokenA, TypeOK
    <2>2. QED
      BY <2>1 DEF RegisterInv, EdgesRegistered
  <1>5. ASSUME NEW u \in Updaters, RegisterTokenB(u)
        PROVE  RegisterInv' /\ EdgesRegistered'
    <2>1. /\ UNCHANGED <<edges, arg>> /\ upc[u] = "tokenB" /\ upc'[u] = "edges"
          /\ symbols' = symbols \cup {arg[u].b}
          /\ \A v \in Updaters : v # u => upc'[v] = upc[v]
      BY <1>5 DEF RegisterTokenB, TypeOK
    <2>2. QED
      BY <2>1 DEF RegisterInv, EdgesRegistered
  <1>6. ASSUME NEW u \in Updaters, SetEdges(u)
        PROVE  RegisterInv' /\ EdgesRegistered'
    <2>1. /\ upc[u] = "edges" /\ upc'[u] = "idle" /\ symbols' = symbols
          /\ \A v \in Updaters : v # u => upc'[v] = upc[v] /\ arg'[v] = arg[v]
      BY <1>6 DEF SetEdges, TypeOK
    <2>2. {arg[u].a, arg[u].b} \subseteq symbols
      BY <2>1 DEF RegisterInv
    <2>3. \A x, y \in Tokens : {x, y} # {arg[u].a, arg[u].b} => edges'[x][y] = edges[x][y]
      <3>1. PICK a \in Tokens, b \in Tokens, p \in Prices, w \in Nat \ {0}, ts \in 1..MaxTime :
               /\ a = arg[u].a /\ b = arg[u].b /\ p = arg[u].price /\ w = arg[u].weight
               /\ a # b /\ w <= TopWeight
               /\ edges' \in [Tokens -> [Tokens -> Edge \cup {NoEdge}]]
               /\ edges'[a][b] = SetEdge(edges[a][b], p, w, ts)
               /\ edges'[b][a] = IF InverseOf[p] = Overflow THEN edges[b][a]
                                 ELSE SetEdge(edges[b][a], InverseOf[p], w, ts)
               /\ \A x, y \in Tokens : {x, y} # {a, b} => edges'[x][y] = edges[x][y]
        BY <1>6, SetEdgesEffect
      <3>2. QED
        BY <3>1
    <2>4. RegisterInv'
      BY <2>1 DEF RegisterInv
    <2>5. ASSUME NEW x \in Tokens, NEW y \in Tokens, edges'[x][y] # NoEdge
          PROVE  {x, y} \subseteq symbols
      <3>1. CASE {x, y} = {arg[u].a, arg[u].b}
        BY <2>2, <3>1
      <3>2. CASE {x, y} # {arg[u].a, arg[u].b}
        BY <2>3, <2>5, <3>2 DEF EdgesRegistered
      <3>3. QED
        BY <3>1, <3>2
    <2>6. QED
      BY <2>1, <2>4, <2>5 DEF EdgesRegistered
  <1>7. ASSUME NEW r \in Readers, ReaderStep(r)
        PROVE  RegisterInv' /\ EdgesRegistered'
    <2>1. UNCHANGED <<edges, symbols, upc, arg>>
      BY <1>7 DEF ReaderStep, StartSearch, Pop, Visit, Return, graphVars, updateVars
    <2>2. QED
      BY <1>1, <2>1
  <1>8. CASE UNCHANGED vars
    BY <1>1, <1>8 DEF vars, graphVars, updateVars
  <1>9. QED
    BY <1>2, <1>3, <1>4, <1>5, <1>6, <1>7, <1>8 DEF Next, UpdaterStep

(* No edge names a token without a symbol, although UpdatePair releases    *)
(* the lock between registering the tokens and setting the edges           *)
(* (graph_pricer.go:211-217).                                              *)
THEOREM TokensRegistered == Spec => []EdgesRegistered
  <1> DEFINE Inv == IInv /\ RegisterInv /\ EdgesRegistered
  <1>1. Init => Inv
    BY IInvInit DEF Init, RegisterInv, EdgesRegistered
  <1>2. Inv /\ [Next]_vars => Inv'
    BY IInvStep, RegisterStep
  <1>3. QED
    BY <1>1, <1>2, PTL DEF Spec

-----------------------------------------------------------------------------
(* The two directions of a pair.                                           *)

LEMMA ReciprocalSetEdges ==
    ASSUME IInv, Reciprocal, NEW u \in Updaters, SetEdges(u)
    PROVE  Reciprocal'
  <1> USE DEF IInv, TypeInv
  <1>1. PICK a \in Tokens, b \in Tokens, p \in Prices, w \in Nat \ {0}, ts \in 1..MaxTime :
           /\ a = arg[u].a /\ b = arg[u].b /\ p = arg[u].price /\ w = arg[u].weight
           /\ a # b /\ w <= TopWeight
           /\ edges' \in [Tokens -> [Tokens -> Edge \cup {NoEdge}]]
           /\ edges'[a][b] = SetEdge(edges[a][b], p, w, ts)
           /\ edges'[b][a] = IF InverseOf[p] = Overflow THEN edges[b][a]
                             ELSE SetEdge(edges[b][a], InverseOf[p], w, ts)
           /\ \A x, y \in Tokens : {x, y} # {a, b} => edges'[x][y] = edges[x][y]
    BY SetEdgesEffect
  <1>2. tainted' = IF InverseOf[p] = Overflow THEN tainted \cup {{a, b}} ELSE tainted
    BY <1>1 DEF SetEdges
  <1>3. SUFFICES ASSUME NEW x \in Tokens, NEW y \in Tokens,
                        edges'[x][y] # NoEdge, {x, y} \notin tainted'
                 PROVE  /\ edges'[y][x] # NoEdge
                        /\ edges'[y][x].price = InverseOf[edges'[x][y].price]
                        /\ edges'[y][x].weight = edges'[x][y].weight
                        /\ edges'[y][x].updatedAt = edges'[x][y].updatedAt
    BY DEF Reciprocal
  <1>4. {x, y} \notin tainted
    BY <1>2, <1>3
  <1>5. CASE {x, y} # {a, b}
    <2>1. edges'[x][y] = edges[x][y] /\ edges'[y][x] = edges[y][x]
      <3>1. {y, x} # {a, b}
        BY <1>5
      <3>2. \A v, z \in Tokens : {v, z} # {a, b} => edges'[v][z] = edges[v][z]
        BY <1>1
      <3>3. QED
        BY <1>5, <3>1, <3>2
    <2>2. QED
      BY <1>3, <1>4, <2>1 DEF Reciprocal
  <1>6. CASE {x, y} = {a, b}
    <2>1. InverseOf[p] \in Prices /\ InverseOf[InverseOf[p]] = p /\ {a, b} \notin tainted
      BY <1>2, <1>3, <1>4, <1>6, PricerAssumption
    <2> DEFINE d == edges[a][b]
               e == edges[b][a]
               q == InverseOf[p]
    <2>2. edges'[a][b] = SetEdge(d, p, w, ts) /\ edges'[b][a] = SetEdge(e, q, w, ts)
      BY <1>1, <2>1, PricerAssumption
    <2>3. {b, a} = {a, b}
      OBVIOUS
    <2>4. /\ d # NoEdge => /\ e # NoEdge /\ e.price = InverseOf[d.price]
                           /\ e.weight = d.weight /\ e.updatedAt = d.updatedAt
          /\ e # NoEdge => /\ d # NoEdge /\ d.price = InverseOf[e.price]
                           /\ d.weight = e.weight /\ d.updatedAt = e.updatedAt
      BY <1>1, <2>1, <2>3 DEF Reciprocal
    <2>5. d \in Edge \cup {NoEdge} /\ e \in Edge \cup {NoEdge}
      BY DEF TypeOK
    <2>6. SetEdge(d, p, w, ts) \in Edge /\ SetEdge(e, q, w, ts) \in Edge
      BY <2>1, <2>5, SetEdgeType
    <2>7. Superseded(d, w, ts) <=> Superseded(e, w, ts)
      BY <2>4 DEF Superseded
    <2> HIDE DEF d, e, q
    <2>8. LET f == SetEdge(d, p, w, ts)
              g == SetEdge(e, q, w, ts)
          IN  /\ f # NoEdge /\ g # NoEdge
              /\ g.price = InverseOf[f.price] /\ f.price = InverseOf[g.price]
              /\ g.weight = f.weight /\ g.updatedAt = f.updatedAt
      <3>1. CASE Superseded(d, w, ts)
        BY <2>4, <2>7, <3>1 DEF SetEdge, Superseded
      <3>2. CASE ~Superseded(d, w, ts)
        BY <2>1, <2>6, <2>7, <3>2, NoEdgeAssumption DEF SetEdge, q
      <3>3. QED
        BY <3>1, <3>2
    <2>9. (x = a /\ y = b) \/ (x = b /\ y = a)
      BY <1>1, <1>6
    <2>10. QED
      BY <2>2, <2>8, <2>9
  <1>7. QED
    BY <1>5, <1>6

(* As long as the inverse of its prices is finite, the two directions of a *)
(* pair are one quote, for all interleavings of updates and whatever order *)
(* their timestamps come in (graph_pricer.go:214-221, 363-376).            *)
THEOREM PairsReciprocal == Spec => []Reciprocal
  <1> DEFINE Inv == IInv /\ Reciprocal
  <1>1. Init => Inv
    BY IInvInit DEF Init, Reciprocal
  <1>2. Inv /\ [Next]_vars => Inv'
    <2> SUFFICES ASSUME IInv, Reciprocal, [Next]_vars PROVE Reciprocal'
      BY IInvStep
    <2>1. CASE \E u \in Updaters : SetEdges(u)
      BY <2>1, ReciprocalSetEdges
    <2>2. CASE ~ \E u \in Updaters : SetEdges(u)
      <3>1. UNCHANGED <<edges, tainted>>
        BY <2>2 DEF Next, UpdaterStep, ReaderStep, RegisterStable, UpdatePair, RegisterTokenA,
                    RegisterTokenB, StartSearch, Pop, Visit, Return, vars, graphVars, updateVars
      <3>2. QED
        BY <3>1 DEF Reciprocal
    <2>3. QED
      BY <2>1, <2>2
  <1>3. QED
    BY <1>1, <1>2, PTL DEF Spec
=============================================================================
