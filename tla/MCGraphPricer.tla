--------------------------- MODULE MCGraphPricer ---------------------------
(***************************************************************************)
(* Instances of GraphPricer for TLC.                                       *)
(***************************************************************************)
EXTENDS GraphPricer, TLC

CONSTANTS
    A, B, C, U, V,          (* tokens; U and V are anchors                     *)
    one, two, half, tiny    (* prices: 1, 2, 1/2, and one without finite inverse *)

MCOrder3 == <<A, B, U>>
MCOrder4 == <<A, B, C, U>>


MCPrices == {two, half, tiny}

MCInverseOf ==
    [p \in Prices |-> CASE p = one  -> one
                       [] p = two  -> half
                       [] p = half -> two
                       [] p = tiny -> Overflow]

-----------------------------------------------------------------------------
(* Searches over every graph: the initial states are all graphs a sequence *)
(* of updates, one per pair, can have built, so that no update has to be   *)
(* taken.  Prices play no part in the search: all are 1 here, and tokens   *)
(* that are not anchors can be exchanged.                                  *)
CONSTANT Order              (* an enumeration of Tokens                     *)

MCPairs == {<<i, j>> \in (1..Len(Order)) \X (1..Len(Order)) : i < j}

MCQuotes == {NoEdge} \cup [price : Prices, weight : Weights \ {0}, updatedAt : 1..MaxTime]

Position(t) == CHOOSE i \in 1..Len(Order) : Order[i] = t

GraphOf(q) ==
    [a \in Tokens |-> [b \in Tokens |->
        LET i == Position(a)
            j == Position(b)
        IN  IF i < j THEN q[<<i, j>>] ELSE IF j < i THEN q[<<j, i>>] ELSE NoEdge]]

TokenSymmetry == Permutations(Tokens \ InitStables)

AnyGraphInit ==
    /\ \E q \in [MCPairs -> MCQuotes] : edges = GraphOf(q)
    /\ symbols = Tokens
    /\ stables = InitStables
    /\ upc = [u \in Updaters |-> "idle"]
    /\ arg = [u \in Updaters |-> NoItem]
    /\ updates = 0
    /\ tainted = {}
    /\ rpc = [r \in Readers |-> "idle"]
    /\ source = [r \in Readers |-> NoItem]
    /\ queue = [r \in Readers |-> <<>>]
    /\ cur = [r \in Readers |-> NoItem]
    /\ todo = [r \in Readers |-> {}]
    /\ visited = [r \in Readers |-> [t \in Tokens |-> NotSeen]]
    /\ best = [r \in Readers |-> NoResult]

AnyGraphSpec == AnyGraphInit /\ [][Next]_vars
=============================================================================
