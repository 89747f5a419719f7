\* Two connectors update while a third resolves.
CONSTANTS
    A = A
    B = B
    U = U
    C = C
    V = V
    one = one
    two = two
    half = half
    tiny = tiny
    Overflow = Overflow
    NoEdge = NoEdge
    Tokens = {A, B, U}
    Order <- MCOrder3
    InitStables = {U}
    Updaters = {u1, u2}
    Readers = {r1}
    Prices <- MCPrices
    InverseOf <- MCInverseOf
    Weights = {0, 3}
    MinWeight = 1
    TopWeight = 9
    Epsilon = 1
    MaxTime = 2
    MaxHops = 3
    MaxUpdates = 2
SPECIFICATION Spec
INVARIANT TypeOK
INVARIANT Reciprocal
INVARIANT EdgesRegistered
INVARIANT CandidateSound
