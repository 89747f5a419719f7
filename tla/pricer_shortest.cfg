\* The comment of ResolveUSD against every graph of four tokens, two weights.
CONSTANTS
    A = A
    B = B
    C = C
    U = U
    V = V
    one = one
    two = two
    half = half
    tiny = tiny
    Overflow = Overflow
    NoEdge = NoEdge
    Tokens = {A, B, C, U}
    Order <- MCOrder4
    InitStables = {U}
    Updaters = {}
    Readers = {r1}
    Prices = {one}
    InverseOf <- MCInverseOf
    Weights = {1, 2}
    MinWeight = 1
    TopWeight = 9
    Epsilon = 0
    MaxTime = 1
    MaxHops = 3
    MaxUpdates = 0
SPECIFICATION AnyGraphSpec
SYMMETRY TokenSymmetry
INVARIANT ShortestRoute
