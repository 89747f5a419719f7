--------------------------- MODULE TokenRegistry ---------------------------
(***************************************************************************)
(* What the connectors know of tokens: the registry file (internal/assets) *)
(* and the index a connector builds from it (TokenRegistry in              *)
(* v2_connector.go).  A file has, for the network of the connector, a      *)
(* sequence of stables and one of natives; a token of it is a record       *)
(* [sym, addr, complete, wrapped].                                         *)
(***************************************************************************)
EXTENDS Naturals, Sequences

CONSTANTS
    FallbackStables,    (* the stables of NewTokenRegistry                  *)
    FallbackWETH        (* and its WETH                                     *)

(* convertTokens: one incomplete or repeated token refuses the file.       *)
Valid(list) ==
    \A i \in DOMAIN list :
        /\ list[i].complete
        /\ \A j \in DOMAIN list : i # j => /\ list[i].sym # list[j].sym
                                           /\ list[i].addr # list[j].addr

(* LoadOrGetProvider and TokensByNetwork: the service goes on without a    *)
(* file it cannot use.                                                     *)
Catalog(file) ==
    IF Valid(file.stable) /\ Valid(file.native)
    THEN [stable |-> {file.stable[i] : i \in DOMAIN file.stable},
          native |-> {file.native[i] : i \in DOMAIN file.native}]
    ELSE [stable |-> {}, native |-> {}]

IsWETH(t) == t.wrapped \/ t.sym = "WETH"

(* NewTokenRegistry.                                                       *)
NewTokenRegistry(file) ==
    LET c == Catalog(file) IN
    [stable |-> IF c.stable = {} THEN FallbackStables ELSE c.stable,
     native |-> IF \E t \in c.native : IsWETH(t) THEN c.native
                ELSE c.native \cup {FallbackWETH}]

(* Resolve: what a token with an address and a symbol is taken for.  The   *)
(* address comes first; a native replaces a stable with its address.       *)
Kind(reg, addr, sym) ==
    LET money(S, n) == IF \E t \in n : IsWETH(t) THEN "weth"
                       ELSE IF n # {} THEN "other" ELSE IF S # {} THEN "stable" ELSE "unknown"
        byAddr == money({t \in reg.stable : t.addr = addr}, {t \in reg.native : t.addr = addr})
        stableSym == \E t \in reg.stable : t.sym = sym
    IN  CASE byAddr # "unknown" -> byAddr
          [] byAddr = "unknown" /\ stableSym -> "stable"
          [] OTHER -> IF sym = "WETH" \/ \E t \in reg.native : t.sym = sym /\ IsWETH(t)
                      THEN "weth" ELSE "other"
=============================================================================
