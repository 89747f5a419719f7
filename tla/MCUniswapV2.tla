---------------------------- MODULE MCUniswapV2 ----------------------------
(* One pool, of USDC and WETH.  The file has it right, flipped, with two   *)
(* stables (one by its symbol only) and then the reference pool stands in, *)
(* or with a foreign token.  With Tick = 4 a step from 8 to 9 is below the *)
(* threshold, from 8 to 10 exactly at it, from 10 to 8 below it; one event *)
(* has no reserves.                                                        *)
EXTENDS UniswapV2

MCReserves == {<<8, 8>>, <<8, 9>>, <<8, 10>>, <<0, 8>>}

Token(s, a) == [sym |-> s, addr |-> a, complete |-> TRUE, wrapped |-> FALSE]

MCAssets          == [stable |-> <<Token("USDC", "usdc")>>, native |-> <<>>]
MCFallbackStables == {Token("USDC", "usdc"), Token("DAI", "dai")}
MCFallbackWETH    == Token("WETH", "weth")

MCPools == {"p1"}
MCChain == [p1 |-> <<"usdc", "weth">>]
MCHard  == {[pool |-> "p1", sym |-> "USDC", stable0 |-> TRUE]}

Entry(l, s, a, t, b) == [pool |-> "p1", listed |-> l,
                         tokens |-> <<[sym |-> s, addr |-> a], [sym |-> t, addr |-> b]>>]
MCFiles == {
    <<Entry(FALSE, "WETH", "weth", "USDC", "usdc"), Entry(TRUE, "USDC", "usdc", "WETH", "weth"),
      Entry(TRUE, "WETH", "weth", "USDC", "usdc")>>,
    <<Entry(TRUE, "WETH", "weth", "USDC", "usdc")>>,
    <<Entry(TRUE, "USDC", "usdc", "USDC", "bridged")>>,
    <<Entry(TRUE, "WETH", "weth", "TOK", "tok")>> }
=============================================================================
