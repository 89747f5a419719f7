---------------------------- MODULE MCUniswapV3 ----------------------------
(* Two pools that price WETH, in stables of different priority.  The file  *)
(* has them right, flipped, with a foreign token, without decimals, twice, *)
(* unlisted, without a token.                                              *)
EXTENDS UniswapV3

MCPools   == {"p1", "p2"}
MCTokens  == {"weth", "usdc", "dai", "x"}
MCStables == {"usdc", "dai"}
MCChain   == [p1 |-> <<"weth", "usdc">>, p2 |-> <<"dai", "weth">>]
MCRank    == [usdc |-> 3, dai |-> 1]

Entry(p, l, t, u, d) == [pool |-> p, listed |-> l, tokens |-> <<t, u>>, decs |-> <<d, TRUE>>]

MCFiles == {
    <<Entry("p1", TRUE, "usdc", "weth", TRUE), Entry("p1", TRUE, "weth", "usdc", TRUE),
      Entry("p2", TRUE, "dai", "weth", TRUE)>>,
    <<Entry("p2", TRUE, "none", "weth", TRUE), Entry("p1", TRUE, "weth", "x", TRUE),
      Entry("p2", TRUE, "dai", "weth", FALSE)>>,
    <<Entry("p1", FALSE, "weth", "usdc", TRUE)>> }
=============================================================================
