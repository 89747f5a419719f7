---------------------------- MODULE MCUniswapV4 ----------------------------
(* Two pools in once mode, two runs and two connections, buffers of one.   *)
(* The inline pool is not wanted, so the file counts: it has both pools,   *)
(* one of them, or the other and one it should not have.                   *)
EXTENDS UniswapV4

CONSTANTS p1, p2

MCPools == {p1, p2}

Entry(p, w, v, l, s) == [pool |-> p, wanted |-> w, valid |-> v, listed |-> l, stables |-> s]

MCInline == {Entry(p1, FALSE, TRUE, TRUE, FALSE)}
MCFiles == {
    {Entry(p1, TRUE, TRUE, TRUE, FALSE), Entry(p2, TRUE, TRUE, TRUE, FALSE)},
    {Entry(p1, TRUE, TRUE, TRUE, FALSE), Entry(p2, TRUE, TRUE, TRUE, TRUE)},
    {Entry(p2, TRUE, TRUE, TRUE, FALSE), Entry(p1, TRUE, TRUE, FALSE, FALSE)},
    {Entry(p1, FALSE, TRUE, TRUE, FALSE), Entry(p2, TRUE, FALSE, TRUE, FALSE)} }
=============================================================================
