-------------------------- MODULE MCRedisPipeline --------------------------
(***************************************************************************)
(* Instances of RedisPipeline for TLC.  All keys normalise to the same     *)
(* canonical symbol, as "BTC_USDT" and "BTCUSDT" of one venue do, so that  *)
(* quotes compete for a hash both within a key and across keys, and the    *)
(* keys, like the workers, are interchangeable.                            *)
(***************************************************************************)
EXTENDS RedisPipeline, TLC

MCCanonOf == [k \in Keys |-> "canon"]

PoolSymmetry == Permutations(Workers) \cup Permutations(Keys)
=============================================================================
