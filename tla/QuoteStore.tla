----------------------------- MODULE QuoteStore -----------------------------
(***************************************************************************)
(* What the Redis side of the screener promises its readers, without       *)
(* channels, workers, batches or pipelines: quotes are published one after *)
(* the other, and every hash of Redis that a quote belongs to only ever    *)
(* moves forward, to a quote published later than the one it holds.        *)
(*                                                                         *)
(* RedisPipeline implements this specification when one worker serves the  *)
(* channel and no pipeline fails.                                          *)
(***************************************************************************)
EXTENDS Naturals, Sequences

CONSTANTS
    Keys,       (* what a quote is about: a venue and a symbol              *)
    HashKeys,   (* the Redis hashes                                         *)
    HashesOf(_) (* the hashes a quote about a key is written to             *)

VARIABLES
    published,  (* the keys of the quotes published so far, in order        *)
    store       (* per hash, the number of the quote it holds, 0 for none   *)

vars == <<published, store>>

Init ==
    /\ published = <<>>
    /\ store = [h \in HashKeys |-> 0]

Publish(k) ==
    /\ published' = Append(published, k)
    /\ UNCHANGED store

(* A hash skips to any later quote of its own: intermediate ones may be    *)
(* overwritten before a reader sees them, older ones never come back.      *)
Write(h, i) ==
    /\ h \in HashesOf(published[i])
    /\ store[h] < i
    /\ store' = [store EXCEPT ![h] = i]
    /\ UNCHANGED published

Next ==
    \/ \E k \in Keys : Publish(k)
    \/ \E h \in HashKeys, i \in DOMAIN published : Write(h, i)

Spec == Init /\ [][Next]_vars
=============================================================================
