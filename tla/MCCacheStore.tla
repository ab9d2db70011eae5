---------------------------- MODULE MCCacheStore ----------------------------
(* Two runs and one entry: what a prune takes and leaves.                  *)
EXTENDS CacheStore, TLC

CONSTANTS p1, p2, k1, h1, a1

MCDigest == k1 :> h1
MCAnswerTo == a1 :> k1
MCMode == p1 :> "enabled" @@ p2 :> "enabled"

\* One run keeps nothing, the other keeps entries for one tick.
MCShortTTL == p1 :> 0 @@ p2 :> 1
=============================================================================
