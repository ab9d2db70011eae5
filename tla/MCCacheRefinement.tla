------------------------- MODULE MCCacheRefinement -------------------------
(* The instance on which the refinement of CacheMap is checked.            *)
EXTENDS CacheRefinement, TLC

CONSTANTS p1, p2, k1, k2, h1, a1

MCDigest == k1 :> h1 @@ k2 :> h1
MCAnswerTo == a1 :> k1
MCMode == p1 :> "refresh" @@ p2 :> "enabled"
MCShortTTL == p1 :> 0 @@ p2 :> 1
=============================================================================
