---------------------------- MODULE MCCertLookup ----------------------------
(* An ordinary run beside a --refresh run.                                 *)
EXTENDS CertLookup, TLC

CONSTANTS p1, p2, k1

MCMode == p1 :> "enabled" @@ p2 :> "refresh"
MCShortTTL == p1 :> 1 @@ p2 :> 0
=============================================================================
