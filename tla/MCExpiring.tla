----------------------------- MODULE MCExpiring -----------------------------
(* Two domains and two certificates; two ticks to the millisecond, two     *)
(* milliseconds to the day.                                                *)
EXTENDS Expiring, TLC

CONSTANTS t1, t2, c1, c2

MCNotAfter == c1 :> 1 @@ c2 :> 4
MCOneNotAfter == c1 :> 2
=============================================================================
