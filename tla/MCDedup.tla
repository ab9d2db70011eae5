------------------------------ MODULE MCDedup ------------------------------
(* Three IDs that may pair up, collide in their serial, or have none.      *)
EXTENDS Dedup

CONSTANTS i1, i2, s1, w1, w2, a, b

MCFacts == {[issuer |-> i1, serial |-> s1, valid |-> w1],
            [issuer |-> i1, serial |-> s1, valid |-> w2],
            [issuer |-> i2, serial |-> s1, valid |-> w1],
            [issuer |-> i1, serial |-> None, valid |-> w1]}
=============================================================================
