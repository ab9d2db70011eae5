------------------------------ MODULE MCFetch ------------------------------
(* Three terms over a connect phase scaled down to a few units of time.    *)
EXTENDS Fetch

CONSTANTS t1, t2, t3

MCTerms == <<t1, t2, t3>>
=============================================================================
