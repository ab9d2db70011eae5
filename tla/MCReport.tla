------------------------------ MODULE MCReport ------------------------------
(* Runs and report files.                                                  *)
EXTENDS Report

CONSTANTS r1, r2, u1, u2
=============================================================================
