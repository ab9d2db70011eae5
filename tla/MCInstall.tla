----------------------------- MODULE MCInstall -----------------------------
(* Two installers, one of them pinned, and a release that does not start.  *)
EXTENDS Install, TLC

CONSTANTS p1, p2

MCPinned == p1 :> None @@ p2 :> 1
=============================================================================
