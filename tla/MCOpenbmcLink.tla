--------------------------- MODULE MCOpenbmcLink ----------------------------
(* An instance of OpenbmcLink for TLC. *)
EXTENDS OpenbmcLink

CONSTANTS r1, r2, r3, f1

\* Two requests of one priority and a more urgent one, and one that is faked.
MCRequests == {r1, r2, r3, f1}
MCFaked == {f1}
MCPriority == [r \in MCRequests |-> IF r = r3 THEN 0 ELSE 1]
=============================================================================
