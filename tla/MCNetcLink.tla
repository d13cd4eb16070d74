---------------------------- MODULE MCNetcLink -----------------------------
(* An instance of NetcLink for TLC. *)
EXTENDS NetcLink

CONSTANTS r1, r2, f1

\* Two requests of one priority and a more urgent one, which is faked.
MCRequests == {r1, r2, f1}
MCFaked == {f1}
MCPriority == [r \in MCRequests |-> IF r = f1 THEN 0 ELSE 1]
=============================================================================
