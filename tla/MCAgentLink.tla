----------------------------- MODULE MCAgentLink -----------------------------
(* An instance of AgentLink for TLC. *)
EXTENDS AgentLink

CONSTANTS r1, r2, r3

\* Two requests of one priority and a more urgent one.
MCRequests == {r1, r2, r3}
MCPriority == [r \in MCRequests |-> IF r = r3 THEN 0 ELSE 1]
=============================================================================
