----------------------------- MODULE MCRmcpLink -----------------------------
(* An instance of RmcpLink for TLC. *)
EXTENDS RmcpLink

CONSTANTS r1, r2, p1, p2, p3

\* A privilege request for each session that two faults can lead to.
MCPrivileges == {p1, p2, p3}
MCRequests == {r1, r2} \cup MCPrivileges
MCPriority == [r \in MCRequests |-> IF r = r2 THEN 0 ELSE 1]
=============================================================================
