----------------------------- MODULE MCJobQueue -----------------------------
(* An instance of JobQueue for TLC. *)
EXTENDS JobQueue

CONSTANTS tcl, exec, sync, h1, h2

\* A job of each kind, and two machines.
MCJobs == {tcl, exec, sync}
MCKind == (tcl :> "tcl") @@ (exec :> "exec") @@ (sync :> "sync")
MCPool == <<h1, h2>>
MCBatches == {<<sync, exec>>, <<tcl, tcl>>}
=============================================================================
