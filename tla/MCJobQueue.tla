----------------------------- MODULE MCJobQueue -----------------------------
(* Instances of JobQueue for TLC.                                          *)
EXTENDS JobQueue, TLC

CONSTANTS j1, j2, w1, w2

\* j1 goes before j2.
MCPriority == (j1 :> 1) @@ (j2 :> 2)
MCOneJobPriority == (j1 :> 1)

WorkerSymmetry == Permutations({w1, w2})
=============================================================================
