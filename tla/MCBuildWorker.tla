---------------------------- MODULE MCBuildWorker ----------------------------
(* Instances of the build farm for model checking: two jobs of one package *)
(* at different priorities and one of another package, two workers.        *)
EXTENDS BuildWorker, TLC
CONSTANTS j1, j2, j3, w1, w2

MCJobs      == {j1, j2, j3}
MCRequestId == [j \in MCJobs |-> j]
MCPriority  == (j1 :> 1) @@ (j2 :> 2) @@ (j3 :> 2)
MCMatches   == (j1 :> {j1, j2}) @@ (j2 :> {j1, j2}) @@ (j3 :> {j3})
MCWorkers   == {w1, w2}
=============================================================================
