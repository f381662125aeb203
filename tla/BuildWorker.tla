----------------------------- MODULE BuildWorker -----------------------------
(***************************************************************************)
(* The workers of the build farm (builder/worker.py) on their queue: each  *)
(* takes a job, has it compiled in a thread (builder/compiler.py), scans   *)
(* and signs the wheel and completes the job, or fails it.                 *)
(*                                                                         *)
(* The workers run on one asyncio loop.  The scan and the signature do not *)
(* wait, so a build has two steps after the job is taken: the compiler     *)
(* process writes into the shared output directory, and the worker acts on *)
(* what it finds there.                                                    *)
(***************************************************************************)
EXTENDS BuildQueue

CONSTANTS
    Workers,
    Matches    \* the jobs whose wheel the glob for a job's package matches

ASSUME WorkerAssumption ==
    /\ None \notin Workers
    /\ Matches \in [Jobs -> SUBSET Jobs]

VARIABLES
    submitted, \* jobs given to push
    running,   \* _running of each worker
    pc,        \* where each worker is
    req,       \* the job it processes
    outdir,    \* jobs whose wheel is in /tmp/cpip-builds
    signed     \* for each completed job, the job whose wheel was signed

workerVars == <<running, pc, req>>
vars == <<queueVars, submitted, workerVars, outdir, signed>>

Init ==
    /\ QueueInit
    /\ submitted = {}
    /\ running = [w \in Workers |-> TRUE]
    /\ pc = [w \in Workers |-> "poll"]
    /\ req = [w \in Workers |-> None]
    /\ outdir = {}
    /\ signed = [j \in Jobs |-> None]

Submit(j) ==
    /\ j \notin submitted
    /\ submitted' = submitted \cup {j}
    /\ Push(j, priority[j])
    /\ UNCHANGED <<processing, priority, workerVars, outdir, signed>>

\* The head of the loop: the worker was stopped, takes a job, or sleeps.
Leave(w) ==
    /\ pc[w] = "poll"
    /\ ~running[w]
    /\ pc' = [pc EXCEPT ![w] = "stopped"]
    /\ UNCHANGED <<queueVars, submitted, running, req, outdir, signed>>

Take(w) ==
    /\ pc[w] = "poll"
    /\ running[w]
    /\ Pop
    /\ req' = [req EXCEPT ![w] = queue[1]]
    /\ pc' = [pc EXCEPT ![w] = "compile"]
    /\ UNCHANGED <<submitted, running, outdir, signed>>

Sleep(w) ==
    /\ pc[w] = "poll"
    /\ running[w]
    /\ queue = <<>>
    /\ pc' = [pc EXCEPT ![w] = "sleep"]
    /\ UNCHANGED <<queueVars, submitted, running, req, outdir, signed>>

Wake(w) ==
    /\ pc[w] = "sleep"
    /\ pc' = [pc EXCEPT ![w] = "poll"]
    /\ UNCHANGED <<queueVars, submitted, running, req, outdir, signed>>

Stop(w) ==
    /\ running[w]
    /\ running' = [running EXCEPT ![w] = FALSE]
    /\ UNCHANGED <<queueVars, submitted, pc, req, outdir, signed>>

\* The compiler process exits with 0; it has written its wheel, or none.
Compiled(w) ==
    /\ pc[w] = "compile"
    /\ outdir' \in {outdir, outdir \cup {req[w]}}
    /\ pc' = [pc EXCEPT ![w] = "compiled"]
    /\ UNCHANGED <<queueVars, submitted, running, req, signed>>

\* The worker returns to the head of its loop.
Loop(w) ==
    /\ pc' = [pc EXCEPT ![w] = "poll"]
    /\ req' = [req EXCEPT ![w] = None]
    /\ UNCHANGED <<submitted, running, outdir>>

\* What the glob finds for a job.
Found(j) == outdir \cap Matches[j]

\* A wheel was found (any that the glob matches), is clean, and is signed.
Succeed(w) ==
    /\ pc[w] = "compiled"
    /\ \E k \in Found(req[w]) : signed' = [signed EXCEPT ![req[w]] = k]
    /\ Complete(RequestId[req[w]])
    /\ Loop(w)

\* The compiler failed or timed out, no wheel was found, the scan was not clean,
\* or an exception was raised.
FailBuild(w) ==
    /\ pc[w] \in {"compile", "compiled"}
    /\ Fail(RequestId[req[w]])
    /\ Loop(w)
    /\ UNCHANGED signed

WorkerStep(w) ==
    \/ Leave(w)
    \/ Take(w)
    \/ Sleep(w)
    \/ Wake(w)
    \/ Compiled(w)
    \/ Succeed(w)
    \/ FailBuild(w)

Next ==
    \/ \E j \in Jobs : Submit(j)
    \/ \E w \in Workers : WorkerStep(w) \/ Stop(w)

Spec == Init /\ [][Next]_vars

\* asyncio runs every ready task, a sleep ends, and a compiler process ends or is
\* killed after an hour.
FairSpec == Spec /\ \A w \in Workers : WF_vars(WorkerStep(w))

-----------------------------------------------------------------------------
(* Properties                                                              *)

\* Every variable has its type; a worker has a job exactly while it builds.
TypeOK ==
    /\ queue \in Seq(Jobs)
    /\ processing \in [RequestIds -> Jobs \cup {None}]
    /\ priority \in [Jobs -> 1..Lowest]
    /\ submitted \subseteq Jobs
    /\ running \in [Workers -> BOOLEAN]
    /\ pc \in [Workers -> {"poll", "sleep", "compile", "compiled", "stopped"}]
    /\ req \in [Workers -> Jobs \cup {None}]
    /\ outdir \subseteq Jobs
    /\ signed \in [Jobs -> Jobs \cup {None}]
    /\ \A w \in Workers : req[w] \in Jobs <=> pc[w] \in {"compile", "compiled"}

Building(j) == \E w \in Workers : req[w] = j

\* push keeps the list sorted by priority, also when a failed job comes back with
\* another priority while other jobs wait.
QueueSorted ==
    \A i, k \in DOMAIN queue : i < k => priority[queue[i]] <= priority[queue[k]]

\* No job is listed twice.
Distinct == \A i, k \in DOMAIN queue : queue[i] = queue[k] => i = k

\* No job is lost and none is duplicated: a submitted job is in the queue once, or
\* with one worker and noted as being processed, or completed.
NoJobLost ==
    /\ Distinct
    /\ \A j \in submitted :
         \/ Queued(j) /\ ~Building(j) /\ signed[j] = None
         \/ /\ ~Queued(j) /\ signed[j] = None
            /\ \E w \in Workers : req[w] = j /\ \A v \in Workers : req[v] = j => v = w
            /\ processing[RequestId[j]] = j
         \/ ~Queued(j) /\ ~Building(j) /\ signed[j] # None

\* What keeps the list sorted: a job whose priority is about to change is not in it.
ListedJobs == \A j \in Jobs : Queued(j) => j \in submitted

ProcessedJobs ==
    \A r \in RequestIds : processing[r] # None =>
        /\ processing[r] \in submitted
        /\ RequestId[processing[r]] = r
        /\ ~Queued(processing[r])

ListInv == QueueSorted /\ Distinct /\ ListedJobs /\ ProcessedJobs

\* Where a job can be, and what the worker that builds it relies on.
QueuedJobs == \A j \in Jobs : Queued(j) => ~Building(j) /\ signed[j] = None

BuildingJobs ==
    \A w \in Workers : req[w] # None =>
        /\ req[w] \in submitted
        /\ signed[req[w]] = None
        /\ processing[RequestId[req[w]]] = req[w]
        /\ \A v \in Workers : req[v] = req[w] => v = w

SubmittedJobs ==
    /\ \A j \in Jobs : signed[j] # None => j \in submitted
    /\ \A j \in submitted : Queued(j) \/ Building(j) \/ signed[j] # None

FarmInv == ListInv /\ QueuedJobs /\ BuildingJobs /\ SubmittedJobs

\* A failed job sinks below the others, so no job waits for ever behind jobs that
\* fail again and again, as long as a worker runs.
NoStarvation ==
    \A j \in Jobs : Queued(j) ~> (~Queued(j) \/ \A w \in Workers : ~running[w])

\* The farm implements the life cycle of a job.
Status(j) ==
    IF Queued(j) THEN "waiting"
    ELSE IF Building(j) THEN "building"
    ELSE IF signed[j] # None THEN "done" ELSE "new"

Builder(j) == IF Building(j) THEN CHOOSE w \in Workers : req[w] = j ELSE None

Lifecycle == INSTANCE JobLifecycle
             WITH status <- [j \in Jobs |-> Status(j)],
                  builder <- [j \in Jobs |-> Builder(j)]

ImplementsLifecycle == Lifecycle!Spec

\* The wheel that is scanned and signed for a job is the one built for it.
SignedIsOwn == \A j \in Jobs : signed[j] \in {j, None}
=============================================================================
