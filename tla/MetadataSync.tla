---------------------------- MODULE MetadataSync ----------------------------
(***************************************************************************)
(* The sync manager (client/sync.py) in the daemon, the metadata files it  *)
(* fills (client/cache.py), and the calls of the cloud that the daemon     *)
(* answers: sync.trigger, cache.invalidate and status (client/daemon.py).  *)
(* `cpip sync` does the same as sync.trigger, from a program of its own    *)
(* with a _last_sync of its own.  The calls of the cloud come over a       *)
(* connection that the daemon does not get today (module Daemon).          *)
(*                                                                         *)
(* Time goes in steps of the 60 seconds that the loop sleeps.  One file    *)
(* stands for all metadata files.  In the code an age grows for as long as *)
(* nobody reads the file; ages beyond a bound are all alike to every guard *)
(* here, and are counted as the bound.                                     *)
(***************************************************************************)
EXTENDS Integers

CONSTANTS
    Loops,     \* tasks that may run _sync_loop
    NoTask,
    Interval,  \* _sync_interval
    Lifetime,  \* of metadata
    NoFile

ASSUME SyncAssumption ==
    /\ NoTask \notin Loops
    /\ Interval \in Nat \ {0} /\ Lifetime \in Nat
    /\ NoFile \notin 0..(Lifetime + 1)

VARIABLES
    syncing,   \* _running
    task,      \* _task
    phase,     \* what each task does
    cancelled, \* tasks that are to be cancelled
    stopping,  \* whether stop waits for its task
    since,     \* time since _last_sync
    triggered, \* whether the daemon answers a sync.trigger
    metadata   \* age of the file's content

syncVars == <<syncing, task, phase, cancelled, stopping, since, triggered, metadata>>
taskVars == <<syncing, task, phase, cancelled, stopping>>

SyncInit ==
    /\ syncing = FALSE /\ task = NoTask
    /\ phase = [l \in Loops |-> "none"]
    /\ cancelled = {} /\ stopping = FALSE
    /\ since = Interval
    /\ triggered = FALSE
    /\ metadata = NoFile

\* An age after another minute, as far as ages are told apart.
Older(age, bound) == IF age < bound THEN age + 1 ELSE bound

\* Mutant: a manager that runs is started again.
StartAgain(l) ==
    /\ phase[l] = "none"
    /\ syncing' = TRUE
    /\ task' = l
    /\ phase' = [phase EXCEPT ![l] = "head"]
    /\ UNCHANGED <<cancelled, stopping, since, triggered, metadata>>

\* start; a manager that runs is left alone.
StartSync(l) ==
    /\ ~syncing /\ phase[l] = "none"
    /\ syncing' = TRUE
    /\ task' = l
    /\ phase' = [phase EXCEPT ![l] = "head"]
    /\ UNCHANGED <<cancelled, stopping, since, triggered, metadata>>

\* stop: the task is cancelled, and waited for.
StopSync ==
    /\ ~stopping
    /\ syncing' = FALSE
    /\ cancelled' = IF task # NoTask /\ phase[task] # "none" THEN cancelled \cup {task} ELSE cancelled
    /\ stopping' = (cancelled' # {})
    /\ UNCHANGED <<task, phase, since, triggered, metadata>>

\* CancelledError ends a loop at whatever it awaits: neither it nor _do_sync catches it.
LoopCancelled(l) ==
    /\ l \in cancelled
    /\ cancelled' = cancelled \ {l}
    /\ phase' = [phase EXCEPT ![l] = "none"]
    /\ stopping' = FALSE
    /\ UNCHANGED <<syncing, task, since, triggered, metadata>>

\* _sync_loop
SyncHead(l) ==
    /\ phase[l] = "head" /\ l \notin cancelled
    /\ phase' = [phase EXCEPT ![l] =
                    IF ~syncing THEN "none" ELSE IF since >= Interval THEN "syncing" ELSE "asleep"]
    /\ UNCHANGED <<syncing, task, cancelled, stopping, since, triggered, metadata>>

\* _do_sync: a request that fails counts as a sync all the same, and the file is filled
\* from the catalog if it came.
DoSync == since' = 0 /\ metadata' \in {metadata, 0}

\* Mutant: an error while the sync state is saved ends the loop.
LoopSyncedOnce(l) ==
    /\ phase[l] = "syncing" /\ l \notin cancelled
    /\ DoSync
    /\ \E saved \in BOOLEAN :
          phase' = [phase EXCEPT ![l] = IF saved THEN "asleep" ELSE "none"]
    /\ UNCHANGED <<syncing, task, cancelled, stopping, triggered>>

\* Whether or not the sync state can be saved, the loop goes on.
LoopSynced(l) ==
    /\ phase[l] = "syncing" /\ l \notin cancelled
    /\ DoSync
    /\ phase' = [phase EXCEPT ![l] = "asleep"]
    /\ UNCHANGED <<syncing, task, cancelled, stopping, triggered>>

\* _handle_sync_trigger: sync_now, next to the loop's sync, if there is one.
SyncTriggered == ~triggered /\ triggered' = TRUE /\ UNCHANGED <<taskVars, since, metadata>>
TriggerDone   == triggered /\ triggered' = FALSE /\ DoSync /\ UNCHANGED taskVars
CommandSyncs  == metadata' = 0 /\ UNCHANGED <<taskVars, since, triggered>>

\* _handle_cache_invalidate, and get_metadata, which removes a file that is too old.
Invalidate == ~triggered /\ metadata' = NoFile /\ UNCHANGED <<taskVars, since, triggered>>
GetMetadata ==
    /\ metadata = Lifetime + 1
    /\ metadata' = NoFile
    /\ UNCHANGED <<taskVars, since, triggered>>

\* 60 seconds pass, and the sleep of a loop ends.
Minute ==
    /\ \A l \in Loops : phase[l] # "head"
    /\ since' = Older(since, Interval)
    /\ metadata' = IF metadata = NoFile THEN NoFile ELSE Older(metadata, Lifetime + 1)
    /\ phase' = [l \in Loops |-> IF phase[l] = "asleep" THEN "head" ELSE phase[l]]
    /\ UNCHANGED <<syncing, task, cancelled, stopping, triggered>>

SyncLoop(l) == SyncHead(l) \/ LoopSynced(l) \/ LoopCancelled(l)

SyncNext ==
    \/ \E l \in Loops : StartSync(l) \/ SyncLoop(l)
    \/ StopSync \/ SyncTriggered \/ TriggerDone \/ CommandSyncs \/ Invalidate \/ GetMetadata
    \/ Minute

SyncSpec == SyncInit /\ [][SyncNext]_syncVars

\* The event loop runs its tasks, requests end (timeout=30), and time passes.
SyncFair == WF_syncVars(Minute) /\ \A l \in Loops : WF_syncVars(SyncLoop(l))

-----------------------------------------------------------------------------
(* Properties                                                              *)

SyncTypeOK ==
    /\ syncing \in BOOLEAN /\ stopping \in BOOLEAN /\ triggered \in BOOLEAN
    /\ task \in Loops \cup {NoTask}
    /\ phase \in [Loops -> {"none", "head", "syncing", "asleep"}]
    /\ cancelled \subseteq Loops
    /\ since \in 0..Interval
    /\ metadata \in 0..(Lifetime + 1) \cup {NoFile}

\* A manager that runs has one loop, and one that was stopped has none but those that the
\* cancellation has still to reach, however often it is started and stopped.
OneLoop ==
    {l \in Loops : phase[l] # "none" /\ l \notin cancelled} = IF syncing THEN {task} ELSE {}

\* A manager that runs syncs every interval, although requests fail and its state may not
\* be saved.
KeepsSyncing == syncing /\ since = Interval ~> ~syncing \/ since < Interval
=============================================================================
