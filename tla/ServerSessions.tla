--------------------------- MODULE ServerSessions ---------------------------
(* The execution sessions the server tracks (server/ws/sessions.py) and    *)
(* the task that clears the stale ones (server/app.py).  Everything here   *)
(* runs on the server's event loop and no operation awaits, so each is one *)
(* step.  The task's sleep ends when it is due: the loop is never late.    *)
EXTENDS Integers

CONSTANTS
    Sessions,           \* session ids
    MaxIdle,            \* max_idle_seconds, in units of time
    CleanupInterval,    \* the cleanup task's sleep
    NoSession           \* what get answers for an id it does not know

ASSUME ServerSessionsAssumption ==
    /\ MaxIdle \in Nat
    /\ CleanupInterval \in Nat \ {0}
    /\ NoSession \notin Int

VARIABLES
    idle,       \* SessionManager._sessions: for how long each has not been active
    slept       \* for how long the cleanup task has been asleep

serverSessionVars == <<idle, slept>>

\* SessionManager.__init__; the startup handler creates the task, which sleeps first.
ServerSessionsInit == idle = [s \in Sessions |-> NoSession] /\ slept = 0

Tracked == {s \in Sessions : idle[s] # NoSession}

\* create: a session that is there already is replaced.
CreateSession(s) == idle' = [idle EXCEPT ![s] = 0] /\ UNCHANGED slept

\* update_activity: nothing happens to a session that is not there.
UpdateActivity(s) ==
    /\ s \in Tracked
    /\ idle' = [idle EXCEPT ![s] = 0]
    /\ UNCHANGED slept

\* remove
RemoveSession(s) ==
    /\ s \in Tracked
    /\ idle' = [idle EXCEPT ![s] = NoSession]
    /\ UNCHANGED slept

\* cleanup_stale: the sessions idle for longer than the limit.
Stale == {s \in Tracked : idle[s] > MaxIdle}

\* Mutant: the two settings the other way round.
CleanupDueSwapped == slept = MaxIdle

\* asyncio.sleep(cleanup_interval) is over.
CleanupDue == slept = CleanupInterval

\* _session_cleanup_loop: one pass; then the task sleeps again.
CleanupPass ==
    /\ CleanupDue
    /\ idle' = [s \in Sessions |-> IF s \in Stale THEN NoSession ELSE idle[s]]
    /\ slept' = 0

\* Time passes.
Second ==
    /\ ~CleanupDue
    /\ idle' = [s \in Sessions |-> IF s \in Tracked THEN idle[s] + 1 ELSE NoSession]
    /\ slept' = slept + 1

ServerSessionsNext ==
    \/ \E s \in Sessions : CreateSession(s) \/ UpdateActivity(s) \/ RemoveSession(s)
    \/ CleanupPass
    \/ Second

ServerSessionsSpec == ServerSessionsInit /\ [][ServerSessionsNext]_serverSessionVars

------------------------------------------------------------------------------
(* Properties                                                              *)

\* A tracked session has an idle time, and the task's sleep is no longer than it asked.
ServerSessionsTypeOK ==
    /\ idle \in [Sessions -> Nat \cup {NoSession}]
    /\ slept \in 0..CleanupInterval

\* A session nobody uses is not kept past the limit by more than one interval of the
\* cleanup task, however the passes and the activity fall.
IdleBound == \A s \in Tracked : idle[s] <= MaxIdle + CleanupInterval
=============================================================================
