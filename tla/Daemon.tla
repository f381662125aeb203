-------------------------------- MODULE Daemon --------------------------------
(***************************************************************************)
(* The cpip daemon (client/daemon.py) and the commands that start, stop    *)
(* and look for it (client/cli.py).  A daemon is to keep a WebSocket to    *)
(* the cloud open, connecting again with a growing delay; the file         *)
(* daemon.pid tells the commands which process it is.                      *)
(*                                                                         *)
(* It never has one: connect() of websockets.asyncio takes no argument     *)
(* extra_headers and hands it to create_connection, which raises.  _ws     *)
(* stays None, and what the code does with a connection is no part of this *)
(* module.                                                                 *)
(*                                                                         *)
(* A daemon runs its connection loop and, after a SIGTERM, stop() as       *)
(* another task of the same asyncio loop.  When the connection loop ends   *)
(* the process ends, and with it a stop() that is not done.                *)
(***************************************************************************)
EXTENDS Integers

CONSTANTS
    Daemons,    \* processes that may be spawned
    BaseDelay,  \* WS_RECONNECT_BASE_DELAY
    MaxDelay,   \* WS_RECONNECT_MAX_DELAY
    Torn,       \* content of a pid file that is being written
    None

ASSUME DaemonAssumption ==
    /\ BaseDelay \in Nat \ {0} /\ MaxDelay \in Nat /\ BaseDelay <= MaxDelay
    /\ Torn \notin Daemons /\ None \notin Daemons /\ Torn # None

VARIABLES
    st,       \* what each daemon's connection loop is doing
    running,  \* _running
    delay,    \* _reconnect_delay
    stop,     \* how far stop() is
    pidFile,  \* daemon.pid
    starting  \* some start command has found no daemon and is about to spawn one

vars == <<st, running, delay, stop, pidFile, starting>>

Init ==
    /\ st = [d \in Daemons |-> "unborn"]
    /\ running = [d \in Daemons |-> FALSE]
    /\ delay = [d \in Daemons |-> BaseDelay]
    /\ stop = [d \in Daemons |-> "no"]
    /\ pidFile = None
    /\ starting = FALSE

Alive(d) == st[d] \notin {"unborn", "gone"}

\* is_running, for a start or for a status command: a pid file that names no process,
\* or cannot be read, is removed.
Found == pidFile \in Daemons /\ Alive(pidFile)

Look(start) ==
    /\ \/ Found /\ UNCHANGED <<pidFile, starting>>
       \/ ~Found /\ pidFile' = None /\ starting' = (starting \/ start)
    /\ UNCHANGED <<st, running, delay, stop>>

\* Another start command that looked at the same time may still be about to spawn.
Spawn(d) ==
    /\ starting
    /\ st[d] = "unborn"
    /\ st' = [st EXCEPT ![d] = "begun"]
    /\ starting' \in BOOLEAN
    /\ UNCHANGED <<running, delay, stop, pidFile>>

\* The process cannot be created, or its log cannot be opened.
SpawnFails ==
    /\ starting
    /\ starting' = FALSE
    /\ UNCHANGED <<st, running, delay, stop, pidFile>>

\* daemon stop: the process that the pid file names gets a SIGTERM.  A daemon that
\* has not installed its handler dies of it.
Terminate(d) ==
    /\ pidFile = d
    /\ Alive(d)
    /\ IF st[d] = "booting"
       THEN st' = [st EXCEPT ![d] = "gone"] /\ UNCHANGED stop
       ELSE stop[d] = "no" /\ stop' = [stop EXCEPT ![d] = "called"] /\ UNCHANGED st
    /\ UNCHANGED <<running, delay, pidFile, starting>>

\* The process is killed.
Kill(d) ==
    /\ Alive(d)
    /\ st' = [st EXCEPT ![d] = "gone"]
    /\ stop' = [stop EXCEPT ![d] = "no"]
    /\ UNCHANGED <<running, delay, pidFile, starting>>

\* start: the pid file is emptied and written, then the handlers are installed and
\* the connection loop begins.  A file that a command removed meanwhile stays away.
BeginPid(d) ==
    /\ st[d] = "begun"
    /\ st' = [st EXCEPT ![d] = "opened"]
    /\ running' = [running EXCEPT ![d] = TRUE]
    /\ pidFile' = Torn
    /\ UNCHANGED <<delay, stop, starting>>

WritePid(d) ==
    /\ st[d] = "opened"
    /\ st' = [st EXCEPT ![d] = "booting"]
    /\ pidFile' = IF pidFile = None THEN None ELSE d
    /\ UNCHANGED <<running, delay, stop, starting>>

Boot(d) ==
    /\ st[d] = "booting"
    /\ st' = [st EXCEPT ![d] = "connect"]
    /\ UNCHANGED <<running, delay, stop, pidFile, starting>>

\* The head of the connection loop.
LoopHead(d) ==
    \/ running[d] /\ st' = [st EXCEPT ![d] = "connect"] /\ UNCHANGED stop
    \/ /\ ~running[d]
       /\ st' = [st EXCEPT ![d] = "gone"]
       /\ stop' = [stop EXCEPT ![d] = "no"]

\* An exception: the loop is left, or the daemon waits.
Raised(d) ==
    \/ running[d] /\ st' = [st EXCEPT ![d] = "sleep"] /\ UNCHANGED stop
    \/ /\ ~running[d]
       /\ st' = [st EXCEPT ![d] = "gone"]
       /\ stop' = [stop EXCEPT ![d] = "no"]

\* Whatever it takes to find the server or a proxy, connect() ends with an exception.
ConnectFails(d) ==
    /\ st[d] = "connect"
    /\ Raised(d)
    /\ UNCHANGED <<running, delay, pidFile, starting>>

\* Mutant: the daemon connects again without looking at _running.
SleepEndsBlind(d) ==
    /\ st[d] = "sleep"
    /\ delay' = [delay EXCEPT ![d] = IF 2 * @ < MaxDelay THEN 2 * @ ELSE MaxDelay]
    /\ st' = [st EXCEPT ![d] = "connect"]
    /\ UNCHANGED <<running, stop, pidFile, starting>>

SleepEnds(d) ==
    /\ st[d] = "sleep"
    /\ delay' = [delay EXCEPT ![d] = IF 2 * @ < MaxDelay THEN 2 * @ ELSE MaxDelay]
    /\ LoopHead(d)
    /\ UNCHANGED <<running, pidFile, starting>>

\* Mutant: _running is not cleared.
StopRunningLeft(d) ==
    /\ stop[d] = "called"
    /\ stop' = [stop EXCEPT ![d] = "unlink"]
    /\ UNCHANGED <<st, running, delay, pidFile, starting>>

\* stop(): _running is cleared and the sync is waited for; there is no connection to
\* close; then the pid file is removed, whichever process it names.
StopRunning(d) ==
    /\ stop[d] = "called"
    /\ stop' = [stop EXCEPT ![d] = "unlink"]
    /\ running' = [running EXCEPT ![d] = FALSE]
    /\ UNCHANGED <<st, delay, pidFile, starting>>

StopUnlink(d) ==
    /\ stop[d] = "unlink"
    /\ stop' = [stop EXCEPT ![d] = "no"]
    /\ pidFile' = None
    /\ UNCHANGED <<st, running, delay, starting>>

LoopStep(d) ==
    \/ BeginPid(d) \/ WritePid(d) \/ Boot(d)
    \/ ConnectFails(d) \/ SleepEnds(d)

StopStep(d) == StopRunning(d) \/ StopUnlink(d)

Next ==
    \/ \E start \in BOOLEAN : Look(start)
    \/ SpawnFails
    \/ \E d \in Daemons :
         Spawn(d) \/ Terminate(d) \/ Kill(d) \/ LoopStep(d) \/ StopStep(d)

Spec == Init /\ [][Next]_vars

\* asyncio runs every ready task; connect() and a sleep end.
FairSpec == Spec /\ \A d \in Daemons : WF_vars(LoopStep(d)) /\ WF_vars(StopStep(d))

-----------------------------------------------------------------------------
(* Properties                                                              *)

\* Every variable has its type; the delay stays between its bounds.
TypeOK ==
    /\ st \in [Daemons -> {"unborn", "begun", "opened", "booting", "connect", "sleep",
                           "gone"}]
    /\ running \in [Daemons -> BOOLEAN]
    /\ delay \in [Daemons -> BaseDelay..MaxDelay]
    /\ stop \in [Daemons -> {"no", "called", "unlink"}]
    /\ pidFile \in Daemons \cup {Torn, None}
    /\ starting \in BOOLEAN

\* A daemon whose stop() cleared _running while it waited never connects again.
StoppedNeverReconnects ==
    [][\A d \in Daemons :
         Alive(d) /\ st[d] = "sleep" /\ ~running[d] => st'[d] # "connect"]_vars

\* "Stop the daemon gracefully": a daemon that gets the signal ends, whether stop() meets
\* it connecting or waiting, and whatever other commands do to the pid file.
StopEndsDaemon == \A d \in Daemons : stop[d] = "called" ~> st[d] = "gone"
=============================================================================
