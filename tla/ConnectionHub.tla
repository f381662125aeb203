---------------------------- MODULE ConnectionHub ----------------------------
(***************************************************************************)
(* The server's registry of device connections (server/ws/hub.py): the     *)
(* dictionary _connections, the asyncio lock that guards its updates, the  *)
(* operations connect, disconnect, send_to_device and broadcast, and the   *)
(* heartbeat loop.                                                         *)
(*                                                                         *)
(* The hub runs on one asyncio loop, so a step of the model is the code    *)
(* between two awaits.  A websocket serves one handler task, hence the     *)
(* task, its websocket and its DeviceConnection share one name in Sockets. *)
(* The operations take the program counters they start from and return to, *)
(* because several tasks call them from several places.                    *)
(***************************************************************************)
EXTENDS Integers

CONSTANTS
    Sockets,      \* websockets; each is opened once and served by one task
    Ids,          \* keys of _connections
    Heartbeater,  \* the task that runs heartbeat_loop
    Callers,      \* tasks that call send_to_device or broadcast
    None,         \* no connection, no task, no id
    Interval      \* the heartbeat interval, in ticks

ASSUME HubAssumption ==
    /\ Interval \in Nat \ {0}
    /\ None \notin Sockets \cup Ids \cup Callers \cup {Heartbeater}
    /\ Heartbeater \notin Sockets \cup Callers
    /\ Callers \cap Sockets = {}

VARIABLES
    connections,  \* _connections: the socket registered under each id
    lock,         \* the task inside `async with self._lock`
    pc,           \* where each task is
    app,          \* Starlette's application_state of each websocket
    peer,         \* the device at the other end of each websocket
    age,          \* time.time() - conn.last_heartbeat, capped
    slept,        \* ticks heartbeat_loop has slept
    todo,         \* ids a loop has still to send to
    cur,          \* the id a loop is sending to
    target,       \* the websocket it is sending to
    dead          \* dead_connections of heartbeat_loop

hubVars  == <<connections, lock>>
loopVars == <<slept, todo, cur, target, dead>>
vars     == <<connections, lock, pc, app, peer, age, slept, todo, cur, target, dead>>

Senders == Callers \cup {Heartbeater}
Tasks   == Sockets \cup Senders

\* Ages beyond the limit are all alike: the cap is one more than it.
HeartbeatLimit == 3 * Interval
MaxAge         == HeartbeatLimit + 1

Registered(s) == \E d \in Ids : connections[d] = s
Keys          == {d \in Ids : connections[d] # None}

Goto(t, label) == pc' = [pc EXCEPT ![t] = label]

HubInit ==
    /\ connections = [d \in Ids |-> None]
    /\ lock = None
    /\ app = [s \in Sockets |-> "connecting"]
    /\ peer = [s \in Sockets |-> "absent"]
    /\ age = [s \in Sockets |-> 0]
    /\ slept = 0
    /\ todo = [t \in Senders |-> {}]
    /\ cur = [t \in Senders |-> None]
    /\ target = [t \in Senders |-> None]
    /\ dead = {}

-----------------------------------------------------------------------------
(* Websockets, as Starlette and the ASGI server implement them.            *)

\* send_text on a websocket the application has closed raises RuntimeError;
\* on one whose device is gone it raises or is dropped silently.
SendMayFail(s)    == app[s] = "closed" \/ peer[s] = "gone"
SendMaySucceed(s) == app[s] = "connected"

\* The time between two awaits is negligible, and heartbeat_loop computes `now`
\* once per round: time passes while the loop sleeps.  Only the ages of connections
\* that are listed or about to be are ever looked at.
Tick ==
    /\ pc[Heartbeater] = "sleep"
    /\ slept' = IF slept < Interval THEN slept + 1 ELSE slept
    /\ age' = [s \in Sockets |->
                 CASE ~(Registered(s) \/ pc[s] \in {"connect", "replacing"}) -> 0
                   [] age[s] < MaxAge -> age[s] + 1
                   [] OTHER -> age[s]]
    /\ UNCHANGED <<hubVars, pc, app, peer, todo, cur, target, dead>>

-----------------------------------------------------------------------------
(* connect                                                                 *)

\* await websocket.accept(); the DeviceConnection is created on return, with
\* last_heartbeat = time.time().
Accept(s, from, to) ==
    /\ pc[s] = from
    /\ app[s] = "connecting"
    /\ peer[s] # "gone"
    /\ app' = [app EXCEPT ![s] = "connected"]
    /\ age' = [age EXCEPT ![s] = 0]
    /\ Goto(s, to)
    /\ UNCHANGED <<hubVars, peer, loopVars>>

\* accept() raises when the device has left, and always when the websocket has
\* been accepted before: connect raises WebSocketError.
AcceptFails(s, from, to) ==
    /\ pc[s] = from
    /\ app[s] # "connecting" \/ peer[s] = "gone"
    /\ Goto(s, to)
    /\ UNCHANGED <<hubVars, app, peer, age, loopVars>>

\* Mutants: the previous connection is overwritten without being closed; the
\* lock is not held while the previous connection is closed.
ConnectEnterNoClose(s, d, from, closing, to) ==
    /\ pc[s] = from
    /\ lock = None
    /\ connections' = [connections EXCEPT ![d] = s]
    /\ Goto(s, to)
    /\ UNCHANGED <<lock, app, peer, age, loopVars>>

ConnectEnterUnlocked(s, d, from, closing, to) ==
    /\ pc[s] = from
    /\ lock = None
    /\ \/ /\ connections[d] = None
          /\ connections' = [connections EXCEPT ![d] = s]
          /\ Goto(s, to)
          /\ UNCHANGED <<lock, app>>
       \/ /\ connections[d] # None
          /\ app' = [app EXCEPT ![connections[d]] = "closed"]
          /\ Goto(s, closing)
          /\ UNCHANGED <<connections, lock>>
    /\ UNCHANGED <<peer, age, loopVars>>

\* Under the lock: close the connection that holds the id, if any (close() sets
\* application_state before its await, and its exceptions are swallowed).
ConnectEnter(s, d, from, closing, to) ==
    /\ pc[s] = from
    /\ lock = None
    /\ \/ /\ connections[d] = None
          /\ connections' = [connections EXCEPT ![d] = s]
          /\ Goto(s, to)
          /\ UNCHANGED <<lock, app>>
       \/ /\ connections[d] # None
          /\ lock' = s
          /\ app' = [app EXCEPT ![connections[d]] = "closed"]
          /\ Goto(s, closing)
          /\ UNCHANGED connections
    /\ UNCHANGED <<peer, age, loopVars>>

\* close() has returned: register the new connection and leave the lock.
ConnectRegister(s, d, closing, to) ==
    /\ pc[s] = closing
    /\ connections' = [connections EXCEPT ![d] = s]
    /\ lock' = None
    /\ Goto(s, to)
    /\ UNCHANGED <<app, peer, age, loopVars>>

-----------------------------------------------------------------------------
(* disconnect                                                              *)

\* Under the lock: pop whatever is registered under the id and close it.
DisconnectPop(t, d, from, closing, to) ==
    /\ pc[t] = from
    /\ lock = None
    /\ \/ /\ connections[d] = None
          /\ Goto(t, to)
          /\ UNCHANGED <<hubVars, app>>
       \/ /\ connections[d] # None
          /\ connections' = [connections EXCEPT ![d] = None]
          /\ app' = [app EXCEPT ![connections[d]] = "closed"]
          /\ lock' = t
          /\ Goto(t, closing)
    /\ UNCHANGED <<peer, age>>

\* Mutant: the lock is kept when close() has returned.
DisconnectDoneKeepsLock(t, closing, to) ==
    /\ pc[t] = closing
    /\ Goto(t, to)
    /\ UNCHANGED <<hubVars, app, peer, age>>

\* close() has returned or raised: leave the lock.
DisconnectDone(t, closing, to) ==
    /\ pc[t] = closing
    /\ lock' = None
    /\ Goto(t, to)
    /\ UNCHANGED <<connections, app, peer, age>>

-----------------------------------------------------------------------------
(* heartbeat_loop                                                          *)

HeartbeatWake ==
    /\ pc[Heartbeater] = "sleep"
    /\ slept = Interval
    /\ todo' = [todo EXCEPT ![Heartbeater] = Keys]
    /\ dead' = {}
    /\ Goto(Heartbeater, "scan")
    /\ UNCHANGED <<hubVars, app, peer, age, slept, cur, target>>

\* Mutant: the loop does not skip an id that was removed since the snapshot.
HeartbeatNextNoSkip ==
    /\ pc[Heartbeater] = "scan"
    /\ \E d \in todo[Heartbeater] :
        /\ todo' = [todo EXCEPT ![Heartbeater] = @ \ {d}]
        /\ cur' = [cur EXCEPT ![Heartbeater] = d]
        /\ target' = [target EXCEPT ![Heartbeater] = connections[d]]
        /\ Goto(Heartbeater, "sending")
    /\ UNCHANGED <<hubVars, app, peer, age, slept, dead>>

\* One id of the snapshot: gone since, overdue, or sent a heartbeat.  (The code
\* goes through the snapshot in the order of registration; any order here.)
HeartbeatNext ==
    /\ pc[Heartbeater] = "scan"
    /\ \E d \in todo[Heartbeater] :
        /\ todo' = [todo EXCEPT ![Heartbeater] = @ \ {d}]
        /\ \/ /\ connections[d] = None
              /\ UNCHANGED <<pc, cur, target, dead>>
           \/ /\ connections[d] # None
              /\ age[connections[d]] > HeartbeatLimit
              /\ dead' = dead \cup {d}
              /\ UNCHANGED <<pc, cur, target>>
           \/ /\ connections[d] # None
              /\ age[connections[d]] <= HeartbeatLimit
              /\ cur' = [cur EXCEPT ![Heartbeater] = d]
              /\ target' = [target EXCEPT ![Heartbeater] = connections[d]]
              /\ Goto(Heartbeater, "sending")
              /\ UNCHANGED dead
    /\ UNCHANGED <<hubVars, app, peer, age, slept>>

\* Mutant: sending a heartbeat counts as hearing from the device.
HeartbeatSentRefreshes ==
    /\ pc[Heartbeater] = "sending"
    /\ \/ /\ SendMaySucceed(target[Heartbeater])
          /\ age' = [age EXCEPT ![target[Heartbeater]] = 0]
          /\ UNCHANGED dead
       \/ /\ SendMayFail(target[Heartbeater])
          /\ dead' = dead \cup {cur[Heartbeater]}
          /\ UNCHANGED age
    /\ cur' = [cur EXCEPT ![Heartbeater] = None]
    /\ target' = [target EXCEPT ![Heartbeater] = None]
    /\ Goto(Heartbeater, "scan")
    /\ UNCHANGED <<hubVars, app, peer, slept, todo>>

\* The heartbeat's send_text has returned or raised.
HeartbeatSent ==
    /\ pc[Heartbeater] = "sending"
    /\ \/ /\ SendMaySucceed(target[Heartbeater])
          /\ UNCHANGED dead
       \/ /\ SendMayFail(target[Heartbeater])
          /\ dead' = dead \cup {cur[Heartbeater]}
    /\ cur' = [cur EXCEPT ![Heartbeater] = None]
    /\ target' = [target EXCEPT ![Heartbeater] = None]
    /\ Goto(Heartbeater, "scan")
    /\ UNCHANGED <<hubVars, app, peer, age, slept, todo>>

\* The snapshot is done: disconnect what is dead, one id after the other.
HeartbeatReap ==
    /\ pc[Heartbeater] = "scan"
    /\ todo[Heartbeater] = {}
    /\ \E d \in dead :
        /\ DisconnectPop(Heartbeater, d, "scan", "reaping", "scan")
        /\ dead' = dead \ {d}
    /\ UNCHANGED <<slept, todo, cur, target>>

HeartbeatReaped ==
    /\ DisconnectDone(Heartbeater, "reaping", "scan")
    /\ UNCHANGED loopVars

HeartbeatSleep ==
    /\ pc[Heartbeater] = "scan"
    /\ todo[Heartbeater] = {}
    /\ dead = {}
    /\ slept' = 0
    /\ Goto(Heartbeater, "sleep")
    /\ UNCHANGED <<hubVars, app, peer, age, todo, cur, target, dead>>

-----------------------------------------------------------------------------
(* send_to_device and broadcast, which send without holding the lock       *)

\* broadcast takes a snapshot of the keys; send_to_device has the one id.
CallerStart(c) ==
    /\ pc[c] = "idle"
    /\ \E D \in {Keys} \cup {{d} : d \in Ids} :
        /\ D # {}
        /\ todo' = [todo EXCEPT ![c] = D]
    /\ Goto(c, "pick")
    /\ UNCHANGED <<hubVars, app, peer, age, slept, cur, target, dead>>

CallerPick(c) ==
    /\ pc[c] = "pick"
    /\ \E d \in todo[c] :
        /\ todo' = [todo EXCEPT ![c] = @ \ {d}]
        /\ \/ /\ connections[d] = None
              /\ UNCHANGED <<pc, cur, target>>
           \/ /\ connections[d] # None
              /\ cur' = [cur EXCEPT ![c] = d]
              /\ target' = [target EXCEPT ![c] = connections[d]]
              /\ Goto(c, "sending")
    /\ UNCHANGED <<hubVars, app, peer, age, slept, dead>>

\* Success, or a failure after which the id is disconnected.
CallerSent(c) ==
    /\ pc[c] = "sending"
    /\ target' = [target EXCEPT ![c] = None]
    /\ \/ /\ SendMaySucceed(target[c])
          /\ cur' = [cur EXCEPT ![c] = None]
          /\ Goto(c, "pick")
       \/ /\ SendMayFail(target[c])
          /\ Goto(c, "drop")
          /\ UNCHANGED cur
    /\ UNCHANGED <<hubVars, app, peer, age, slept, todo, dead>>

CallerDrop(c) ==
    /\ DisconnectPop(c, cur[c], "drop", "dropping", "pick")
    /\ cur' = [cur EXCEPT ![c] = None]
    /\ UNCHANGED <<slept, todo, target, dead>>

CallerDropped(c) ==
    /\ DisconnectDone(c, "dropping", "pick")
    /\ UNCHANGED loopVars

CallerDone(c) ==
    /\ pc[c] = "pick"
    /\ todo[c] = {}
    /\ Goto(c, "idle")
    /\ UNCHANGED <<hubVars, app, peer, age, loopVars>>

-----------------------------------------------------------------------------
HeartbeatStep ==
    \/ HeartbeatWake
    \/ HeartbeatNext
    \/ HeartbeatSent
    \/ HeartbeatReap
    \/ HeartbeatReaped
    \/ HeartbeatSleep

CallerStep(c) ==
    \/ CallerPick(c)
    \/ CallerSent(c)
    \/ CallerDrop(c)
    \/ CallerDropped(c)
    \/ CallerDone(c)
=============================================================================
