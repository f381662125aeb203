--------------------------- MODULE DeviceEndpoint ---------------------------
(***************************************************************************)
(* The websocket endpoint of the server (websocket_endpoint in             *)
(* server/app.py) composed with the connection hub: one handler task per   *)
(* websocket, the devices at the other ends, the heartbeat loop and a task *)
(* that sends through the hub.                                             *)
(***************************************************************************)
EXTENDS ConnectionHub

CONSTANT Unknown  \* the id "unknown", under which every handler registers first

ASSUME UnknownAssumption == Unknown \in Ids

HandlerPcs   == {"idle", "accept", "connect", "replacing", "serve", "call",
                 "reinit", "reiniting", "reaccept", "cleanup", "cleaning", "done"}
HeartbeatPcs == {"sleep", "scan", "sending", "reaping"}
CallerPcs    == {"idle", "pick", "sending", "drop", "dropping"}

\* The handler has registered its connection and not begun its last disconnect.
Serving(s) == pc[s] \in {"serve", "call", "reinit", "reiniting", "reaccept", "cleanup"}

Init ==
    /\ HubInit
    /\ pc = [t \in Tasks |-> IF t = Heartbeater THEN "sleep" ELSE "idle"]

-----------------------------------------------------------------------------
(* Devices                                                                 *)

Open(s) ==
    /\ pc[s] = "idle"
    /\ peer' = [peer EXCEPT ![s] = "up"]
    /\ Goto(s, "accept")
    /\ UNCHANGED <<hubVars, app, age, loopVars>>

\* The device stops answering and its end of the connection is never closed.
Vanish(s) ==
    /\ peer[s] = "up"
    /\ pc[s] # "done"
    /\ peer' = [peer EXCEPT ![s] = "silent"]
    /\ UNCHANGED <<hubVars, pc, app, age, loopVars>>

\* The connection is closed by the device or reset by the network.
Leave(s) ==
    /\ peer[s] \in {"up", "silent"}
    /\ pc[s] # "done"
    /\ peer' = [peer EXCEPT ![s] = "gone"]
    /\ UNCHANGED <<hubVars, pc, app, age, loopVars>>

-----------------------------------------------------------------------------
(* The handler                                                             *)

HandlerAccept(s) == Accept(s, "accept", "connect")

\* connect raised, conn is None: the finally clause does nothing.
HandlerRefused(s) == AcceptFails(s, "accept", "done")

HandlerConnect(s) ==
    ConnectEnter(s, Unknown, "connect", "replacing", "serve")

HandlerRegister(s) ==
    ConnectRegister(s, Unknown, "replacing", "serve")

\* A message the device sent reaches the handler.
Receives(s) == pc[s] = "serve" /\ app[s] = "connected" /\ peer[s] = "up"

HandlerAck(s) ==
    /\ Receives(s)
    /\ age' = [age EXCEPT ![s] = 0]
    /\ UNCHANGED <<hubVars, pc, app, peer, loopVars>>

\* A session.init without a device_id, or with the id the connection has,
\* stores the metadata and is acknowledged; a call is dispatched.  The answer is
\* sent after an await.
HandlerCall(s) ==
    /\ Receives(s)
    /\ Goto(s, "call")
    /\ UNCHANGED <<hubVars, app, peer, age, loopVars>>

\* An exception of the send is caught, and the handler of that exception raises
\* NameError (make_error is not imported): the loop is left.
HandlerReply(s) ==
    /\ pc[s] = "call"
    /\ \/ SendMaySucceed(s) /\ Goto(s, "serve")
       \/ SendMayFail(s) /\ Goto(s, "cleanup")
    /\ UNCHANGED <<hubVars, app, peer, age, loopVars>>

\* A message that is JSON and not an RPC message raises in from_json: the same.
HandlerBadMessage(s) ==
    /\ Receives(s)
    /\ Goto(s, "cleanup")
    /\ UNCHANGED <<hubVars, app, peer, age, loopVars>>

\* A session.init that names another id: disconnect the id the connection has,
\* then connect again under the new one; the second accept always raises.
HandlerInit(s, d) ==
    /\ Receives(s)
    /\ d # Unknown
    /\ Goto(s, "reinit")
    /\ UNCHANGED <<hubVars, app, peer, age, loopVars>>

HandlerReinit(s) ==
    /\ DisconnectPop(s, Unknown, "reinit", "reiniting", "reaccept")
    /\ UNCHANGED <<loopVars>>

HandlerReinited(s) ==
    /\ DisconnectDone(s, "reiniting", "reaccept")
    /\ UNCHANGED <<loopVars>>

HandlerReaccept(s) == AcceptFails(s, "reaccept", "cleanup")

\* The receive ends: the device is gone, or the application closed the socket.
HandlerEnds(s) ==
    /\ pc[s] = "serve"
    /\ peer[s] = "gone" \/ app[s] = "closed"
    /\ Goto(s, "cleanup")
    /\ UNCHANGED <<hubVars, app, peer, age, loopVars>>

\* Mutant: the finally clause does not disconnect.
HandlerCleanupSkipped(s) ==
    /\ pc[s] = "cleanup"
    /\ Goto(s, "done")
    /\ UNCHANGED <<hubVars, app, peer, age, loopVars>>

\* finally: await hub.disconnect(conn.device_id)
HandlerCleanup(s) ==
    /\ DisconnectPop(s, Unknown, "cleanup", "cleaning", "done")
    /\ UNCHANGED <<loopVars>>

HandlerCleaned(s) ==
    /\ DisconnectDone(s, "cleaning", "done")
    /\ UNCHANGED <<loopVars>>

-----------------------------------------------------------------------------
Device(s) == Open(s) \/ Vanish(s) \/ Leave(s)

\* What the handler does on its own account: it never waits for the device.
HandlerStep(s) ==
    \/ HandlerAccept(s)
    \/ HandlerRefused(s)
    \/ HandlerConnect(s)
    \/ HandlerRegister(s)
    \/ HandlerReply(s)
    \/ HandlerReinit(s)
    \/ HandlerReinited(s)
    \/ HandlerReaccept(s)
    \/ HandlerEnds(s)
    \/ HandlerCleanup(s)
    \/ HandlerCleaned(s)

\* What a message of the device makes it do.
HandlerMessage(s) ==
    \/ HandlerAck(s)
    \/ HandlerCall(s)
    \/ HandlerBadMessage(s)
    \/ \E d \in Ids : HandlerInit(s, d)

LoopStep ==
    \/ Tick
    \/ HeartbeatStep
    \/ \E c \in Callers : CallerStart(c) \/ CallerStep(c)

Next ==
    \/ \E s \in Sockets : Device(s) \/ HandlerStep(s) \/ HandlerMessage(s)
    \/ LoopStep

Spec == Init /\ [][Next]_vars

\* asyncio runs every ready task.  Weak fairness does for the steps that wait for
\* the lock: it is taken once per registration and once per removal.
Fairness ==
    /\ WF_vars(Tick)
    /\ WF_vars(HeartbeatStep)
    /\ \A c \in Callers : WF_vars(CallerStep(c))
    /\ \A s \in Sockets : WF_vars(HandlerStep(s))

FairSpec == Spec /\ Fairness

-----------------------------------------------------------------------------
(* Properties                                                              *)

\* Every variable has its type, and a loop that is sending has a websocket to
\* send to: it never uses a connection it did not find in _connections.
TypeOK ==
    /\ connections \in [Ids -> Sockets \cup {None}]
    /\ lock \in Tasks \cup {None}
    /\ pc \in [Tasks -> HandlerPcs \cup HeartbeatPcs \cup CallerPcs]
    /\ \A s \in Sockets : pc[s] \in HandlerPcs
    /\ pc[Heartbeater] \in HeartbeatPcs
    /\ \A c \in Callers : pc[c] \in CallerPcs
    /\ app \in [Sockets -> {"connecting", "connected", "closed"}]
    /\ peer \in [Sockets -> {"absent", "up", "silent", "gone"}]
    /\ age \in [Sockets -> 0..MaxAge]
    /\ slept \in 0..Interval
    /\ todo \in [Senders -> SUBSET Ids]
    /\ cur \in [Senders -> Ids \cup {None}]
    /\ target \in [Senders -> Sockets \cup {None}]
    /\ dead \subseteq Ids
    /\ \A t \in Senders : pc[t] = "sending" => cur[t] \in Ids /\ target[t] \in Sockets
    /\ \A c \in Callers : pc[c] = "drop" => cur[c] \in Ids

\* Every open connection that a handler serves is the one the hub lists: a
\* replaced, timed-out or re-initialised connection has been closed, so no live
\* connection escapes the heartbeat and at most one per id is live.
LiveIsRegistered ==
    \A s \in Sockets : Serving(s) /\ app[s] = "connected" => connections[Unknown] = s

\* Whenever the lock is free, what the hub lists has not been closed by the
\* server: send_to_device never finds a connection the hub gave up.
RegisteredIsOpen ==
    lock = None => \A d \in Ids : connections[d] # None => app[connections[d]] = "connected"

\* A handler that has returned leaves nothing behind: its websocket is closed or
\* was never accepted, and the hub does not list it.
ReturnedIsForgotten ==
    \A s \in Sockets : pc[s] = "done" => app[s] # "connected" /\ ~Registered(s)

\* A device that stops answering without closing is disconnected by the
\* heartbeat loop: the hub does not list it for ever.
SilentIsRemoved ==
    \A s \in Sockets : (peer[s] = "silent" /\ Registered(s)) ~> ~Registered(s)

\* The handler of a device that left, or whose connection the server closed,
\* returns: no handler waits for ever on the hub's lock.
HandlerReturns ==
    \A s \in Sockets : (pc[s] # "idle" /\ (peer[s] = "gone" \/ app[s] = "closed")) ~> pc[s] = "done"

\* The clean-up of a handler removes its own connection from the hub and never
\* that of another handler (the reconnected device's, say).
CleanupIsOwn ==
    [][\A s \in Sockets :
         pc[s] = "cleanup" /\ pc'[s] # "cleanup"
            => connections[Unknown] \in {None, s}]_vars

\* A session.init that names a device registers the device under its own id,
\* unless the device stops answering.
InitRegisters ==
    \A s \in Sockets :
        pc[s] = "reinit"
            ~> (peer[s] # "up" \/ \E d \in Ids \ {Unknown} : connections[d] = s)

-----------------------------------------------------------------------------
(* The inductive invariant behind the safety properties                    *)

\* The states in which a task is between the two halves of a locked section.
Holding(t) ==
    \/ t \in Sockets /\ pc[t] \in {"replacing", "reiniting", "cleaning"}
    \/ t = Heartbeater /\ pc[t] = "reaping"
    \/ t \in Callers /\ pc[t] = "dropping"

LockInv == \A t \in Tasks : Holding(t) <=> lock = t

\* Only the id "unknown" is ever registered.
OnlyUnknown == \A d \in Ids : d # Unknown => connections[d] = None

RegisteredServes == connections[Unknown] # None => Serving(connections[Unknown])

\* The listed connection is closed exactly while another one replaces it.
ClosedByReplacement ==
    /\ connections[Unknown] # None =>
         (app[connections[Unknown]] = "closed" => \E s \in Sockets : pc[s] = "replacing")
    /\ \A s \in Sockets : pc[s] = "replacing" =>
         connections[Unknown] # None /\ app[connections[Unknown]] = "closed"

AppInv ==
    \A s \in Sockets :
        /\ pc[s] \in {"idle", "accept"} => app[s] = "connecting"
        /\ pc[s] \in {"connect", "replacing"} => app[s] = "connected"
        /\ pc[s] \in {"cleaning", "done"} => app[s] # "connected"
        /\ Serving(s) => app[s] # "connecting"

\* What every step keeps: the properties above follow from it.
HubInv ==
    /\ LockInv
    /\ OnlyUnknown
    /\ RegisteredServes
    /\ LiveIsRegistered
    /\ ClosedByReplacement
    /\ AppInv
=============================================================================
