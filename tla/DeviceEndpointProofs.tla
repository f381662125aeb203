------------------------ MODULE DeviceEndpointProofs ------------------------
(***************************************************************************)
(* TLAPS proofs about the device endpoint and its hub, for any sets of     *)
(* websockets, ids and callers and any heartbeat interval.                 *)
(***************************************************************************)
EXTENDS DeviceEndpoint, TLAPS

(***************************************************************************)
(* Types                                                                   *)
(***************************************************************************)
LEMMA InitTypeOK == Init => TypeOK
<1> SUFFICES ASSUME Init PROVE TypeOK
  OBVIOUS
<1> USE HubAssumption, UnknownAssumption DEF Init, HubInit, Tasks, Senders
<1>1. 0 \in 0..MaxAge /\ 0 \in 0..Interval
  BY DEF MaxAge, HeartbeatLimit
<1>2. /\ \A s \in Sockets : pc[s] = "idle"
      /\ \A c \in Callers : pc[c] = "idle"
      /\ pc[Heartbeater] = "sleep"
      /\ pc \in [Tasks -> HandlerPcs \cup HeartbeatPcs \cup CallerPcs]
  BY DEF HandlerPcs, HeartbeatPcs, CallerPcs
<1>3. todo \in [Senders -> SUBSET Ids] /\ dead \subseteq Ids
  OBVIOUS
<1>4. /\ \A s \in Sockets : pc[s] \in HandlerPcs
      /\ \A c \in Callers : pc[c] \in CallerPcs
      /\ pc[Heartbeater] \in HeartbeatPcs
      /\ \A t \in Senders : pc[t] # "sending"
      /\ \A c \in Callers : pc[c] # "drop"
  BY <1>2 DEF HandlerPcs, HeartbeatPcs, CallerPcs
<1>. QED
  BY <1>1, <1>2, <1>3, <1>4 DEF TypeOK

\* A step of a handler's own, or one a message of its device causes.
LEMMA HandlerTypeOK ==
    ASSUME TypeOK, NEW s \in Sockets, HandlerStep(s) \/ HandlerMessage(s)
    PROVE  TypeOK'
<1> USE HubAssumption, UnknownAssumption
    DEF TypeOK, Tasks, Senders, HandlerPcs, HeartbeatPcs, CallerPcs, MaxAge,
        HeartbeatLimit, Goto, hubVars, loopVars
<1>1. CASE HandlerAccept(s)
  BY <1>1 DEF HandlerAccept, Accept
<1>2. CASE HandlerRefused(s)
  BY <1>2 DEF HandlerRefused, AcceptFails
<1>3. CASE HandlerConnect(s)
  BY <1>3 DEF HandlerConnect, ConnectEnter
<1>4. CASE HandlerRegister(s)
  BY <1>4 DEF HandlerRegister, ConnectRegister
<1>5. CASE HandlerReply(s)
  BY <1>5 DEF HandlerReply
<1>6. CASE HandlerReinit(s)
  BY <1>6 DEF HandlerReinit, DisconnectPop
<1>7. CASE HandlerReinited(s)
  BY <1>7 DEF HandlerReinited, DisconnectDone
<1>8. CASE HandlerReaccept(s)
  BY <1>8 DEF HandlerReaccept, AcceptFails
<1>9. CASE HandlerEnds(s)
  BY <1>9 DEF HandlerEnds
<1>10. CASE HandlerCleanup(s)
  BY <1>10 DEF HandlerCleanup, DisconnectPop
<1>11. CASE HandlerCleaned(s)
  BY <1>11 DEF HandlerCleaned, DisconnectDone
<1>12. CASE HandlerAck(s)
  BY <1>12 DEF HandlerAck
<1>13. CASE HandlerCall(s)
  BY <1>13 DEF HandlerCall
<1>14. CASE HandlerBadMessage(s)
  BY <1>14 DEF HandlerBadMessage
<1>15. CASE \E d \in Ids : HandlerInit(s, d)
  BY <1>15 DEF HandlerInit
<1>. QED
  BY <1>1, <1>2, <1>3, <1>4, <1>5, <1>6, <1>7, <1>8, <1>9, <1>10, <1>11, <1>12,
     <1>13, <1>14, <1>15 DEF HandlerStep, HandlerMessage

LEMMA DeviceTypeOK ==
    ASSUME TypeOK, NEW s \in Sockets, Device(s)
    PROVE  TypeOK'
BY HubAssumption
   DEF TypeOK, Tasks, Senders, HandlerPcs, HeartbeatPcs, CallerPcs, Goto, hubVars,
       loopVars, Device, Open, Vanish, Leave

LEMMA HeartbeatTypeOK ==
    ASSUME TypeOK, Tick \/ HeartbeatStep
    PROVE  TypeOK'
<1> USE HubAssumption, UnknownAssumption
    DEF TypeOK, Tasks, Senders, HandlerPcs, HeartbeatPcs, CallerPcs, MaxAge,
        HeartbeatLimit, Goto, hubVars, loopVars
<1>1. CASE Tick
  BY <1>1 DEF Tick
<1>2. CASE HeartbeatWake
  BY <1>2 DEF HeartbeatWake, Keys
<1>3. CASE HeartbeatNext
  BY <1>3 DEF HeartbeatNext
<1>4. CASE HeartbeatSent
  BY <1>4 DEF HeartbeatSent
<1>5. CASE HeartbeatReap
  BY <1>5 DEF HeartbeatReap, DisconnectPop
<1>6. CASE HeartbeatReaped
  BY <1>6 DEF HeartbeatReaped, DisconnectDone
<1>7. CASE HeartbeatSleep
  BY <1>7 DEF HeartbeatSleep
<1>. QED
  BY <1>1, <1>2, <1>3, <1>4, <1>5, <1>6, <1>7 DEF HeartbeatStep

LEMMA CallerTypeOK ==
    ASSUME TypeOK, NEW c \in Callers, CallerStart(c) \/ CallerStep(c)
    PROVE  TypeOK'
<1> USE HubAssumption, UnknownAssumption
    DEF TypeOK, Tasks, Senders, HandlerPcs, HeartbeatPcs, CallerPcs, Goto, hubVars,
        loopVars
<1>1. CASE CallerStart(c)
  BY <1>1 DEF CallerStart, Keys
<1>2. CASE CallerPick(c)
  BY <1>2 DEF CallerPick
<1>3. CASE CallerSent(c)
  BY <1>3 DEF CallerSent
<1>4. CASE CallerDrop(c)
  BY <1>4 DEF CallerDrop, DisconnectPop
<1>5. CASE CallerDropped(c)
  BY <1>5 DEF CallerDropped, DisconnectDone
<1>6. CASE CallerDone(c)
  BY <1>6 DEF CallerDone
<1>. QED
  BY <1>1, <1>2, <1>3, <1>4, <1>5, <1>6 DEF CallerStep

LEMMA NextTypeOK == TypeOK /\ [Next]_vars => TypeOK'
<1> SUFFICES ASSUME TypeOK, [Next]_vars PROVE TypeOK'
  OBVIOUS
<1>1. CASE UNCHANGED vars
  BY <1>1 DEF TypeOK, vars
<1>2. CASE Next
  BY <1>2, HandlerTypeOK, DeviceTypeOK, HeartbeatTypeOK, CallerTypeOK DEF Next, LoopStep
<1>. QED
  BY <1>1, <1>2

(***************************************************************************)
(* In every behaviour the variables of the hub, its tasks and websockets   *)
(* have their types, and a loop only sends to a websocket it found.        *)
(***************************************************************************)
THEOREM TypeCorrect == Spec => []TypeOK
BY InitTypeOK, NextTypeOK, PTL DEF Spec

(***************************************************************************)
(* The inductive invariant                                                 *)
(***************************************************************************)
LEMMA InitHubInv == Init => HubInv
<1> SUFFICES ASSUME Init PROVE HubInv
  OBVIOUS
<1> USE HubAssumption, UnknownAssumption DEF Init, HubInit, Tasks, Senders
<1>1. /\ connections[Unknown] = None
      /\ \A s \in Sockets : pc[s] = "idle" /\ app[s] = "connecting"
      /\ \A c \in Callers : pc[c] = "idle"
      /\ pc[Heartbeater] = "sleep"
  OBVIOUS
<1>2. LockInv
  BY <1>1 DEF LockInv, Holding
<1>3. OnlyUnknown
  BY DEF OnlyUnknown
<1>. QED
  BY <1>1, <1>2, <1>3
     DEF HubInv, RegisteredServes, LiveIsRegistered, ClosedByReplacement, AppInv, Serving

\* No step of websocket_endpoint, with the connect and disconnect that it awaits, breaks HubInv.
LEMMA HandlerHubInv ==
    ASSUME TypeOK, HubInv, NEW s \in Sockets, HandlerStep(s) \/ HandlerMessage(s)
    PROVE  HubInv'
<1> USE HubAssumption, UnknownAssumption
    DEF TypeOK, Tasks, Senders, Goto, hubVars, loopVars, Holding, Serving
<1>1. CASE HandlerAccept(s)
  BY <1>1 DEF HubInv, LockInv, OnlyUnknown, RegisteredServes, LiveIsRegistered,
     ClosedByReplacement, AppInv, HandlerAccept, Accept
<1>2. CASE HandlerRefused(s)
  BY <1>2 DEF HubInv, LockInv, OnlyUnknown, RegisteredServes, LiveIsRegistered,
     ClosedByReplacement, AppInv, HandlerRefused, AcceptFails
<1>3. CASE HandlerConnect(s)
  <2>1. LockInv'
    BY <1>3 DEF HubInv, LockInv, HandlerConnect, ConnectEnter
  <2>2. OnlyUnknown'
    BY <1>3 DEF HubInv, OnlyUnknown, HandlerConnect, ConnectEnter
  <2>3. RegisteredServes'
    BY <1>3 DEF HubInv, RegisteredServes, LockInv, AppInv, HandlerConnect,
       ConnectEnter
  <2>4. LiveIsRegistered'
    BY <1>3 DEF HubInv, LiveIsRegistered, RegisteredServes, ClosedByReplacement,
       AppInv, HandlerConnect, ConnectEnter
  <2>5. ClosedByReplacement'
    BY <1>3 DEF HubInv, ClosedByReplacement, LockInv, RegisteredServes, AppInv,
       HandlerConnect, ConnectEnter
  <2>6. AppInv'
    BY <1>3 DEF HubInv, AppInv, LiveIsRegistered, RegisteredServes, HandlerConnect,
       ConnectEnter
  <2>. QED
    BY <2>1, <2>2, <2>3, <2>4, <2>5, <2>6 DEF HubInv
<1>4. CASE HandlerRegister(s)
  <2>1. LockInv'
    BY <1>4 DEF HubInv, LockInv, HandlerRegister, ConnectRegister
  <2>2. OnlyUnknown'
    BY <1>4 DEF HubInv, OnlyUnknown, HandlerRegister, ConnectRegister
  <2>3. RegisteredServes'
    BY <1>4 DEF HubInv, RegisteredServes, LockInv, AppInv, HandlerRegister,
       ConnectRegister
  <2>4. LiveIsRegistered'
    BY <1>4 DEF HubInv, LiveIsRegistered, RegisteredServes, ClosedByReplacement,
       AppInv, HandlerRegister, ConnectRegister
  <2>5. ClosedByReplacement'
    BY <1>4 DEF HubInv, ClosedByReplacement, LockInv, RegisteredServes, AppInv,
       HandlerRegister, ConnectRegister
  <2>6. AppInv'
    BY <1>4 DEF HubInv, AppInv, LiveIsRegistered, RegisteredServes, HandlerRegister,
       ConnectRegister
  <2>. QED
    BY <2>1, <2>2, <2>3, <2>4, <2>5, <2>6 DEF HubInv
<1>5. CASE HandlerReply(s)
  BY <1>5 DEF HubInv, LockInv, OnlyUnknown, RegisteredServes, LiveIsRegistered,
     ClosedByReplacement, AppInv, HandlerReply
<1>6. CASE HandlerReinit(s)
  <2>1. LockInv'
    BY <1>6 DEF HubInv, LockInv, HandlerReinit, DisconnectPop
  <2>2. OnlyUnknown'
    BY <1>6 DEF HubInv, OnlyUnknown, HandlerReinit, DisconnectPop
  <2>3. RegisteredServes'
    BY <1>6 DEF HubInv, RegisteredServes, LockInv, AppInv, HandlerReinit,
       DisconnectPop
  <2>4. LiveIsRegistered'
    BY <1>6 DEF HubInv, LiveIsRegistered, RegisteredServes, ClosedByReplacement,
       AppInv, HandlerReinit, DisconnectPop
  <2>5. ClosedByReplacement'
    BY <1>6 DEF HubInv, ClosedByReplacement, LockInv, RegisteredServes, AppInv,
       HandlerReinit, DisconnectPop
  <2>6. AppInv'
    BY <1>6 DEF HubInv, AppInv, LiveIsRegistered, RegisteredServes, HandlerReinit,
       DisconnectPop
  <2>. QED
    BY <2>1, <2>2, <2>3, <2>4, <2>5, <2>6 DEF HubInv
<1>7. CASE HandlerReinited(s)
  <2>1. LockInv'
    BY <1>7 DEF HubInv, LockInv, HandlerReinited, DisconnectDone
  <2>2. OnlyUnknown'
    BY <1>7 DEF HubInv, OnlyUnknown, HandlerReinited, DisconnectDone
  <2>3. RegisteredServes'
    BY <1>7 DEF HubInv, RegisteredServes, LockInv, AppInv, HandlerReinited,
       DisconnectDone
  <2>4. LiveIsRegistered'
    BY <1>7 DEF HubInv, LiveIsRegistered, RegisteredServes, ClosedByReplacement,
       AppInv, HandlerReinited, DisconnectDone
  <2>5. ClosedByReplacement'
    BY <1>7 DEF HubInv, ClosedByReplacement, LockInv, RegisteredServes, AppInv,
       HandlerReinited, DisconnectDone
  <2>6. AppInv'
    BY <1>7 DEF HubInv, AppInv, LiveIsRegistered, RegisteredServes, HandlerReinited,
       DisconnectDone
  <2>. QED
    BY <2>1, <2>2, <2>3, <2>4, <2>5, <2>6 DEF HubInv
<1>8. CASE HandlerReaccept(s)
  BY <1>8 DEF HubInv, LockInv, OnlyUnknown, RegisteredServes, LiveIsRegistered,
     ClosedByReplacement, AppInv, HandlerReaccept, AcceptFails
<1>9. CASE HandlerEnds(s)
  BY <1>9 DEF HubInv, LockInv, OnlyUnknown, RegisteredServes, LiveIsRegistered,
     ClosedByReplacement, AppInv, HandlerEnds
<1>10. CASE HandlerCleanup(s)
  <2>1. LockInv'
    BY <1>10 DEF HubInv, LockInv, HandlerCleanup, DisconnectPop
  <2>2. OnlyUnknown'
    BY <1>10 DEF HubInv, OnlyUnknown, HandlerCleanup, DisconnectPop
  <2>3. RegisteredServes'
    BY <1>10 DEF HubInv, RegisteredServes, LockInv, AppInv, HandlerCleanup,
       DisconnectPop
  <2>4. LiveIsRegistered'
    BY <1>10 DEF HubInv, LiveIsRegistered, RegisteredServes, ClosedByReplacement,
       AppInv, HandlerCleanup, DisconnectPop
  <2>5. ClosedByReplacement'
    BY <1>10 DEF HubInv, ClosedByReplacement, LockInv, RegisteredServes, AppInv,
       HandlerCleanup, DisconnectPop
  <2>6. AppInv'
    BY <1>10 DEF HubInv, AppInv, LiveIsRegistered, RegisteredServes, HandlerCleanup,
       DisconnectPop
  <2>. QED
    BY <2>1, <2>2, <2>3, <2>4, <2>5, <2>6 DEF HubInv
<1>11. CASE HandlerCleaned(s)
  <2>1. LockInv'
    BY <1>11 DEF HubInv, LockInv, HandlerCleaned, DisconnectDone
  <2>2. OnlyUnknown'
    BY <1>11 DEF HubInv, OnlyUnknown, HandlerCleaned, DisconnectDone
  <2>3. RegisteredServes'
    BY <1>11 DEF HubInv, RegisteredServes, LockInv, AppInv, HandlerCleaned,
       DisconnectDone
  <2>4. LiveIsRegistered'
    BY <1>11 DEF HubInv, LiveIsRegistered, RegisteredServes, ClosedByReplacement,
       AppInv, HandlerCleaned, DisconnectDone
  <2>5. ClosedByReplacement'
    BY <1>11 DEF HubInv, ClosedByReplacement, LockInv, RegisteredServes, AppInv,
       HandlerCleaned, DisconnectDone
  <2>6. AppInv'
    BY <1>11 DEF HubInv, AppInv, LiveIsRegistered, RegisteredServes, HandlerCleaned,
       DisconnectDone
  <2>. QED
    BY <2>1, <2>2, <2>3, <2>4, <2>5, <2>6 DEF HubInv
<1>12. CASE HandlerAck(s)
  BY <1>12 DEF HubInv, LockInv, OnlyUnknown, RegisteredServes, LiveIsRegistered,
     ClosedByReplacement, AppInv, HandlerAck, Receives
<1>13. CASE HandlerCall(s)
  BY <1>13 DEF HubInv, LockInv, OnlyUnknown, RegisteredServes, LiveIsRegistered,
     ClosedByReplacement, AppInv, HandlerCall, Receives
<1>14. CASE HandlerBadMessage(s)
  BY <1>14 DEF HubInv, LockInv, OnlyUnknown, RegisteredServes, LiveIsRegistered,
     ClosedByReplacement, AppInv, HandlerBadMessage, Receives
<1>15. CASE \E d \in Ids : HandlerInit(s, d)
  BY <1>15 DEF HubInv, LockInv, OnlyUnknown, RegisteredServes, LiveIsRegistered,
     ClosedByReplacement, AppInv, HandlerInit, Receives
<1>. QED
  BY <1>1, <1>2, <1>3, <1>4, <1>5, <1>6, <1>7, <1>8, <1>9, <1>10, <1>11, <1>12, <1>13,
     <1>14, <1>15 DEF HandlerStep, HandlerMessage

LEMMA DeviceHubInv ==
    ASSUME TypeOK, HubInv, NEW s \in Sockets, Device(s)
    PROVE  HubInv'
<1> USE HubAssumption, UnknownAssumption
    DEF TypeOK, Tasks, Senders, Goto, hubVars, loopVars, Holding, Serving
<1>1. CASE Open(s)
  BY <1>1 DEF HubInv, LockInv, OnlyUnknown, RegisteredServes, LiveIsRegistered,
     ClosedByReplacement, AppInv, Open
<1>2. CASE Vanish(s)
  BY <1>2 DEF HubInv, LockInv, OnlyUnknown, RegisteredServes, LiveIsRegistered,
     ClosedByReplacement, AppInv, Vanish
<1>3. CASE Leave(s)
  BY <1>3 DEF HubInv, LockInv, OnlyUnknown, RegisteredServes, LiveIsRegistered,
     ClosedByReplacement, AppInv, Leave
<1>. QED
  BY <1>1, <1>2, <1>3 DEF Device

\* Nor does heartbeat_loop, which disconnects by an id it read before.
LEMMA HeartbeatHubInv ==
    ASSUME TypeOK, HubInv, Tick \/ HeartbeatStep
    PROVE  HubInv'
<1> USE HubAssumption, UnknownAssumption
    DEF TypeOK, Tasks, Senders, Goto, hubVars, loopVars, Holding, Serving
<1>1. CASE Tick
  BY <1>1 DEF HubInv, LockInv, OnlyUnknown, RegisteredServes, LiveIsRegistered,
     ClosedByReplacement, AppInv, Tick
<1>2. CASE HeartbeatWake
  BY <1>2 DEF HubInv, LockInv, OnlyUnknown, RegisteredServes, LiveIsRegistered,
     ClosedByReplacement, AppInv, HeartbeatWake
<1>3. CASE HeartbeatNext
  BY <1>3 DEF HubInv, LockInv, OnlyUnknown, RegisteredServes, LiveIsRegistered,
     ClosedByReplacement, AppInv, HeartbeatNext
<1>4. CASE HeartbeatSent
  BY <1>4 DEF HubInv, LockInv, OnlyUnknown, RegisteredServes, LiveIsRegistered,
     ClosedByReplacement, AppInv, HeartbeatSent
<1>5. CASE HeartbeatReap
  <2>1. LockInv'
    BY <1>5 DEF HubInv, LockInv, HeartbeatReap, DisconnectPop
  <2>2. OnlyUnknown'
    BY <1>5 DEF HubInv, OnlyUnknown, HeartbeatReap, DisconnectPop
  <2>3. RegisteredServes'
    BY <1>5 DEF HubInv, RegisteredServes, LockInv, AppInv, HeartbeatReap,
       DisconnectPop
  <2>4. LiveIsRegistered'
    BY <1>5 DEF HubInv, LiveIsRegistered, RegisteredServes, ClosedByReplacement,
       AppInv, HeartbeatReap, DisconnectPop
  <2>5. ClosedByReplacement'
    BY <1>5 DEF HubInv, ClosedByReplacement, OnlyUnknown, LockInv, HeartbeatReap,
       DisconnectPop
  <2>6. AppInv'
    BY <1>5 DEF HubInv, AppInv, OnlyUnknown, RegisteredServes, HeartbeatReap,
       DisconnectPop
  <2>. QED
    BY <2>1, <2>2, <2>3, <2>4, <2>5, <2>6 DEF HubInv
<1>6. CASE HeartbeatReaped
  <2>1. LockInv'
    BY <1>6 DEF HubInv, LockInv, HeartbeatReaped, DisconnectDone
  <2>2. OnlyUnknown'
    BY <1>6 DEF HubInv, OnlyUnknown, HeartbeatReaped, DisconnectDone
  <2>3. RegisteredServes'
    BY <1>6 DEF HubInv, RegisteredServes, LockInv, AppInv, HeartbeatReaped,
       DisconnectDone
  <2>4. LiveIsRegistered'
    BY <1>6 DEF HubInv, LiveIsRegistered, RegisteredServes, ClosedByReplacement,
       AppInv, HeartbeatReaped, DisconnectDone
  <2>5. ClosedByReplacement'
    BY <1>6 DEF HubInv, ClosedByReplacement, LockInv, RegisteredServes, AppInv,
       HeartbeatReaped, DisconnectDone
  <2>6. AppInv'
    BY <1>6 DEF HubInv, AppInv, LiveIsRegistered, RegisteredServes, HeartbeatReaped,
       DisconnectDone
  <2>. QED
    BY <2>1, <2>2, <2>3, <2>4, <2>5, <2>6 DEF HubInv
<1>7. CASE HeartbeatSleep
  BY <1>7 DEF HubInv, LockInv, OnlyUnknown, RegisteredServes, LiveIsRegistered,
     ClosedByReplacement, AppInv, HeartbeatSleep
<1>. QED
  BY <1>1, <1>2, <1>3, <1>4, <1>5, <1>6, <1>7 DEF HeartbeatStep

\* Nor does a sender, which fails on a closed websocket.
LEMMA CallerHubInv ==
    ASSUME TypeOK, HubInv, NEW c \in Callers, CallerStart(c) \/ CallerStep(c)
    PROVE  HubInv'
<1> USE HubAssumption, UnknownAssumption
    DEF TypeOK, Tasks, Senders, Goto, hubVars, loopVars, Holding, Serving
<1>1. CASE CallerStart(c)
  BY <1>1 DEF HubInv, LockInv, OnlyUnknown, RegisteredServes, LiveIsRegistered,
     ClosedByReplacement, AppInv, CallerStart
<1>2. CASE CallerPick(c)
  BY <1>2 DEF HubInv, LockInv, OnlyUnknown, RegisteredServes, LiveIsRegistered,
     ClosedByReplacement, AppInv, CallerPick
<1>3. CASE CallerSent(c)
  BY <1>3 DEF HubInv, LockInv, OnlyUnknown, RegisteredServes, LiveIsRegistered,
     ClosedByReplacement, AppInv, CallerSent
<1>4. CASE CallerDrop(c)
  <2>1. LockInv'
    BY <1>4 DEF HubInv, LockInv, CallerDrop, DisconnectPop
  <2>2. OnlyUnknown'
    BY <1>4 DEF HubInv, OnlyUnknown, CallerDrop, DisconnectPop
  <2>3. RegisteredServes'
    BY <1>4 DEF HubInv, RegisteredServes, LockInv, AppInv, CallerDrop, DisconnectPop
  <2>4. LiveIsRegistered'
    BY <1>4 DEF HubInv, LiveIsRegistered, RegisteredServes, ClosedByReplacement,
       AppInv, CallerDrop, DisconnectPop
  <2>5. ClosedByReplacement'
    BY <1>4 DEF HubInv, ClosedByReplacement, OnlyUnknown, LockInv, CallerDrop,
       DisconnectPop
  <2>6. AppInv'
    BY <1>4 DEF HubInv, AppInv, OnlyUnknown, RegisteredServes, CallerDrop,
       DisconnectPop
  <2>. QED
    BY <2>1, <2>2, <2>3, <2>4, <2>5, <2>6 DEF HubInv
<1>5. CASE CallerDropped(c)
  <2>1. LockInv'
    BY <1>5 DEF HubInv, LockInv, CallerDropped, DisconnectDone
  <2>2. OnlyUnknown'
    BY <1>5 DEF HubInv, OnlyUnknown, CallerDropped, DisconnectDone
  <2>3. RegisteredServes'
    BY <1>5 DEF HubInv, RegisteredServes, LockInv, AppInv, CallerDropped,
       DisconnectDone
  <2>4. LiveIsRegistered'
    BY <1>5 DEF HubInv, LiveIsRegistered, RegisteredServes, ClosedByReplacement,
       AppInv, CallerDropped, DisconnectDone
  <2>5. ClosedByReplacement'
    BY <1>5 DEF HubInv, ClosedByReplacement, LockInv, RegisteredServes, AppInv,
       CallerDropped, DisconnectDone
  <2>6. AppInv'
    BY <1>5 DEF HubInv, AppInv, LiveIsRegistered, RegisteredServes, CallerDropped,
       DisconnectDone
  <2>. QED
    BY <2>1, <2>2, <2>3, <2>4, <2>5, <2>6 DEF HubInv
<1>6. CASE CallerDone(c)
  BY <1>6 DEF HubInv, LockInv, OnlyUnknown, RegisteredServes, LiveIsRegistered,
     ClosedByReplacement, AppInv, CallerDone
<1>. QED
  BY <1>1, <1>2, <1>3, <1>4, <1>5, <1>6 DEF CallerStep

LEMMA NextHubInv == TypeOK /\ HubInv /\ [Next]_vars => HubInv'
<1> SUFFICES ASSUME TypeOK, HubInv, [Next]_vars PROVE HubInv'
  OBVIOUS
<1>1. CASE UNCHANGED vars
  BY <1>1
     DEF vars, HubInv, LockInv, OnlyUnknown, RegisteredServes, LiveIsRegistered,
         ClosedByReplacement, AppInv, Holding, Serving
<1>2. CASE Next
  BY <1>2, HandlerHubInv, DeviceHubInv, HeartbeatHubInv, CallerHubInv DEF Next, LoopStep
<1>. QED
  BY <1>1, <1>2

\* HubInv is an invariant: connect, disconnect, the heartbeat and the senders never leave the lock,
\* the list of connections and the websockets in disagreement.
THEOREM HubInvariant == Spec => [](TypeOK /\ HubInv)
<1>1. Init => TypeOK /\ HubInv
  BY InitTypeOK, InitHubInv
<1>2. TypeOK /\ HubInv /\ [Next]_vars => (TypeOK /\ HubInv)'
  BY NextTypeOK, NextHubInv
<1>. QED
  BY <1>1, <1>2, PTL DEF Spec

(***************************************************************************)
(* What the hub promises                                                   *)
(***************************************************************************)

\* connect and disconnect never leave an open connection out of _connections:
\* whatever a handler serves and the server has not closed is the one listed.
THEOREM LiveConnectionsAreListed == Spec => []LiveIsRegistered
BY HubInvariant, PTL DEF HubInv

\* Between two locked sections the hub lists no connection the server closed.
THEOREM ListedConnectionsAreOpen == Spec => []RegisteredIsOpen
<1>1. TypeOK /\ HubInv => RegisteredIsOpen
  <2> SUFFICES ASSUME TypeOK, HubInv, lock = None,
                      NEW d \in Ids, connections[d] # None
               PROVE  app[connections[d]] = "connected"
    BY DEF RegisteredIsOpen
  <2>1. d = Unknown /\ connections[d] \in Sockets
    BY DEF HubInv, OnlyUnknown, TypeOK
  <2>2. app[connections[d]] # "connecting"
    BY <2>1 DEF HubInv, RegisteredServes, AppInv
  <2>3. \A s \in Sockets : pc[s] # "replacing"
    BY HubAssumption DEF HubInv, LockInv, Holding, Tasks
  <2>4. app[connections[d]] # "closed"
    BY <2>1, <2>3 DEF HubInv, ClosedByReplacement
  <2>. QED
    BY <2>1, <2>2, <2>4 DEF TypeOK
<1>. QED
  BY <1>1, HubInvariant, PTL

\* A handler that has returned leaves no entry and no open websocket.
THEOREM ReturnedHandlersAreForgotten == Spec => []ReturnedIsForgotten
<1>1. TypeOK /\ HubInv => ReturnedIsForgotten
  BY UnknownAssumption, HubAssumption
     DEF HubInv, OnlyUnknown, RegisteredServes, AppInv, Serving, ReturnedIsForgotten,
         Registered, TypeOK
<1>. QED
  BY <1>1, HubInvariant, PTL
=============================================================================
