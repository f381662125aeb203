------------------------ MODULE ClientRuntimeProofs ------------------------
(***************************************************************************)
(* Proofs about the parts of the client that live in memory: the daemon,   *)
(* a cloud session, the metadata sync, the circuit breaker and the import  *)
(* hooks, for any number of processes, calls, tasks, coroutines, packages  *)
(* and any delays.  They share no state: each part has its own invariant.  *)
(***************************************************************************)
EXTENDS ClientRuntime, TLAPS

-----------------------------------------------------------------------------
(* The daemon                                                              *)

LEMMA DaemonTyped == Init => TypeOK
<1> SUFFICES ASSUME Init PROVE TypeOK
  OBVIOUS
<1>1. BaseDelay \in BaseDelay..MaxDelay
  BY DaemonAssumption
<1>2. delay \in [Daemons -> BaseDelay..MaxDelay]
  BY <1>1 DEF Init
<1>3. running \in [Daemons -> BOOLEAN] /\ starting \in BOOLEAN
  BY DEF Init
<1>. QED
  BY <1>2, <1>3 DEF Init, TypeOK

\* The next delay, min(2 * delay, MaxDelay).
LEMMA DelayDoubles ==
    ASSUME NEW x \in BaseDelay..MaxDelay
    PROVE  (IF 2 * x < MaxDelay THEN 2 * x ELSE MaxDelay) \in BaseDelay..MaxDelay
BY DaemonAssumption

LEMMA DaemonStaysTyped == TypeOK /\ [Next]_vars => TypeOK'
<1> SUFFICES ASSUME TypeOK, [Next]_vars PROVE TypeOK'
  OBVIOUS
<1> USE DaemonAssumption
<1>1. CASE UNCHANGED vars
  BY <1>1 DEF TypeOK, vars
<1>2. ASSUME NEW start \in BOOLEAN, Look(start) PROVE TypeOK'
  BY <1>2 DEF Look, TypeOK
<1>3. CASE SpawnFails
  BY <1>3 DEF SpawnFails, TypeOK
<1>4. ASSUME NEW d \in Daemons, Spawn(d) PROVE TypeOK'
  BY <1>4 DEF Spawn, TypeOK
<1>5. ASSUME NEW d \in Daemons, Terminate(d) PROVE TypeOK'
  BY <1>5 DEF Terminate, TypeOK
<1>6. ASSUME NEW d \in Daemons, Kill(d) PROVE TypeOK'
  BY <1>6 DEF Kill, TypeOK
<1>7. ASSUME NEW d \in Daemons, BeginPid(d) \/ WritePid(d) \/ Boot(d) PROVE TypeOK'
  BY <1>7 DEF BeginPid, WritePid, Boot, TypeOK
<1>8. ASSUME NEW d \in Daemons, ConnectFails(d) PROVE TypeOK'
  BY <1>8 DEF ConnectFails, Raised, TypeOK
<1>9. ASSUME NEW d \in Daemons, SleepEnds(d) PROVE TypeOK'
  <2>1. delay' \in [Daemons -> BaseDelay..MaxDelay]
    BY <1>9, DelayDoubles DEF SleepEnds, TypeOK
  <2>. QED
    BY <1>9, <2>1 DEF SleepEnds, LoopHead, TypeOK
<1>10. ASSUME NEW d \in Daemons, StopStep(d) PROVE TypeOK'
  BY <1>10 DEF StopStep, StopRunning, StopUnlink, TypeOK
<1>. QED
  BY <1>1, <1>2, <1>3, <1>4, <1>5, <1>6, <1>7, <1>8, <1>9, <1>10
     DEF Next, LoopStep

\* The daemon's states have their types, and the reconnection delay stays between
\* its base and its maximum.
THEOREM DaemonTypeCorrect == Spec => []TypeOK
BY DaemonTyped, DaemonStaysTyped, PTL DEF Spec

\* What one step can do to a stopped daemon that waits.
LEMMA StoppedStep ==
    ASSUME TypeOK, [Next]_vars, NEW d \in Daemons, st[d] = "sleep", ~running[d]
    PROVE  st'[d] # "connect"
<1>1. CASE UNCHANGED vars
  BY <1>1 DEF vars
<1>2. ASSUME NEW start \in BOOLEAN, Look(start) \/ SpawnFails PROVE st'[d] # "connect"
  BY <1>2 DEF Look, SpawnFails
<1>3. ASSUME NEW e \in Daemons, Spawn(e) \/ Terminate(e) \/ Kill(e) PROVE st'[d] # "connect"
  BY <1>3 DEF Spawn, Terminate, Kill, TypeOK
<1>4. ASSUME NEW e \in Daemons, BeginPid(e) \/ WritePid(e) \/ Boot(e) PROVE st'[d] # "connect"
  BY <1>4 DEF BeginPid, WritePid, Boot, TypeOK
<1>5. ASSUME NEW e \in Daemons, ConnectFails(e) PROVE st'[d] # "connect"
  BY <1>5 DEF ConnectFails, Raised, TypeOK
<1>6. ASSUME NEW e \in Daemons, SleepEnds(e) PROVE st'[d] # "connect"
  BY <1>6 DEF SleepEnds, LoopHead, TypeOK
<1>7. ASSUME NEW e \in Daemons, StopStep(e) PROVE st'[d] # "connect"
  BY <1>7 DEF StopStep, StopRunning, StopUnlink
<1>. QED
  BY <1>1, <1>2, <1>3, <1>4, <1>5, <1>6, <1>7 DEF Next, LoopStep

\* A daemon that was stopped while it waited never connects again, whenever its sleep
\* ends and whatever else commands and other daemons do.
THEOREM StoppedStaysStopped == Spec => StoppedNeverReconnects
<1>1. TypeOK /\ [Next]_vars =>
        [\A d \in Daemons :
           Alive(d) /\ st[d] = "sleep" /\ ~running[d] => st'[d] # "connect"]_vars
  BY StoppedStep
<1>. QED
  BY <1>1, DaemonTypeCorrect, PTL DEF Spec, StoppedNeverReconnects

-----------------------------------------------------------------------------
(* A cloud session.  No lock is taken anywhere in it; the invariant says what *)
(* holds all the same, and more as long as there is only one loop and one     *)
(* connection.                                                                *)

\* What is known of a call, from where its coroutine is.
CallOK(c) ==
    /\ stage[c] \in {"new", "make", "submit"} => onLoop[c] = NoCall
    /\ stage[c] \notin {"new", "make", "submit"} => onLoop[c] \in Calls
    /\ stage[c] \notin {"new", "make"} => loop # NoCall
    /\ stage[c] = "ended" => outcome[c] # NoCall
    /\ c \in awaited \cup inbox \/ future[c] # NoCall \/ sentOn[c] # NoCall \/ line[c] # "none"
       => stage[c] \in {"waiting", "ended"}
    /\ future[c] # NoCall => \E r \in Calls : future[c] = onLoop[r]
    /\ c \in inbox => sentOn[c] # NoCall
    /\ sentOn[c] # NoCall => line[sentOn[c]] # "none"
    /\ line[c] = "none" <=> reader[c] = NoCall

\* The only connection that was ever opened is the one that is used, and its receive loop
\* reads it, or will, until it has read all that came.
Sole(w) == line[w] # "none" /\ \A v \in Calls : line[v] # "none" => v = w

WireOK ==
    \A w \in Calls : Sole(w) =>
        /\ socket = w
        /\ \/ reader[w] \in {"starting", w}
           \/ line[w] # "live" /\ \A c \in inbox : sentOn[c] # w

SessionInv ==
    /\ SessionTypeOK
    /\ spawned # {} => loop # NoCall
    /\ socket # NoCall => line[socket] # "none"
    /\ \A w \in Calls : line[w] # "none" => socket # NoCall
    /\ \A c \in Calls : CallOK(c)
    /\ WireOK

LEMMA SessionStarts == SessionInit => SessionInv
<1> SUFFICES ASSUME SessionInit PROVE SessionInv
    OBVIOUS
<1>1. SessionTypeOK
    BY SessionAssumption DEF SessionInit, SessionTypeOK, NoOne
<1>2. \A c \in Calls : CallOK(c)
    BY SessionAssumption DEF SessionInit, CallOK, NoOne
<1>3. WireOK
    BY SessionAssumption DEF SessionInit, WireOK, Sole, NoOne
<1> QED BY <1>1, <1>2, <1>3, SessionAssumption DEF SessionInit, SessionInv

LEMMA EnsureKeeps ==
    ASSUME NEW c \in Calls, SessionInv, EnsureLoop(c)
    PROVE  SessionInv'
BY SessionAssumption DEF EnsureLoop, SessionInv, SessionTypeOK, CallOK, WireOK, Sole,
       loopVars, wireVars

LEMMA MakeKeeps ==
    ASSUME NEW c \in Calls, SessionInv, MakeLoop(c)
    PROVE  SessionInv'
BY SessionAssumption DEF MakeLoop, SessionInv, SessionTypeOK, CallOK, WireOK, Sole,
       loopVars, wireVars

LEMMA RunKeeps ==
    ASSUME NEW c \in Calls, SessionInv, RunLoop(c)
    PROVE  SessionInv'
BY SessionAssumption DEF RunLoop, SessionInv, SessionTypeOK, CallOK, WireOK, Sole,
       loopVars, wireVars

LEMMA SubmitKeeps ==
    ASSUME NEW c \in Calls, SessionInv, Submit(c)
    PROVE  SessionInv'
BY SessionAssumption DEF Submit, SessionInv, SessionTypeOK, CallOK, WireOK, Sole,
       loopVars, wireVars

LEMMA ConnectKeeps ==
    ASSUME NEW c \in Calls, SessionInv, Connect(c)
    PROVE  SessionInv'
BY SessionAssumption DEF Connect, Scheduled, Send, SessionInv, SessionTypeOK, CallOK, WireOK, Sole,
       loopVars, wireVars

LEMMA OpensKeeps ==
    ASSUME NEW c \in Calls, SessionInv, ConnectOpens(c)
    PROVE  SessionInv'
<1>1. SessionTypeOK /\ stage[c] = "connecting" /\ CallOK(c) /\ (\A d \in Calls : CallOK(d)) /\ WireOK
    BY DEF ConnectOpens, SessionInv
<1>2. /\ socket' = c /\ connected' = TRUE /\ awaited' = awaited \cup {c}
      /\ line' = [line EXCEPT ![c] = "live"] /\ reader' = [reader EXCEPT ![c] = "starting"]
      /\ stage' = [stage EXCEPT ![c] = "waiting"] /\ sentOn' = [sentOn EXCEPT ![c] = c]
      /\ UNCHANGED <<outcome, loop, spawned, looping, onLoop, inbox, future>>
    BY SessionAssumption DEF ConnectOpens, Send, loopVars
<1>3. SessionTypeOK'
    BY <1>1, <1>2 DEF SessionTypeOK, CallOK
<1>4. /\ stage'[c] = "waiting" /\ sentOn'[c] = c /\ line'[c] = "live" /\ reader'[c] = "starting"
      /\ \A d \in Calls : d # c => /\ stage'[d] = stage[d] /\ sentOn'[d] = sentOn[d]
                                   /\ line'[d] = line[d] /\ reader'[d] = reader[d]
    BY <1>1, <1>2 DEF SessionTypeOK
<1>5. \A d \in Calls : line[d] # "none" => line'[d] # "none"
    BY <1>4
<1>6. ASSUME NEW d \in Calls PROVE CallOK(d)'
    <2>1. CASE d = c
        BY <1>1, <1>2, <1>4, <2>1, SessionAssumption DEF CallOK
    <2>2. CASE d # c
        <3>1. sentOn[d] \in Calls \cup {NoCall}
            BY <1>1 DEF SessionTypeOK
        <3> QED BY <1>1, <1>2, <1>4, <1>5, <2>2, <3>1 DEF CallOK
    <2> QED BY <2>1, <2>2
<1>7. WireOK'
    BY <1>2, <1>4 DEF WireOK, Sole
<1> QED BY <1>2, <1>3, <1>4, <1>6, <1>7, SessionAssumption DEF SessionInv

LEMMA RefusedKeeps ==
    ASSUME NEW c \in Calls, SessionInv, ConnectRefused(c)
    PROVE  SessionInv'
<1>1. SessionTypeOK /\ stage[c] = "connecting" /\ (\A d \in Calls : CallOK(d)) /\ WireOK
      /\ (socket # NoCall => line[socket] # "none")
    BY DEF ConnectRefused, SessionInv, SessionTypeOK
<1>2. /\ connected' = FALSE /\ awaited' = awaited \cup {c}
      /\ UNCHANGED <<loop, spawned, looping, onLoop, socket, line, reader, inbox, future>>
    BY DEF ConnectRefused, Send, loopVars
<1>3. \/ /\ stage' = [stage EXCEPT ![c] = "ended"]
         /\ outcome' = [outcome EXCEPT ![c] = IF @ = NoCall THEN "error" ELSE @]
         /\ UNCHANGED sentOn
      \/ /\ stage' = [stage EXCEPT ![c] = "waiting"]
         /\ sentOn' = [sentOn EXCEPT ![c] = socket]
         /\ UNCHANGED outcome
    BY DEF ConnectRefused, Send
<1>4. SessionTypeOK'
    <2>1. /\ stage' \in [Calls -> {"new", "make", "submit", "queued", "connecting", "waiting", "ended"}]
          /\ outcome' \in [Calls -> {"answer", "error", "timeout", NoCall}]
          /\ sentOn' \in [Calls -> Calls \cup {NoCall}]
        BY <1>1, <1>3 DEF SessionTypeOK
    <2>2. future[c] = NoCall
        BY <1>1 DEF CallOK
    <2> QED BY <1>1, <1>2, <2>1, <2>2 DEF SessionTypeOK
<1>5. /\ stage'[c] \in {"waiting", "ended"}
      /\ stage'[c] = "ended" => outcome'[c] # NoCall
      /\ sentOn'[c] # NoCall => line[sentOn'[c]] # "none"
      /\ \A d \in Calls : d # c => /\ stage'[d] = stage[d] /\ sentOn'[d] = sentOn[d]
                                   /\ outcome'[d] = outcome[d]
    BY <1>1, <1>3, SessionAssumption DEF SessionTypeOK, CallOK
<1>6. ASSUME NEW d \in Calls PROVE CallOK(d)'
    <2>1. CASE d = c
        BY <1>1, <1>2, <1>5, <2>1 DEF CallOK
    <2>2. CASE d # c
        BY <1>1, <1>2, <1>5, <2>2 DEF CallOK
    <2> QED BY <2>1, <2>2
<1>7. WireOK'
    <2>1. \A d \in inbox : d # c
        BY <1>1 DEF CallOK
    <2> QED BY <1>1, <1>2, <1>5, <2>1 DEF WireOK, Sole, SessionTypeOK
<1> QED BY <1>1, <1>2, <1>4, <1>6, <1>7 DEF SessionInv

LEMMA ReaderStartKeeps ==
    ASSUME NEW c \in Calls, SessionInv, StartReader(c)
    PROVE  SessionInv'
<1>1. SessionTypeOK /\ (\A d \in Calls : CallOK(d)) /\ WireOK /\ reader[c] = "starting"
    BY DEF StartReader, SessionInv
<1>2. socket \in Calls /\ line[c] # "none"
    BY <1>1, SessionAssumption DEF SessionTypeOK, SessionInv, CallOK
<1>3. /\ UNCHANGED <<stage, outcome, loop, spawned, looping, onLoop, socket, line, awaited, sentOn,
                     inbox, future>>
      /\ connected' \in BOOLEAN
      /\ \/ reader' = [reader EXCEPT ![c] = "ended"] /\ \E q \in Calls : reader[q] = socket
         \/ reader' = [reader EXCEPT ![c] = socket]
    BY <1>1 DEF StartReader, loopVars, SessionTypeOK
<1>4. /\ reader'[c] \in {"ended", socket} /\ reader'[c] # NoCall
      /\ \A d \in Calls : d # c => reader'[d] = reader[d]
      /\ reader' \in [Calls -> Calls \cup {"starting", "ended", NoCall}]
    BY <1>1, <1>2, <1>3, SessionAssumption DEF SessionTypeOK
<1>5. SessionTypeOK'
    BY <1>1, <1>3, <1>4 DEF SessionTypeOK
<1>6. \A d \in Calls : CallOK(d)'
    BY <1>1, <1>2, <1>3, <1>4 DEF CallOK
<1>7. WireOK'
    <2> SUFFICES ASSUME NEW w \in Calls, Sole(w) PROVE socket = w /\ reader'[w] = w
        BY <1>3 DEF WireOK, Sole
    <2>1. c = w /\ socket = w
        BY <1>1, <1>2 DEF Sole, WireOK
    <2>2. ~ \E q \in Calls : reader[q] = socket
        BY <1>1, <2>1, SessionAssumption DEF Sole, CallOK
    <2>3. reader'[w] = w
        BY <1>1, <1>3, <2>1, <2>2 DEF SessionTypeOK
    <2> QED BY <2>1, <2>3
<1> QED BY <1>3, <1>5, <1>6, <1>7 DEF SessionInv

LEMMA ReaderEndKeeps ==
    ASSUME NEW c \in Calls, SessionInv, ReaderEnds(c)
    PROVE  SessionInv'
BY SessionAssumption DEF ReaderEnds, SessionInv, SessionTypeOK, CallOK, WireOK, Sole,
       loopVars, wireVars

LEMMA DeliverKeeps ==
    ASSUME NEW c \in Calls, NEW r \in Calls, SessionInv, Deliver(r, c)
    PROVE  SessionInv'
BY SessionAssumption DEF Deliver, SessionInv, SessionTypeOK, CallOK, WireOK, Sole,
       loopVars, wireVars

LEMMA AnswersKeeps ==
    ASSUME NEW c \in Calls, SessionInv, CloudAnswers(c)
    PROVE  SessionInv'
BY SessionAssumption DEF CloudAnswers, SessionInv, SessionTypeOK, CallOK, WireOK, Sole,
       loopVars, wireVars

LEMMA LineEndKeeps ==
    ASSUME NEW c \in Calls, NEW h \in {"closed", "broken"}, SessionInv, LineEnds(c, h)
    PROVE  SessionInv'
BY SessionAssumption DEF LineEnds, SessionInv, SessionTypeOK, CallOK, WireOK, Sole,
       loopVars, wireVars

LEMMA ResumeKeeps ==
    ASSUME NEW c \in Calls, SessionInv, Resume(c)
    PROVE  SessionInv'
BY SessionAssumption DEF Resume, Answered, SessionInv, SessionTypeOK, CallOK, WireOK, Sole,
       loopVars, wireVars

LEMMA TimeOutKeeps ==
    ASSUME NEW c \in Calls, SessionInv, TimeOut(c)
    PROVE  SessionInv'
BY SessionAssumption DEF TimeOut, Begun, SessionInv, SessionTypeOK, CallOK, WireOK, Sole,
       loopVars, wireVars

LEMMA SessionSteps == SessionInv /\ [SessionNext]_sessionVars => SessionInv'
<1>1. SessionInv /\ UNCHANGED sessionVars => SessionInv'
    BY DEF SessionInv, SessionTypeOK, CallOK, WireOK, Sole, sessionVars, loopVars, wireVars
<1> QED BY <1>1, EnsureKeeps, MakeKeeps, RunKeeps, SubmitKeeps, ConnectKeeps, OpensKeeps,
           RefusedKeeps, ReaderStartKeeps, ReaderEndKeeps, DeliverKeeps, AnswersKeeps,
           LineEndKeeps, ResumeKeeps, TimeOutKeeps
        DEF SessionNext, ClientStep, SessionOver

\* Wherever the coroutines and the receive loops of a session are, its state has its type.
THEOREM SessionTypeCorrect == SessionSpec => []SessionTypeOK
<1>1. SessionInv => SessionTypeOK
    BY DEF SessionInv
<1> QED BY <1>1, SessionStarts, SessionSteps, PTL DEF SessionSpec

\* With one loop and one connection, an answer that has arrived is one that the client has
\* still a step to take for.
LEMMA AnswerKeepsBusy ==
    ASSUME SessionInv, Alone, NEW c \in Calls, outcome[c] = NoCall,
           c \in inbox \/ future[c] # NoCall
    PROVE  Busy(c)
<1>1. SessionTypeOK /\ (\A d \in Calls : CallOK(d)) /\ WireOK
    BY DEF SessionInv
<1>2. stage[c] = "waiting" /\ onLoop[c] \in Calls
    BY <1>1 DEF CallOK
<1>3. CASE future[c] # NoCall
    <2>1. PICK r \in Calls : future[c] = onLoop[r]
        BY <1>1, <1>3 DEF CallOK
    <2>2. future[c] = loop /\ onLoop[c] = loop
        BY <1>2, <1>3, <2>1, SessionAssumption DEF Alone
    <2> QED BY <1>2, <1>3, <2>2 DEF Busy, Woken, Answered
<1>4. CASE c \in inbox
    <2>1. sentOn[c] \in Calls /\ Sole(sentOn[c])
        BY <1>1, <1>4 DEF CallOK, SessionTypeOK, Sole, Alone
    <2>2. reader[sentOn[c]] \in {"starting", sentOn[c]}
        BY <1>1, <1>4, <2>1 DEF WireOK
    <2> QED BY <1>4, <2>1, <2>2 DEF Busy
<1> QED BY <1>3, <1>4

\* As long as the session has one loop and one connection, a call whose answer has reached
\* the client gets it: the connection's receive loop lives until it has read everything,
\* and sets the future in the loop that waits for it.  That no lock is taken anywhere does
\* harm only when there are two of either.
THEOREM AnswersArrive == SessionSpec => AnswerReaches
<1> DEFINE Reaches ==
        \A c \in Calls :
            Alone /\ outcome[c] = NoCall /\ outcome'[c] = "timeout"
              => c \notin inbox /\ future[c] = NoCall
<1>1. SessionInv /\ [SessionNext]_sessionVars => [Reaches]_sessionVars
    <2> SUFFICES ASSUME SessionInv, SessionNext, NEW c \in Calls, Alone, outcome[c] = NoCall,
                        outcome'[c] = "timeout"
                 PROVE  c \notin inbox /\ future[c] = NoCall
        OBVIOUS
    <2>1. outcome \in [Calls -> {"answer", "error", "timeout", NoCall}]
        BY DEF SessionInv, SessionTypeOK
    <2>2. TimeOut(c)
        <3>1. outcome' # outcome
            BY SessionAssumption
        <3>2. PICK d \in Calls : Connect(d) \/ ConnectOpens(d) \/ ConnectRefused(d) \/ Resume(d)
                                 \/ TimeOut(d)
            BY <3>1 DEF SessionNext, SessionOver, sessionVars, ClientStep, EnsureLoop, MakeLoop,
                        RunLoop, Submit, StartReader, ReaderEnds, Deliver, CloudAnswers, LineEnds
        <3>3. CASE Connect(d) \/ ConnectOpens(d) \/ ConnectRefused(d) \/ Resume(d)
            <4>1. outcome' = [outcome EXCEPT ![d] = IF @ = NoCall THEN "error" ELSE @]
                  \/ outcome' = [outcome EXCEPT ![d] = IF @ = NoCall THEN "answer" ELSE @]
                BY <3>1, <3>3 DEF Connect, ConnectOpens, ConnectRefused, Resume, Send
            <4> QED BY <2>1, <4>1, SessionAssumption
        <3>4. CASE TimeOut(d)
            <4>1. d = c
                BY <2>1, <3>4, SessionAssumption DEF TimeOut
            <4> QED BY <3>4, <4>1
        <3> QED BY <3>2, <3>3, <3>4
    <2> QED BY <2>2, AnswerKeepsBusy DEF TimeOut
<1> QED BY <1>1, SessionStarts, SessionSteps, PTL DEF SessionSpec, AnswerReaches

\* How many steps a call of a session still has before it: of its thread and coroutine, of
\* the thread of a loop and the receive loop it started, of its connection and its answer.
StageLeft(s) ==
    CASE s = "new" -> 6 [] s = "make" -> 5 [] s = "submit" -> 4 [] s = "queued" -> 3
      [] s = "connecting" -> 2 [] s = "waiting" -> 1 [] OTHER -> 0

ThreadLeft(c) == (IF c \in spawned THEN 1 ELSE 0) + (IF outcome[c] = NoCall THEN 1 ELSE 0)
ReaderLeft(c) == IF reader[c] = "starting" THEN 2 ELSE IF reader[c] \in Calls THEN 1 ELSE 0
LineLeft(c)   == IF line[c] = "live" THEN 1 ELSE 0
AnswerLeft(c) == IF c \in inbox THEN 1 ELSE IF c \in awaited THEN 2 ELSE 0

CallLeft(c) ==
    6 * StageLeft(stage[c]) + ThreadLeft(c) + ReaderLeft(c) + LineLeft(c) + AnswerLeft(c)

CallsBounded == \A c \in Calls : CallLeft(c) \in 0..37

\* The step is one of call c, and no other call has more or less before it.
StepOf(c) ==
    /\ CallLeft(c)' < CallLeft(c)
    /\ \A d \in Calls \ {c} : CallLeft(d)' = CallLeft(d)

LEMMA LeftType ==
    \A c \in Calls : /\ StageLeft(stage[c]) \in 0..6 /\ ThreadLeft(c) \in 0..2
                     /\ ReaderLeft(c) \in 0..2 /\ LineLeft(c) \in 0..1 /\ AnswerLeft(c) \in 0..2
BY DEF StageLeft, ThreadLeft, ReaderLeft, LineLeft, AnswerLeft

LEMMA LeftTypeNext ==
    \A c \in Calls : /\ StageLeft(stage'[c]) \in 0..6 /\ ThreadLeft(c)' \in 0..2
                     /\ ReaderLeft(c)' \in 0..2 /\ LineLeft(c)' \in 0..1 /\ AnswerLeft(c)' \in 0..2
BY DEF StageLeft, ThreadLeft, ReaderLeft, LineLeft, AnswerLeft

\* A step that leaves all that is a call's own leaves what is before it.
LEMMA LeftSame ==
    ASSUME NEW d \in Calls,
           stage'[d] = stage[d], outcome'[d] = outcome[d], reader'[d] = reader[d],
           line'[d] = line[d], d \in spawned' <=> d \in spawned,
           d \in inbox' <=> d \in inbox, d \in awaited' <=> d \in awaited
    PROVE  CallLeft(d)' = CallLeft(d)
BY DEF CallLeft, StageLeft, ThreadLeft, ReaderLeft, LineLeft, AnswerLeft

\* A step that advances the coroutine may leave it a receive loop, a connection and an
\* answer to wait for, and still there is less before it.
LEMMA StageLowers ==
    ASSUME NEW c \in Calls, StageLeft(stage'[c]) + 1 <= StageLeft(stage[c]),
           ThreadLeft(c)' <= ThreadLeft(c) + 1,
           \/ ReaderLeft(c)' = ReaderLeft(c) /\ LineLeft(c)' = LineLeft(c)
           \/ ThreadLeft(c)' = ThreadLeft(c)
    PROVE  CallLeft(c)' < CallLeft(c)
BY LeftType, LeftTypeNext DEF CallLeft

LEMMA ThreadSteps ==
    ASSUME SessionInv, NEW c \in Calls,
           EnsureLoop(c) \/ MakeLoop(c) \/ Submit(c) \/ Connect(c)
    PROVE  StepOf(c)
<1>1. SessionTypeOK
    BY DEF SessionInv
<1>2. /\ StageLeft(stage'[c]) + 1 <= StageLeft(stage[c])
      /\ \A d \in Calls \ {c} : stage'[d] = stage[d] /\ outcome'[d] = outcome[d]
                                /\ (d \in spawned' <=> d \in spawned)
                                /\ (d \in awaited' <=> d \in awaited)
      /\ UNCHANGED <<reader, line, inbox>>
      /\ outcome'[c] = outcome[c] \/ outcome[c] = NoCall
    BY <1>1 DEF EnsureLoop, MakeLoop, Submit, Connect, Scheduled, Send, SessionTypeOK, StageLeft,
                loopVars, wireVars
<1>3. ThreadLeft(c)' <= ThreadLeft(c) + 1
    <2>1. outcome'[c] = NoCall => outcome[c] = NoCall
        BY <1>2
    <2> QED BY <2>1 DEF ThreadLeft
<1>4. CallLeft(c)' < CallLeft(c)
    BY <1>2, <1>3, StageLowers DEF ReaderLeft, LineLeft
<1> QED BY <1>2, <1>4, LeftSame DEF StepOf

LEMMA HandshakeSteps ==
    ASSUME SessionInv, NEW c \in Calls, ConnectOpens(c) \/ ConnectRefused(c)
    PROVE  StepOf(c)
<1>1. SessionTypeOK
    BY DEF SessionInv
<1>2. /\ StageLeft(stage'[c]) + 1 <= StageLeft(stage[c])
      /\ \A d \in Calls \ {c} : /\ stage'[d] = stage[d] /\ outcome'[d] = outcome[d]
                                /\ reader'[d] = reader[d] /\ line'[d] = line[d]
                                /\ (d \in awaited' <=> d \in awaited)
      /\ UNCHANGED <<spawned, inbox>>
    BY <1>1, SessionAssumption
       DEF ConnectOpens, ConnectRefused, Send, SessionTypeOK, StageLeft, loopVars
<1>3. CASE ConnectOpens(c)
    <2>1. UNCHANGED outcome
        BY <1>3, SessionAssumption DEF ConnectOpens, Send
    <2>2. CallLeft(c)' < CallLeft(c)
        BY <1>2, <2>1, StageLowers, LeftType DEF ThreadLeft
    <2> QED BY <1>2, <2>2, LeftSame DEF StepOf
<1>4. CASE ConnectRefused(c)
    <2>1. outcome'[c] = NoCall => outcome[c] = NoCall
        BY <1>1, <1>4, SessionAssumption DEF ConnectRefused, Send, SessionTypeOK
    <2>2. UNCHANGED <<reader, line>>
        BY <1>4 DEF ConnectRefused
    <2>3. ThreadLeft(c)' <= ThreadLeft(c) + 1
        BY <1>2, <2>1 DEF ThreadLeft
    <2>4. CallLeft(c)' < CallLeft(c)
        BY <1>2, <2>2, <2>3, StageLowers DEF ReaderLeft, LineLeft
    <2> QED BY <1>2, <2>4, LeftSame DEF StepOf
<1> QED BY <1>3, <1>4

LEMMA LoopSteps == ASSUME SessionInv, NEW c \in Calls, RunLoop(c) PROVE StepOf(c)
<1>1. /\ UNCHANGED <<stage, outcome, reader, line, inbox, awaited>>
      /\ c \in spawned /\ spawned' = spawned \ {c}
    BY DEF RunLoop, wireVars
<1>2. CallLeft(c)' < CallLeft(c)
    BY <1>1, LeftType DEF CallLeft, ThreadLeft, ReaderLeft, LineLeft, AnswerLeft
<1> QED BY <1>1, <1>2, LeftSame DEF StepOf

LEMMA ReaderSteps ==
    ASSUME SessionInv, NEW c \in Calls, StartReader(c) \/ ReaderEnds(c) PROVE StepOf(c)
<1>1. /\ UNCHANGED <<stage, outcome, spawned, line, inbox, awaited>>
      /\ \/ reader[c] = "starting" /\ reader' = [reader EXCEPT ![c] = "ended"]
         \/ reader[c] = "starting" /\ reader' = [reader EXCEPT ![c] = socket]
         \/ reader[c] \in Calls /\ reader' = [reader EXCEPT ![c] = "ended"]
    BY DEF StartReader, ReaderEnds, loopVars
<1>2. SessionTypeOK
    BY DEF SessionInv
<1>3. ReaderLeft(c)' < ReaderLeft(c)
    BY <1>1, <1>2, SessionAssumption DEF ReaderLeft, SessionTypeOK
<1>4. CallLeft(c)' < CallLeft(c)
    BY <1>1, <1>3, LeftType, LeftTypeNext DEF CallLeft, ThreadLeft, LineLeft, AnswerLeft
<1>5. \A d \in Calls \ {c} : reader'[d] = reader[d]
    BY <1>1, <1>2 DEF SessionTypeOK
<1> QED BY <1>1, <1>4, <1>5, LeftSame DEF StepOf

LEMMA AnswerSteps ==
    ASSUME SessionInv, NEW c \in Calls, CloudAnswers(c) \/ \E r \in Calls : Deliver(r, c)
    PROVE  StepOf(c)
<1>1. /\ UNCHANGED <<stage, outcome, spawned, reader, line>>
      /\ \/ c \in awaited \ inbox /\ inbox' = inbox \cup {c} /\ UNCHANGED awaited
         \/ c \in inbox /\ inbox' = inbox \ {c} /\ awaited' = awaited \ {c}
    BY DEF CloudAnswers, Deliver, loopVars
<1>2. AnswerLeft(c)' < AnswerLeft(c)
    BY <1>1 DEF AnswerLeft
<1>3. CallLeft(c)' < CallLeft(c)
    BY <1>1, <1>2, LeftType, LeftTypeNext DEF CallLeft, ThreadLeft, ReaderLeft, LineLeft
<1> QED BY <1>1, <1>3, LeftSame DEF StepOf

LEMMA EndSteps == ASSUME SessionInv, NEW c \in Calls, Resume(c) \/ TimeOut(c) PROVE StepOf(c)
<1>1. SessionTypeOK
    BY DEF SessionInv
<1>2. /\ UNCHANGED <<spawned, reader, line, inbox, awaited>>
      /\ outcome'[c] # NoCall
      /\ \/ stage[c] = "waiting" /\ stage'[c] = "ended"
         \/ UNCHANGED stage /\ outcome[c] = NoCall
      /\ \A d \in Calls \ {c} : stage'[d] = stage[d] /\ outcome'[d] = outcome[d]
    BY <1>1, SessionAssumption DEF Resume, TimeOut, Answered, SessionTypeOK, loopVars, wireVars
<1>3. /\ StageLeft(stage'[c]) <= StageLeft(stage[c]) /\ ThreadLeft(c)' <= ThreadLeft(c)
      /\ \/ StageLeft(stage'[c]) < StageLeft(stage[c])
         \/ ThreadLeft(c)' < ThreadLeft(c)
    BY <1>2 DEF StageLeft, ThreadLeft
<1>4. CallLeft(c)' < CallLeft(c)
    BY <1>2, <1>3, LeftType, LeftTypeNext DEF CallLeft, ReaderLeft, LineLeft, AnswerLeft
<1> QED BY <1>2, <1>4, LeftSame DEF StepOf

LEMMA LineSteps ==
    ASSUME SessionInv, NEW c \in Calls, NEW h \in {"closed", "broken"}, LineEnds(c, h)
    PROVE  StepOf(c)
<1>1. /\ UNCHANGED <<stage, outcome, spawned, reader, inbox, awaited>>
      /\ line[c] = "live" /\ line'[c] # "live"
      /\ \A d \in Calls \ {c} : line'[d] = line[d]
    BY DEF LineEnds, loopVars, SessionInv, SessionTypeOK
<1>2. CallLeft(c)' < CallLeft(c)
    BY <1>1, LeftType DEF CallLeft, ThreadLeft, ReaderLeft, LineLeft, AnswerLeft
<1> QED BY <1>1, <1>2, LeftSame DEF StepOf

\* Every step of a session is one of one of its calls and brings that call nearer to its end,
\* whatever the cloud and the connections do: 37 steps at most for each call of execute, also
\* when its loop, its connection or its receive loop is not the only one.
THEOREM CallsGetOn == SessionSpec => []CallsBounded /\ [][\E c \in Calls : StepOf(c)]_sessionVars
<1>1. SessionInit => CallsBounded
    BY SessionAssumption
       DEF SessionInit, NoOne, CallsBounded, CallLeft, StageLeft, ThreadLeft, ReaderLeft, LineLeft,
           AnswerLeft
<1>2. SessionInv /\ [SessionNext]_sessionVars => [\E c \in Calls : StepOf(c)]_sessionVars
    BY ThreadSteps, HandshakeSteps, LoopSteps, ReaderSteps, AnswerSteps, EndSteps, LineSteps
       DEF SessionNext, ClientStep, SessionOver
<1>3. CallsBounded /\ [\E c \in Calls : StepOf(c)]_sessionVars => CallsBounded'
    <2>1. ASSUME CallsBounded, UNCHANGED sessionVars PROVE CallsBounded'
        BY <2>1 DEF CallsBounded, CallLeft, ThreadLeft, ReaderLeft, LineLeft, AnswerLeft, sessionVars
    <2>2. ASSUME CallsBounded, NEW c \in Calls, StepOf(c) PROVE CallsBounded'
        <3> SUFFICES ASSUME NEW d \in Calls PROVE CallLeft(d)' \in 0..37
            BY DEF CallsBounded
        <3>1. CallLeft(d) \in 0..37
            BY <2>2 DEF CallsBounded
        <3>2. CallLeft(d)' \in Nat
            BY LeftTypeNext DEF CallLeft
        <3>3. CallLeft(d)' < CallLeft(d) \/ CallLeft(d)' = CallLeft(d)
            BY <2>2 DEF StepOf
        <3> QED BY <3>1, <3>2, <3>3
    <2> QED BY <2>1, <2>2
<1> QED BY <1>1, <1>2, <1>3, SessionStarts, SessionSteps, PTL DEF SessionSpec

-----------------------------------------------------------------------------
(* The sync manager.  Besides the types, only a task that is not over is being *)
(* cancelled: stop waits for it, but a new loop may be started before it ends. *)

\* The loops that go on.
Active == {l \in Loops : phase[l] # "none" /\ l \notin cancelled}

\* The types the proof needs, and that a cancelled loop is not over.
LoopsInv ==
    /\ phase \in [Loops -> {"none", "head", "syncing", "asleep"}]
    /\ syncing \in BOOLEAN
    /\ task \in Loops \cup {NoTask}
    /\ cancelled \subseteq {l \in Loops : phase[l] # "none"}

SyncInv == LoopsInv /\ OneLoop

LEMMA SyncStarts == SyncInit => SyncInv
BY DEF SyncInit, SyncInv, LoopsInv, OneLoop

LEMMA StartKeeps == ASSUME SyncInv, NEW l \in Loops, StartSync(l) PROVE SyncInv'
<1> USE DEF SyncInv, StartSync
<1>1. LoopsInv'
    BY DEF LoopsInv
<1>2. Active = {}
    BY DEF OneLoop, Active
<1>3. Active' = {l}
    BY <1>2 DEF Active, LoopsInv
<1>4. QED  BY <1>1, <1>3 DEF OneLoop, Active

LEMMA StopKeeps == ASSUME SyncInv, StopSync PROVE SyncInv'
<1> USE DEF SyncInv, StopSync
<1>1. LoopsInv'
    BY DEF LoopsInv
<1>2. Active \subseteq {task}
    BY DEF OneLoop, Active
<1>3. ASSUME NEW l \in Active' PROVE FALSE
    \* It went on before, so it is the task, and the task has just been cancelled.
    <2>1. l \in Active /\ l \notin cancelled'
        BY <1>3 DEF Active, LoopsInv
    <2>2. l = task /\ task \in Loops /\ phase[task] # "none"
        BY <1>2, <2>1 DEF Active
    <2>3. QED  BY <2>1, <2>2, SyncAssumption
<1>4. QED  BY <1>1, <1>3 DEF OneLoop, Active

LEMMA CancelKeeps == ASSUME SyncInv, NEW l \in Loops, LoopCancelled(l) PROVE SyncInv'
<1> USE DEF SyncInv, LoopCancelled
<1>1. LoopsInv'
    BY DEF LoopsInv
<1>2. Active' = Active
    BY DEF Active, LoopsInv
<1>3. QED  BY <1>1, <1>2 DEF OneLoop, Active

\* A loop that goes on finds _running true when it looks.
LEMMA HeadKeeps == ASSUME SyncInv, NEW l \in Loops, SyncHead(l) PROVE SyncInv'
<1> USE DEF SyncInv, SyncHead
<1>1. l \in Active
    BY DEF Active, LoopsInv
<1>2. syncing
    BY <1>1 DEF OneLoop, Active
<1>3. LoopsInv'
    BY <1>2 DEF LoopsInv
<1>4. Active' = Active
    BY <1>2 DEF Active, LoopsInv
<1>5. QED  BY <1>3, <1>4 DEF OneLoop, Active

LEMMA SyncedKeeps == ASSUME SyncInv, NEW l \in Loops, LoopSynced(l) PROVE SyncInv'
<1> USE DEF SyncInv, LoopSynced
<1>1. LoopsInv'
    BY DEF LoopsInv
<1>2. Active' = Active
    BY DEF Active, LoopsInv
<1>3. QED  BY <1>1, <1>2 DEF OneLoop, Active

LEMMA MinuteKeeps == ASSUME SyncInv, Minute PROVE SyncInv'
<1> USE DEF SyncInv, Minute
<1>1. LoopsInv'
    BY DEF LoopsInv
<1>2. Active' = Active
    BY DEF Active, LoopsInv
<1>3. QED  BY <1>1, <1>2 DEF OneLoop, Active

LEMMA SyncStep == SyncInv /\ [SyncNext]_syncVars => SyncInv'
<1> SUFFICES ASSUME SyncInv, [SyncNext]_syncVars PROVE SyncInv'
    OBVIOUS
<1>1. CASE UNCHANGED taskVars
    BY <1>1 DEF taskVars, SyncInv, LoopsInv, OneLoop
<1>2. SyncTriggered \/ TriggerDone \/ CommandSyncs \/ Invalidate \/ GetMetadata => UNCHANGED taskVars
    BY DEF SyncTriggered, TriggerDone, CommandSyncs, Invalidate, GetMetadata
<1>3. UNCHANGED syncVars => UNCHANGED taskVars
    BY DEF syncVars, taskVars
<1>4. QED
    BY <1>1, <1>2, <1>3, StartKeeps, StopKeeps, CancelKeeps, HeadKeeps, SyncedKeeps, MinuteKeeps
       DEF SyncNext, SyncLoop

\* An age that a minute is added to.
LEMMA OlderBounds ==
    ASSUME NEW bound \in Nat, NEW age \in 0..bound
    PROVE  Older(age, bound) \in 0..bound
BY DEF Older

\* The first values of the two clocks are in their ranges.
LEMMA Zeros == 0 \in 0..Interval /\ 0 \in 0..(Lifetime + 1) /\ Interval \in 0..Interval
BY SyncAssumption

LEMMA SyncStaysTyped == SyncTypeOK /\ [SyncNext]_syncVars => SyncTypeOK'
<1> SUFFICES ASSUME SyncTypeOK, [SyncNext]_syncVars PROVE SyncTypeOK'
    OBVIOUS
<1> USE SyncAssumption DEF SyncTypeOK
<1>1. ASSUME NEW l \in Loops, StartSync(l) PROVE SyncTypeOK'
    BY <1>1 DEF StartSync
<1>2. CASE StopSync
    BY <1>2 DEF StopSync
<1>3. ASSUME NEW l \in Loops, SyncLoop(l) PROVE SyncTypeOK'
    <2>1. CASE SyncHead(l)
        BY <1>3, <2>1 DEF SyncHead
    <2>2. CASE LoopSynced(l)
        BY <1>3, <2>2, Zeros DEF LoopSynced, DoSync
    <2>3. CASE LoopCancelled(l)
        BY <1>3, <2>3 DEF LoopCancelled
    <2>4. QED  BY <1>3, <2>1, <2>2, <2>3 DEF SyncLoop
<1>4. CASE SyncTriggered \/ TriggerDone \/ CommandSyncs \/ Invalidate \/ GetMetadata
    BY <1>4, Zeros DEF SyncTriggered, TriggerDone, CommandSyncs, Invalidate, GetMetadata, DoSync, taskVars
<1>5. CASE Minute
    <2>1. since' \in 0..Interval
        BY <1>5, OlderBounds DEF Minute
    <2>2. metadata' \in 0..(Lifetime + 1) \cup {NoFile}
        BY <1>5, OlderBounds DEF Minute
    <2>3. phase' \in [Loops -> {"none", "head", "syncing", "asleep"}]
        BY <1>5 DEF Minute
    <2>4. QED  BY <1>5, <2>1, <2>2, <2>3 DEF Minute
<1>6. CASE UNCHANGED syncVars
    BY <1>6 DEF syncVars
<1>7. QED  BY <1>1, <1>2, <1>3, <1>4, <1>5, <1>6 DEF SyncNext

\* The sync manager's state has its type, whatever the order in which tasks are started,
\* cancelled and triggered.
LEMMA SyncTypeCorrect == SyncSpec => []SyncTypeOK
<1>1. SyncInit => SyncTypeOK
    BY SyncAssumption, Zeros DEF SyncInit, SyncTypeOK
<1>2. QED  BY <1>1, SyncStaysTyped, PTL DEF SyncSpec

\* SyncManager never runs two loops, for any number of starts and stops.
THEOREM OneLoopAtMost == SyncSpec => []OneLoop
<1>1. SyncSpec => []SyncInv
    BY SyncStarts, SyncStep, PTL DEF SyncSpec
<1>2. SyncInv => OneLoop
    BY DEF SyncInv
<1>3. QED  BY <1>1, <1>2, PTL

\* A capped counter is at most its cap.
LEMMA AtMostBounds ==
    ASSUME NEW n \in Nat, NEW bound \in Nat
    PROVE  AtMost(n, bound) \in 0..bound
BY DEF AtMost

-----------------------------------------------------------------------------
(* The breaker of the fallback chain.  Which calls it admits depends on its *)
(* counter, its clock and its state agreeing, and they do whatever order   *)
(* the calls of several coroutines end in.                                 *)

LEMMA FailureAgrees == BreakerAgrees /\ RecordFailure => BreakerAgrees'
<1> SUFFICES ASSUME BreakerAgrees, RecordFailure PROVE BreakerAgrees'
    OBVIOUS
<1> USE FallbackAssumption DEF BreakerAgrees, RecordFailure, AtMost
<1>1. CASE failures + 1 >= Threshold
    BY <1>1
<1>2. CASE ~(failures + 1 >= Threshold)
    BY <1>2
<1>3. QED  BY <1>1, <1>2

LEMMA SuccessAgrees == BreakerAgrees /\ RecordSuccess => BreakerAgrees'
BY FallbackAssumption DEF BreakerAgrees, RecordSuccess

LEMMA TickAgrees == BreakerAgrees /\ FallbackTick => BreakerAgrees'
BY FallbackAssumption DEF BreakerAgrees, FallbackTick, AtMost

LEMMA TryAgrees == ASSUME BreakerAgrees, NEW c \in Callers, Try(c) PROVE BreakerAgrees'
BY FallbackAssumption DEF BreakerAgrees, Try, Refuses

LEMMA BreakerStarts == FallbackInit => BreakerAgrees
BY FallbackAssumption DEF FallbackInit, BreakerAgrees

\* What a step does to the breaker.
LEMMA BreakerSteps ==
    ASSUME [FallbackNext]_fallbackVars
    PROVE  \/ UNCHANGED breakerVars
           \/ RecordSuccess \/ RecordFailure \/ FallbackTick
           \/ \E c \in Callers : Try(c)
<1>1. CASE FallbackTick
    BY <1>1
<1>2. CASE UNCHANGED fallbackVars
    BY <1>2 DEF fallbackVars, breakerVars
<1>3. ASSUME NEW c \in Callers, CallerStep(c)
      PROVE  UNCHANGED breakerVars \/ RecordSuccess \/ RecordFailure \/ Try(c)
    BY <1>3 DEF CallerStep, Begin, Refused, Succeeds, Fails, Wakes, Cancelled, breakerVars
<1>4. QED  BY <1>1, <1>2, <1>3 DEF FallbackNext

LEMMA BreakerStays == BreakerAgrees /\ [FallbackNext]_fallbackVars => BreakerAgrees'
<1> SUFFICES ASSUME BreakerAgrees, [FallbackNext]_fallbackVars PROVE BreakerAgrees'
    OBVIOUS
<1>1. CASE UNCHANGED breakerVars
    BY <1>1 DEF breakerVars, BreakerAgrees
<1>2. QED  BY <1>1, BreakerSteps, SuccessAgrees, FailureAgrees, TickAgrees, TryAgrees

\* The breaker's state is what its counter and its clock say, for any number of
\* coroutines, strategies and failures.
THEOREM BreakerConsistent == FallbackSpec => []BreakerAgrees
BY BreakerStarts, BreakerStays, PTL DEF FallbackSpec

-----------------------------------------------------------------------------
(* Which calls are let through                                             *)

\* The types of the callers' part of the state, with the bounds of their delays.
PlacesOK ==
    /\ at \in [Callers -> {"idle", "ready", "running", "asleep"}]
    /\ strategy \in [Callers -> 1..Strategies]
    /\ attempt \in [Callers -> 0..MaxRetries]
    /\ backoff \in [Callers -> 0..RetryCap \cup {RetryBase}]
    /\ left \in [Callers -> 0..RetryCap \cup 0..RetryBase]

\* The next delay stays below the cap, whatever it is multiplied by.
LEMMA DelayBounded ==
    ASSUME NEW n \in 0..RetryCap \cup {RetryBase}
    PROVE  AtMost(n * Factor, RetryCap) \in 0..RetryCap
<1>1. n \in Nat /\ Factor \in Nat /\ RetryCap \in Nat
    BY FallbackAssumption
<1>2. n * Factor \in Nat
    BY <1>1
<1>3. QED  BY <1>1, <1>2, AtMostBounds

LEMMA PlacesStart == FallbackInit => PlacesOK
BY FallbackAssumption DEF FallbackInit, PlacesOK

\* A coroutine that enters a strategy has made no attempt with it.
LEMMA EnterPlaces ==
    ASSUME PlacesOK, NEW c \in Callers, NEW s \in 1..Strategies, Enter(c, s)
    PROVE  PlacesOK'
<1>1. 0 \in 0..MaxRetries
    BY FallbackAssumption
<1>2. QED  BY <1>1 DEF PlacesOK, Enter

LEMMA RaisesPlaces == ASSUME PlacesOK, NEW c \in Callers, Raises(c) PROVE PlacesOK'
<1>1. CASE strategy[c] < Strategies
    <2>1. strategy[c] + 1 \in 1..Strategies
        BY <1>1, FallbackAssumption DEF PlacesOK
    <2>2. QED  BY <1>1, <2>1, EnterPlaces DEF Raises
<1>2. CASE ~(strategy[c] < Strategies)
    BY <1>2 DEF Raises, Leave, PlacesOK
<1>3. QED  BY <1>1, <1>2

LEMMA RetryPlaces == ASSUME PlacesOK, NEW c \in Callers, Retry(c) PROVE PlacesOK'
<1>1. CASE attempt[c] < MaxRetries
    <2>1. AtMost(backoff[c] * Factor, RetryCap) \in 0..RetryCap
        BY DelayBounded DEF PlacesOK
    <2>2. attempt[c] + 1 \in 0..MaxRetries
        BY <1>1, FallbackAssumption DEF PlacesOK
    <2>3. backoff[c] \in 0..RetryCap \cup 0..RetryBase
        BY FallbackAssumption DEF PlacesOK
    <2>4. QED  BY <1>1, <2>1, <2>2, <2>3 DEF Retry, PlacesOK
<1>2. CASE ~(attempt[c] < MaxRetries)
    BY <1>2, RaisesPlaces DEF Retry
<1>3. QED  BY <1>1, <1>2

LEMMA PlacesStay == PlacesOK /\ [FallbackNext]_fallbackVars => PlacesOK'
<1> SUFFICES ASSUME PlacesOK, [FallbackNext]_fallbackVars PROVE PlacesOK'
    OBVIOUS
<1>1. ASSUME NEW c \in Callers, Begin(c) PROVE PlacesOK'
    <2>1. 1 \in 1..Strategies
        BY FallbackAssumption
    <2>2. QED  BY <1>1, <2>1, EnterPlaces DEF Begin
<1>2. ASSUME NEW c \in Callers, Refused(c) PROVE PlacesOK'
    BY <1>2, RetryPlaces DEF Refused
<1>3. ASSUME NEW c \in Callers, Fails(c) PROVE PlacesOK'
    BY <1>3, RetryPlaces, RaisesPlaces DEF Fails
<1>4. ASSUME NEW c \in Callers, Succeeds(c) \/ Cancelled(c) PROVE PlacesOK'
    BY <1>4 DEF Succeeds, Cancelled, Leave, PlacesOK
<1>5. ASSUME NEW c \in Callers, Try(c) \/ Wakes(c) PROVE PlacesOK'
    BY <1>5 DEF Try, Wakes, PlacesOK
<1>6. CASE FallbackTick
    BY <1>6, FallbackAssumption DEF FallbackTick, PlacesOK
<1>7. CASE UNCHANGED fallbackVars
    BY <1>7 DEF fallbackVars, PlacesOK
<1>8. QED  BY <1>1, <1>2, <1>3, <1>4, <1>5, <1>6, <1>7 DEF FallbackNext, CallerStep

\* However the calls of the chain end, no coroutine retries more often than it may, and no
\* delay but the first is above the cap.
THEOREM FallbackTypeCorrect == FallbackSpec => []FallbackTypeOK
<1>1. PlacesOK /\ BreakerAgrees => FallbackTypeOK
    BY DEF PlacesOK, FallbackTypeOK
<1>2. QED  BY <1>1, PlacesStart, PlacesStay, BreakerConsistent, PTL DEF FallbackSpec

\* A breaker that does not refuse is one below its threshold, or past its timeout.
LEMMA RefusesWhen ==
    ASSUME BreakerAgrees
    PROVE  ~Refuses <=> failures < Threshold \/ sinceFailure > Reset
BY FallbackAssumption DEF BreakerAgrees, Refuses

\* What can become of a coroutine that is about to try a strategy.
LEMMA FromReady ==
    ASSUME PlacesOK, [FallbackNext]_fallbackVars,
           NEW c \in Callers, at[c] = "ready", <<at[c], strategy[c]>>' # <<at[c], strategy[c]>>
    PROVE  Try(c) \/ Refused(c)
<1>1. ASSUME NEW d \in Callers, d # c, CallerStep(d) PROVE UNCHANGED <<at[c], strategy[c]>>
    <2> USE <1>1 DEF PlacesOK
    <2>1. CASE Begin(d) \/ Succeeds(d) \/ Cancelled(d) \/ Try(d) \/ Wakes(d)
        BY <2>1 DEF Begin, Succeeds, Cancelled, Try, Wakes, Enter, Leave
    <2>2. ASSUME Raises(d) PROVE UNCHANGED <<at[c], strategy[c]>>
        BY <2>2 DEF Raises, Enter, Leave
    <2>3. ASSUME Retry(d) PROVE UNCHANGED <<at[c], strategy[c]>>
        BY <2>2, <2>3 DEF Retry
    <2>4. QED  BY <2>1, <2>2, <2>3 DEF CallerStep, Refused, Fails
<1>2. CASE CallerStep(c)
    BY <1>2 DEF CallerStep, Begin, Succeeds, Fails, Wakes, Cancelled
<1>3. CASE FallbackTick \/ UNCHANGED fallbackVars
    BY <1>3 DEF FallbackTick, fallbackVars
<1>4. QED  BY <1>1, <1>2, <1>3 DEF FallbackNext

\* A refused call does not run.
LEMMA RefusedRests == ASSUME PlacesOK, NEW c \in Callers, Refused(c) PROVE at'[c] # "running"
<1>1. ASSUME Raises(c) PROVE at'[c] # "running"
    BY <1>1 DEF Raises, Enter, Leave, PlacesOK
<1>2. QED  BY <1>1 DEF Refused, Retry, PlacesOK

\* One step of the breaker's promise.
Admission ==
    \A c \in Callers :
         /\ at[c] = "ready" /\ strategy[c] \in Guarded
         /\ <<at[c], strategy[c]>>' # <<at[c], strategy[c]>>
         => (at'[c] = "running" <=> failures < Threshold \/ sinceFailure > Reset)

\* Only a coroutine that is about to try, or is refused, is an admission or a refusal.
LEMMA Admits == PlacesOK /\ BreakerAgrees /\ [FallbackNext]_fallbackVars => Admission
<1> SUFFICES ASSUME PlacesOK, BreakerAgrees, [FallbackNext]_fallbackVars,
                    NEW c \in Callers, at[c] = "ready", strategy[c] \in Guarded,
                    <<at[c], strategy[c]>>' # <<at[c], strategy[c]>>
             PROVE  at'[c] = "running" <=> failures < Threshold \/ sinceFailure > Reset
    BY DEF Admission
<1>1. CASE Try(c)
    <2>1. at'[c] = "running"
        BY <1>1 DEF Try, PlacesOK
    <2>2. ~Refuses
        BY <1>1 DEF Try
    <2>3. QED  BY <2>1, <2>2, RefusesWhen
<1>2. CASE Refused(c)
    BY <1>2, RefusedRests, RefusesWhen DEF Refused
<1>3. QED  BY <1>1, <1>2, FromReady

\* CircuitBreaker.call lets a call through exactly when its counter is below the threshold
\* or its timeout is over, for any number of coroutines that use the breaker at once.
THEOREM BreakerAdmitsExactly == FallbackSpec => AdmitsExactly
<1>1. PlacesOK /\ BreakerAgrees /\ [FallbackNext]_fallbackVars => [Admission]_fallbackVars
    BY Admits
<1>2. QED
    BY <1>1, PlacesStart, PlacesStay, BreakerConsistent, PTL
       DEF FallbackSpec, AdmitsExactly, Admission

-----------------------------------------------------------------------------
(* The import hooks: a package is loaded as one thing.  That a module inside   *)
(* a package is loaded after the package is what makes this inductive.         *)

\* A name is a package or a module inside one, and knows its package.
LEMMA NamesHavePackages ==
    ASSUME NEW n \in Names
    PROVE  /\ n[1] \in Packages
           /\ TopLevel(n) \in Names
           /\ TopLevel(TopLevel(n)) = TopLevel(n)
BY DEF Names, TopLevel

LEMMA HooksTyped == HooksInit => HooksTypeOK
BY DEF HooksInit, HooksTypeOK

LEMMA HooksStayTyped == HooksTypeOK /\ [HooksNext]_hookVars => HooksTypeOK'
<1> SUFFICES ASSUME HooksTypeOK, [HooksNext]_hookVars PROVE HooksTypeOK'
    OBVIOUS
<1> USE DEF HooksTypeOK
<1>1. ASSUME NEW p \in Packages, RegisterCloudPackage(p) \/ PackageInstalled(p) PROVE HooksTypeOK'
    BY <1>1 DEF RegisterCloudPackage, PackageInstalled
<1>2. CASE ActivateHooks
    BY <1>2 DEF ActivateHooks
<1>3. CASE DeactivateHooks
    BY <1>3 DEF DeactivateHooks
<1>4. ASSUME NEW n \in Names, Import(n) PROVE HooksTypeOK'
    <2>1. PICK k \in {"local", "proxy"} : kind' = [kind EXCEPT ![n] = k]
        BY <1>4 DEF Import
    <2>2. kind' \in [Names -> {"absent", "local", "proxy"}]
        BY <2>1
    <2>3. sessions' \subseteq {m \in Names : kind'[m] = "proxy"}
        BY <1>4, <2>1 DEF Import, InModules
    <2>4. QED  BY <1>4, <2>2, <2>3 DEF Import
<1>5. ASSUME NEW n \in Names, UseProxy(n) PROVE HooksTypeOK'
    BY <1>5 DEF UseProxy
<1>6. CASE UNCHANGED hookVars
    BY <1>6 DEF hookVars
<1>7. QED  BY <1>1, <1>2, <1>3, <1>4, <1>5, <1>6 DEF HooksNext

\* The flag of hooks.py tells whether its finder is on sys.meta_path, for any packages.
THEOREM HooksTypeCorrect == HooksSpec => []HooksTypeOK
BY HooksTyped, HooksStayTyped, PTL DEF HooksSpec

LEMMA NothingLoaded == HooksInit => OneKind
BY DEF HooksInit, OneKind, InModules

\* A package that is imported settles whether its modules are proxies.
LEMMA ImportKeepsKind ==
    ASSUME HooksTypeOK, OneKind, NEW n \in Names, Import(n)
    PROVE  OneKind'
<1> SUFFICES ASSUME NEW m \in Names, kind'[m] # "absent" PROVE kind'[m] = kind'[TopLevel(m)]
    BY DEF OneKind, InModules
<1>1. kind[n] = "absent"
    BY DEF Import, InModules
<1>2. PICK k \in {"local", "proxy"} : kind' = [kind EXCEPT ![n] = k]
    BY DEF Import
<1>3. CASE m # n
    \* The package of m is loaded already, so it is not what is imported now.
    <2>1. kind[m] = kind[TopLevel(m)] /\ kind[m] # "absent"
        BY <1>2, <1>3 DEF OneKind, InModules, HooksTypeOK
    <2>2. TopLevel(m) # n
        BY <1>1, <2>1
    <2>3. QED  BY <1>2, <1>3, <2>1, <2>2, NamesHavePackages DEF HooksTypeOK
<1>4. CASE m = n /\ TopLevel(n) = n
    BY <1>4
<1>5. CASE m = n /\ TopLevel(n) # n
    \* The finder and the standard import both go by what the package is.
    <2>1. kind[TopLevel(n)] \in {"local", "proxy"}
        BY <1>5, NamesHavePackages DEF Import, InModules, HooksTypeOK
    <2>2. k = kind[TopLevel(n)]
        BY <1>2, <1>5, <2>1 DEF Import, InModules, FindSpec, StandardFinds, HooksTypeOK
    <2>3. QED  BY <1>2, <1>5, <2>2, NamesHavePackages DEF HooksTypeOK
<1>6. QED  BY <1>3, <1>4, <1>5

LEMMA KindStays == HooksTypeOK /\ OneKind /\ [HooksNext]_hookVars => OneKind'
<1> SUFFICES ASSUME HooksTypeOK, OneKind, [HooksNext]_hookVars PROVE OneKind'
    OBVIOUS
<1>1. CASE UNCHANGED kind
    BY <1>1 DEF OneKind, InModules
<1>2. CASE \E n \in Names : Import(n)
    BY <1>2, ImportKeepsKind
<1>3. UNCHANGED kind \/ \E n \in Names : Import(n)
    BY DEF HooksNext, hookVars, RegisterCloudPackage, PackageInstalled, ActivateHooks,
           DeactivateHooks, UseProxy
<1>4. QED  BY <1>1, <1>2, <1>3

\* However packages are registered, installed and imported, the finder of hooks.py never
\* mixes proxies with modules of a package that was loaded normally.
THEOREM PackagesAreOneThing == HooksSpec => []OneKind
BY HooksTypeCorrect, NothingLoaded, KindStays, PTL DEF HooksSpec

-----------------------------------------------------------------------------
(* The parts side by side                                                  *)

\* A behaviour of the parts side by side is one of each part, by the definition of
\* RuntimeNext.
LEMMA RuntimeIsItsParts ==
    RuntimeSpec => Spec /\ SessionSpec /\ SyncSpec /\ FallbackSpec /\ HooksSpec
<1>1. RuntimeInit => Init /\ SessionInit /\ SyncInit /\ FallbackInit /\ HooksInit
    BY DEF RuntimeInit
<1>2. [RuntimeNext]_runtimeVars =>
          /\ [Next]_vars /\ [SessionNext]_sessionVars /\ [SyncNext]_syncVars
          /\ [FallbackNext]_fallbackVars /\ [HooksNext]_hookVars
    <2> SUFFICES ASSUME [RuntimeNext]_runtimeVars
                 PROVE  /\ [Next]_vars /\ [SessionNext]_sessionVars /\ [SyncNext]_syncVars
                        /\ [FallbackNext]_fallbackVars /\ [HooksNext]_hookVars
        OBVIOUS
    <2>1. CASE DaemonMoves
        BY <2>1 DEF DaemonMoves
    <2>2. CASE SessionMoves
        BY <2>2 DEF SessionMoves
    <2>3. CASE SyncMoves
        BY <2>3 DEF SyncMoves
    <2>4. CASE FallbackMoves
        BY <2>4 DEF FallbackMoves
    <2>5. CASE HooksMove
        BY <2>5 DEF HooksMove
    <2>6. CASE UNCHANGED runtimeVars
        BY <2>6 DEF runtimeVars
    <2> QED BY <2>1, <2>2, <2>3, <2>4, <2>5, <2>6 DEF RuntimeNext
<1> QED BY <1>1, <1>2, PTL DEF RuntimeSpec, Spec, SessionSpec, SyncSpec, FallbackSpec, HooksSpec

\* RuntimeTypeOK: the types of daemon, session, sync, breaker and hooks.
THEOREM RuntimeTypeCorrect == RuntimeSpec => []RuntimeTypeOK
<1>1. TypeOK /\ SessionTypeOK /\ SyncTypeOK /\ FallbackTypeOK /\ HooksTypeOK => RuntimeTypeOK
    BY DEF RuntimeTypeOK
<1> QED BY <1>1, RuntimeIsItsParts, DaemonTypeCorrect, SessionTypeCorrect, SyncTypeCorrect,
           FallbackTypeCorrect, HooksTypeCorrect, PTL
=============================================================================
