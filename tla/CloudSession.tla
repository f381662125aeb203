---------------------------- MODULE CloudSession ----------------------------
(***************************************************************************)
(* The cloud execution session of a proxy module (runtime/interceptor.py). *)
(* Threads of the program call execute, which hands the call to an event   *)
(* loop in a background thread; the coroutine connects if need be, sends   *)
(* the call and waits for the answer, which the receive loop of the        *)
(* connection finds by the call's id.  No lock is taken anywhere.          *)
(*                                                                         *)
(* An event loop is named by the call that created it, a connection and    *)
(* its receive loop by the call that opened it.  The 300 seconds of a call *)
(* are long: they pass only when the client has nothing to do for it.      *)
(* Arguments that cannot be serialized raise before the call is sent;      *)
(* that is in module Serialization, and here all can be.                   *)
(* Nothing in the repository closes a session.                             *)
(***************************************************************************)

CONSTANTS
    Calls,   \* calls of execute, each with the id of its message
    NoCall

ASSUME SessionAssumption ==
    /\ NoCall \notin Calls \cup {"starting", "ended", "answer", "error", "timeout"}
    /\ {"starting", "ended"} \cap Calls = {}

VARIABLES
    stage,     \* where the thread, and then the coroutine, of each call is
    outcome,   \* how execute ended: NoCall, "answer", "error" or "timeout"
    loop,      \* _loop
    spawned,   \* threads that have not read _loop yet
    looping,   \* event loops that run
    onLoop,    \* the loop each coroutine was handed to
    socket,    \* _ws
    connected, \* _connected
    line,      \* state of each connection
    reader,    \* for each receive loop, the connection it reads
    awaited,   \* _pending
    sentOn,    \* the connection each call was sent on
    inbox,     \* answers that arrived and no receive loop has taken
    future     \* the response futures: NoCall, or the loop in which an answer was set

sessionVars == <<stage, outcome, loop, spawned, looping, onLoop, socket, connected,
                 line, reader, awaited, sentOn, inbox, future>>

loopVars == <<loop, spawned, looping, onLoop>>
wireVars == <<socket, connected, line, reader, sentOn, inbox>>

NoOne   == [c \in Calls |-> NoCall]

SessionInit ==
    /\ stage = [c \in Calls |-> "new"]
    /\ outcome = NoOne
    /\ loop = NoCall /\ spawned = {} /\ looping = {}
    /\ onLoop = NoOne
    /\ socket = NoCall /\ connected = FALSE
    /\ line = [c \in Calls |-> "none"]
    /\ reader = NoOne
    /\ awaited = {}
    /\ sentOn = NoOne
    /\ inbox = {}
    /\ future = NoOne

Begun(c) == stage[c] # "new"

\* _ensure_loop: two threads may both find no loop that runs.
EnsureLoop(c) ==
    /\ stage[c] = "new"
    /\ stage' = [stage EXCEPT ![c] = IF loop \in looping THEN "submit" ELSE "make"]
    /\ UNCHANGED <<outcome, loopVars, wireVars, awaited, future>>

MakeLoop(c) ==
    /\ stage[c] = "make"
    /\ stage' = [stage EXCEPT ![c] = "submit"]
    /\ loop' = c
    /\ spawned' = spawned \cup {c}
    /\ UNCHANGED <<outcome, looping, onLoop, wireVars, awaited, future>>

\* _run_loop runs whatever _loop is by now; a loop that runs already is refused.
RunLoop(c) ==
    /\ c \in spawned
    /\ spawned' = spawned \ {c}
    /\ looping' = looping \cup {loop}
    /\ UNCHANGED <<stage, outcome, loop, onLoop, wireVars, awaited, future>>

\* run_coroutine_threadsafe, after at most half a second of waiting for the loop.
Submit(c) ==
    /\ stage[c] = "submit"
    /\ stage' = [stage EXCEPT ![c] = "queued"]
    /\ onLoop' = [onLoop EXCEPT ![c] = loop]
    /\ UNCHANGED <<outcome, loop, spawned, looping, wireVars, awaited, future>>

\* The coroutine after _connect: the future is registered, then the call is sent if
\* there is a connection w.  Sending on one that is not open raises, and the entry stays.
Send(c, w, open) ==
    /\ awaited' = awaited \cup {c}
    /\ IF w # NoCall /\ ~open
       THEN /\ stage' = [stage EXCEPT ![c] = "ended"]
            /\ outcome' = [outcome EXCEPT ![c] = IF @ = NoCall THEN "error" ELSE @]
            /\ UNCHANGED sentOn
       ELSE /\ stage' = [stage EXCEPT ![c] = "waiting"]
            /\ sentOn' = [sentOn EXCEPT ![c] = w]
            /\ UNCHANGED outcome

Scheduled(c) == stage[c] = "queued" /\ onLoop[c] \in looping

Connect(c) ==
    /\ Scheduled(c)
    /\ IF connected
       THEN Send(c, socket, line[socket] = "live")
       ELSE /\ stage' = [stage EXCEPT ![c] = "connecting"]
            /\ UNCHANGED <<outcome, awaited, sentOn>>
    /\ UNCHANGED <<loopVars, socket, connected, line, reader, inbox, future>>

\* Mutant: no receive loop is started.
ConnectOpensDeaf(c) ==
    /\ stage[c] = "connecting"
    /\ socket' = c
    /\ connected' = TRUE
    /\ line' = [line EXCEPT ![c] = "live"]
    /\ Send(c, c, TRUE)
    /\ UNCHANGED <<loopVars, reader, inbox, future>>

\* The connection replaces one that another coroutine opened meanwhile; the receive
\* loop is scheduled and reads _ws when it starts.
ConnectOpens(c) ==
    /\ stage[c] = "connecting"
    /\ socket' = c
    /\ connected' = TRUE
    /\ line' = [line EXCEPT ![c] = "live"]
    /\ reader' = [reader EXCEPT ![c] = "starting"]
    /\ Send(c, c, TRUE)
    /\ UNCHANGED <<loopVars, inbox, future>>

\* Without a connection the call is not sent and waits all the same.
ConnectRefused(c) ==
    /\ stage[c] = "connecting"
    /\ connected' = FALSE
    /\ Send(c, socket, socket # NoCall /\ line[socket] = "live")
    /\ UNCHANGED <<loopVars, socket, line, reader, inbox, future>>

\* _receive_loop: a second reader of one connection raises.
StartReader(r) ==
    /\ reader[r] = "starting"
    /\ IF \E q \in Calls : reader[q] = socket
       THEN reader' = [reader EXCEPT ![r] = "ended"] /\ connected' = FALSE
       ELSE reader' = [reader EXCEPT ![r] = socket] /\ UNCHANGED connected
    /\ UNCHANGED <<stage, outcome, loopVars, socket, line, awaited, sentOn, inbox, future>>

\* The entry is taken out of _pending; a future that was given up is not set.
Deliver(r, c) ==
    /\ c \in inbox /\ reader[r] = sentOn[c]
    /\ inbox' = inbox \ {c}
    /\ awaited' = awaited \ {c}
    /\ future' = IF stage[c] = "waiting"
                 THEN [future EXCEPT ![c] = onLoop[r]] ELSE future
    /\ UNCHANGED <<stage, outcome, loopVars, socket, connected, line, reader, sentOn>>

\* A closed connection is read to its end.  Only a broken one clears _connected.
ReaderEnds(r) ==
    /\ reader[r] \in Calls /\ line[reader[r]] # "live"
    /\ \A c \in inbox : sentOn[c] # reader[r]
    /\ connected' = (connected /\ line[reader[r]] = "closed")
    /\ reader' = [reader EXCEPT ![r] = "ended"]
    /\ UNCHANGED <<stage, outcome, loopVars, socket, line, awaited, sentOn, inbox, future>>

\* The cloud answers a call, closes a connection, or the connection breaks.
CloudAnswers(c) ==
    /\ sentOn[c] # NoCall /\ line[sentOn[c]] = "live"
    /\ c \in awaited /\ c \notin inbox
    /\ inbox' = inbox \cup {c}
    /\ UNCHANGED <<stage, outcome, loopVars, socket, connected, line, reader, awaited, sentOn, future>>

LineEnds(w, how) ==
    /\ line[w] = "live"
    /\ line' = [line EXCEPT ![w] = how]
    /\ UNCHANGED <<stage, outcome, loopVars, socket, connected, reader, awaited, sentOn, inbox, future>>

\* The future is done.  One that was set from another loop's thread wakes nobody: its
\* loop finds it when something else wakes it, if anything does.
Answered(c) == stage[c] = "waiting" /\ future[c] # NoCall
Woken(c)    == Answered(c) /\ future[c] = onLoop[c]

Resume(c) ==
    /\ Answered(c)
    /\ stage' = [stage EXCEPT ![c] = "ended"]
    /\ outcome' = [outcome EXCEPT ![c] = IF @ = NoCall THEN "answer" ELSE @]
    /\ UNCHANGED <<loopVars, wireVars, awaited, future>>

\* Whether the client itself has a step left to do for the call.
Busy(c) ==
    \/ stage[c] \in {"new", "make", "submit", "connecting"}
    \/ Scheduled(c) \/ Woken(c)
    \/ c \in inbox /\ \E r \in Calls : reader[r] \in {sentOn[c], "starting"}
    \/ spawned # {}

\* Mutant: only the coroutine has a time limit.
TimeOutInner(c) ==
    /\ ~Busy(c)
    /\ stage[c] = "waiting"
    /\ stage' = [stage EXCEPT ![c] = "ended"]
    /\ outcome' = [outcome EXCEPT ![c] = IF @ = NoCall THEN "timeout" ELSE @]
    /\ UNCHANGED <<loopVars, wireVars, awaited, future>>

\* The 300 seconds of future.result, or those of wait_for in the coroutine.  The entry
\* in _pending stays.
TimeOut(c) ==
    /\ ~Busy(c)
    /\ \/ outcome[c] = NoCall /\ Begun(c) /\ UNCHANGED stage
       \/ stage[c] = "waiting" /\ stage' = [stage EXCEPT ![c] = "ended"]
    /\ outcome' = [outcome EXCEPT ![c] = IF @ = NoCall THEN "timeout" ELSE @]
    /\ UNCHANGED <<loopVars, wireVars, awaited, future>>

\* The program has made its calls.
SessionOver ==
    /\ \A c \in Calls : outcome[c] # NoCall
    /\ UNCHANGED sessionVars

ClientStep(c) ==
    \/ MakeLoop(c) \/ RunLoop(c) \/ Submit(c) \/ Connect(c)
    \/ ConnectOpens(c) \/ ConnectRefused(c) \/ StartReader(c) \/ ReaderEnds(c)
    \/ Woken(c) /\ Resume(c)
    \/ \E r \in Calls : Deliver(r, c)
    \/ TimeOut(c)

SessionNext ==
    \/ /\ \E c \in Calls : outcome[c] = NoCall
       /\ \/ \E c \in Calls : EnsureLoop(c) \/ ClientStep(c) \/ Resume(c) \/ CloudAnswers(c)
          \/ \E w \in Calls, how \in {"closed", "broken"} : LineEnds(w, how)
    \/ SessionOver

SessionSpec == SessionInit /\ [][SessionNext]_sessionVars

\* Threads and loops run, a handshake succeeds or fails, and clocks go on.  The cloud
\* need not answer.
SessionFair == \A c \in Calls : WF_sessionVars(ClientStep(c))

-----------------------------------------------------------------------------
(* Properties                                                              *)

\* Every variable has its type, and an entry of _pending is for a call that has not
\* got its answer.
SessionTypeOK ==
    /\ stage \in [Calls -> {"new", "make", "submit", "queued", "connecting", "waiting", "ended"}]
    /\ outcome \in [Calls -> {"answer", "error", "timeout", NoCall}]
    /\ loop \in Calls \cup {NoCall} /\ spawned \subseteq Calls /\ looping \subseteq Calls
    /\ onLoop \in [Calls -> Calls \cup {NoCall}]
    /\ socket \in Calls \cup {NoCall} /\ connected \in BOOLEAN
    /\ line \in [Calls -> {"none", "live", "closed", "broken"}]
    /\ reader \in [Calls -> Calls \cup {"starting", "ended", NoCall}]
    /\ sentOn \in [Calls -> Calls \cup {NoCall}]
    /\ inbox \subseteq Calls
    /\ awaited \subseteq {c \in Calls : future[c] = NoCall}

\* Whether the session has had one event loop and one connection only.
Alone ==
    /\ loop \in looping
    /\ \A c \in Calls : onLoop[c] \in {loop, NoCall}
    /\ \A v, w \in Calls : line[v] # "none" /\ line[w] # "none" => v = w

\* A call whose answer has reached the client does not time out, as long as the
\* session has one loop and one connection.
AnswerReaches ==
    [][\A c \in Calls :
         Alone /\ outcome[c] = NoCall /\ outcome'[c] = "timeout"
           => c \notin inbox /\ future[c] = NoCall]_sessionVars

\* Every call of execute ends, although its loop may never run, the call may not be
\* sent, and the answer may never come.
CallsEnd == \A c \in Calls : Begun(c) ~> outcome[c] # NoCall
=============================================================================
