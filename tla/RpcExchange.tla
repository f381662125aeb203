---------------------------- MODULE RpcExchange ----------------------------
(***************************************************************************)
(* Calls of the daemon to the cloud: rpc_call and the messages it handles  *)
(* (client/daemon.py), and the dispatcher that answers them                *)
(* (server/ws/rpc.py), one message of a connection after the other.  The   *)
(* connection may be lost and made again; the server's part in that is     *)
(* module DeviceEndpoint.  The module begins with a connection, which the  *)
(* daemon does not get today (module Daemon): it is what the two programs  *)
(* do on one.                                                              *)
(***************************************************************************)
EXTENDS RpcMessages, Sequences

CONSTANTS
    CallIds,    \* ids of the calls
    MethodOf,   \* the method of each
    Handlers    \* _handlers of the dispatcher: the methods that are registered

Waiting   == <<"waiting">>
CallError == <<"ConnectionError">>
Timeout   == <<"TimeoutError">>

\* A call on the wire.
CallOf(c) == ToJson(make_call(c, MethodOf[c], c))

\* Nothing is no id, no state of a call and no message.
ASSUME ExchangeAssumption ==
    /\ Nothing \notin CallIds \cup {Waiting, CallError, Timeout}
    /\ Nothing \notin {<<"result", c>> : c \in CallIds} \cup
                      {<<"error", e>> : e \in {"EXECUTION_ERROR", "METHOD_NOT_FOUND"}}
    /\ \A c \in CallIds : Nothing # FromJson(CallOf(c))

VARIABLES
    caller,     \* how far each rpc_call is
    pending,    \* _pending of the daemon
    up, down,   \* the JSON on the connection, to the cloud and back
    serving,    \* the call the dispatcher has taken, if any
    linked,     \* whether there is a connection
    stranded    \* calls whose connection was lost

exchangeVars == <<caller, pending, up, down, serving, linked, stranded>>

ExchangeInit ==
    /\ caller = [c \in CallIds |-> Nothing]
    /\ pending = {}
    /\ up = <<>> /\ down = <<>>
    /\ serving = Nothing
    /\ linked = TRUE
    /\ stranded = {}

\* rpc_call: the future is registered before the call is sent; on a connection that is
\* closed sending raises, and the entry stays.
RpcCall(c) ==
    /\ caller[c] = Nothing
    /\ pending' = pending \cup {c}
    /\ IF linked
       THEN /\ caller' = [caller EXCEPT ![c] = Waiting]
            /\ up' = Append(up, CallOf(c))
       ELSE caller' = [caller EXCEPT ![c] = CallError] /\ UNCHANGED up
    /\ UNCHANGED <<down, serving, linked, stranded>>

\* The endpoint hands the next call to the dispatcher.
TakeCall ==
    /\ serving = Nothing /\ up # <<>>
    /\ serving' = FromJson(Head(up))
    /\ up' = Tail(up)
    /\ UNCHANGED <<caller, pending, down, linked, stranded>>

\* Mutant: an unknown method raises, and the endpoint's report of that raises again.
DispatchLookup(m) ==
    IF m.method \in Handlers
    THEN {make_result(m.id, m.params), make_error(m.id, "EXECUTION_ERROR")} ELSE {}

\* dispatch: what it may answer.  The handlers answer their params, or raise.
Dispatch(m) ==
    IF m.method \in Handlers
    THEN {make_result(m.id, m.params), make_error(m.id, "EXECUTION_ERROR")}
    ELSE {make_error(m.id, "METHOD_NOT_FOUND")}

\* The endpoint sends the answer, if there is one.
AnswerCall ==
    /\ serving # Nothing
    /\ LET answers == Dispatch(serving)
       IN  IF answers = {} THEN UNCHANGED down
           ELSE \E reply \in answers : down' = Append(down, ToJson(reply))
    /\ serving' = Nothing
    /\ UNCHANGED <<caller, pending, up, linked, stranded>>

\* What the future of a call is set to.
Outcome(m) == IF m.type = "result" THEN <<"result", m.result>> ELSE <<"error", m.error>>

\* Mutant: the future is set even if the call was given up.
HandleReplyLate ==
    /\ down # <<>>
    /\ down' = Tail(down)
    /\ LET m == FromJson(Head(down))
       IN  /\ pending' = pending \ {m.id}
           /\ caller' = IF m.id \in pending THEN [caller EXCEPT ![m.id] = Outcome(m)] ELSE caller
    /\ UNCHANGED <<up, serving, linked, stranded>>

\* _handle_message of a result or an error: the entry goes, and a future that was given
\* up is not set.
HandleReply ==
    /\ down # <<>>
    /\ down' = Tail(down)
    /\ LET m == FromJson(Head(down))
       IN  /\ pending' = pending \ {m.id}
           /\ caller' = IF m.id \in pending /\ caller[m.id] = Waiting
                        THEN [caller EXCEPT ![m.id] = Outcome(m)] ELSE caller
    /\ UNCHANGED <<up, serving, linked, stranded>>

\* wait_for gives up after 300 seconds; the entry stays until an answer comes.
CallTimesOut(c) ==
    /\ caller[c] = Waiting
    /\ caller' = [caller EXCEPT ![c] = Timeout]
    /\ UNCHANGED <<pending, up, down, serving, linked, stranded>>

\* The connection is lost with what is on it, and the endpoint's handler with it; the
\* daemon makes another one and keeps _pending.
LinkLost ==
    /\ linked
    /\ linked' = FALSE
    /\ up' = <<>> /\ down' = <<>> /\ serving' = Nothing
    /\ stranded' = {c \in CallIds : caller[c] # Nothing}
    /\ UNCHANGED <<caller, pending>>

LinkMade == ~linked /\ linked' = TRUE /\ UNCHANGED <<caller, pending, up, down, serving, stranded>>

\* The daemon has made its calls.
ExchangeOver ==
    /\ \A c \in CallIds : caller[c] \notin {Nothing, Waiting}
    /\ UNCHANGED exchangeVars

ExchangeNext ==
    \/ \E c \in CallIds : RpcCall(c) \/ CallTimesOut(c)
    \/ TakeCall \/ AnswerCall \/ HandleReply \/ LinkLost \/ LinkMade \/ ExchangeOver

ExchangeSpec == ExchangeInit /\ [][ExchangeNext]_exchangeVars

------------------------------------------------------------------------------
(* Properties                                                              *)

\* The answers that a call may get: its own params, or an error of the kind its method has.
Answers(c) ==
    IF MethodOf[c] \in Handlers THEN {<<"result", c>>, <<"error", "EXECUTION_ERROR">>}
    ELSE {<<"error", "METHOD_NOT_FOUND">>}

\* A call ends with one of those, or with an exception of the daemon's; only a call that was
\* made is pending.
ExchangeTypeOK ==
    /\ \A c \in CallIds : caller[c] \in {Nothing, Waiting, CallError, Timeout} \cup Answers(c)
    /\ pending \subseteq {c \in CallIds : caller[c] # Nothing}
    /\ linked \in BOOLEAN
    /\ serving # Nothing => serving.id \in CallIds

IdsOn(wire) == {wire[i].id : i \in DOMAIN wire}

\* While its connection lasts, a call that waits is on its way, is served, or its answer is
\* on its way, and the daemon still knows whom the answer is for: none waits in vain, not
\* one of an unknown method, nor one whose handler raises.
NoCallLost ==
    \A c \in CallIds \ stranded :
        caller[c] = Waiting =>
            /\ c \in pending
            /\ c \in IdsOn(up) \cup IdsOn(down) \cup (IF serving = Nothing THEN {} ELSE {serving.id})

\* How far a call has come: where it is while it waits.
Stage(c) ==
    IF caller[c] = Nothing THEN "new"
    ELSE IF caller[c] # Waiting THEN "over"
    ELSE IF c \in IdsOn(up) THEN "sent"
    ELSE IF serving # Nothing /\ serving.id = c THEN "served"
    ELSE IF c \in IdsOn(down) THEN "answered"
    ELSE "lost"

Lifecycle == INSTANCE CallLifecycle WITH
    Calls <- CallIds, AnswersOf <- [c \in CallIds |-> Answers(c)],
    Refused <- CallError, TimedOut <- Timeout, None <- Nothing,
    stage  <- [c \in CallIds |-> Stage(c)],
    ending <- [c \in CallIds |-> IF caller[c] = Waiting THEN Nothing ELSE caller[c]]

\* rpc_call, the endpoint, dispatch and the daemon's handler of messages, each with tables and
\* connections of their own, make of a call what the life cycle promises: none is served twice
\* or without having been sent, a late answer does not change how a call ended, an answer
\* ends its own call, and what a lost connection carried never comes back.
ImplementsCalls == Lifecycle!Spec
=============================================================================
