--------------------------- MODULE MCClientRuntime ---------------------------
(* Instances of the parts of the client that live in memory, for model     *)
(* checking: the daemon, a cloud session, the metadata sync, the circuit   *)
(* breaker and the import hooks.  They share no state here, so a behaviour *)
(* is one of one part, chosen at the beginning.                            *)
EXTENDS ClientRuntime

CONSTANTS d1, d2,  \* daemons
          c1, c2,  \* calls, and coroutines of the fallback chain
          l1, l2,  \* tasks of the sync manager
          a, b, m  \* packages, and a module of each

MCDaemons    == {d1, d2}
MCCalls      == {c1, c2}
MCLoops      == {l1, l2}
MCPackages   == {a, b}
MCSubmodules == {m}
MCGuarded    == {1}

VARIABLE part

\* A behaviour of one part, chosen at the beginning; the others stay as they begin.
MCInit ==
    /\ part \in {"daemon", "session", "sync", "fallback", "hooks"}
    /\ RuntimeInit
    /\ part # "hooks" => available = {}

MCNext ==
    \/ part = "daemon" /\ DaemonMoves /\ UNCHANGED part
    \/ part = "session" /\ SessionMoves /\ UNCHANGED part
    \/ part = "sync" /\ SyncMoves /\ UNCHANGED part
    \/ part = "fallback" /\ FallbackMoves /\ UNCHANGED part
    \/ part = "hooks" /\ HooksMove /\ UNCHANGED part

\* The fairness of each part: FairSpec, SessionFair and SyncFair.
MCFair ==
    /\ \A d \in Daemons : /\ WF_vars(part = "daemon" /\ LoopStep(d))
                          /\ WF_vars(part = "daemon" /\ StopStep(d))
    /\ \A c \in Calls : WF_sessionVars(part = "session" /\ ClientStep(c))
    /\ WF_syncVars(part = "sync" /\ Minute)
    /\ \A l \in Loops : WF_syncVars(part = "sync" /\ SyncLoop(l))

MCSpec == MCInit /\ [][MCNext]_<<part, runtimeVars>> /\ MCFair
==============================================================================
