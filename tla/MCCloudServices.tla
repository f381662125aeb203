--------------------------- MODULE MCCloudServices ---------------------------
(* Instances of the parts of the cloud and of the calls to it, for model   *)
(* checking: the endpoints behind the rate limiter, streamed results, the  *)
(* daemon's calls and the dispatcher, the values that travel and the       *)
(* server's sessions.  They share no state here, so a behaviour is one of  *)
(* one part, chosen at the beginning.                                      *)
EXTENDS CloudServices

CONSTANTS c1, c2, b1, b2, r1,  \* clients, builds and a run
          s1, s2,              \* streamed results
          e1, e2, x1,          \* calls of a method that has a handler, and of one that has none
          one, pair            \* keys that are no strings: the number 1 and a tuple

\* Limits in the order of the code's 10, 50 and 100.
MCClients  == {c1, c2}
MCLimits   == ("build" :> 1) @@ ("exec" :> 2) @@ ("default" :> 3)
MCBuilds   == {b1, b2}
MCRuns     == {r1}
MCStreams  == {s1, s2}
MCContents == (s1 :> "json") @@ (s2 :> "text")
MCCalls    == {e1, e2, x1}
MCMethods  == (e1 :> "echo") @@ (e2 :> "echo") @@ (x1 :> "other")
MCHandlers == {"echo"}
MCSessions == {1}

\* Atoms of every kind; containers of up to n values of S; containers of one value that may be
\* a container.  Dictionaries have keys the code uses for itself, a key that is no string and
\* the string that is its text, and a key JSON has no text for.
MCAtoms == {<<kind, "x">> : kind \in {"scalar", "bytes", "pickle", "opaque", "unpicklable"}}
MCText  == ("1" :> "1") @@ ("__type__" :> "__type__") @@ (one :> "1") @@ (pair :> NoText)
UpTo(n, S) == UNION {[1..k -> S] : k \in 0..n}
Containers(S, n) ==
    {<<kind, s>> : kind \in {"list", "tuple"}, s \in UpTo(n, S)}
    \cup {<<"dict", f>> : f \in UNION {[Range(s) -> S] : s \in UpTo(n, DOMAIN MCText)}}
    \cup {<<"set", Range(s)>> : s \in UpTo(n, {v \in S : Hashable(v)})}
MCShallow == MCAtoms \cup Containers(MCAtoms, 2)
MCValues  == MCShallow \cup Containers(MCShallow, 1)
MCDepth   == [v \in MCValues |-> IF v \in MCAtoms THEN 0 ELSE IF v \in MCShallow THEN 1 ELSE 2]

VARIABLE part

\* A behaviour of one part, chosen at the beginning; the others stay as they begin.
MCInit ==
    /\ part \in {"api", "stream", "exchange", "values", "sessions"}
    /\ ServicesInit
    /\ part # "values" => original = <<"list", <<>>>>

MCNext ==
    \/ part = "api" /\ ApiMoves /\ UNCHANGED part
    \/ part = "stream" /\ StreamMoves /\ UNCHANGED part
    \/ part = "exchange" /\ ExchangeMoves /\ UNCHANGED part
    \/ part = "values" /\ ValueMoves /\ UNCHANGED part
    \/ part = "sessions" /\ SessionsMove /\ UNCHANGED part

MCSpec == MCInit /\ [][MCNext]_<<part, servicesVars>>
==============================================================================
