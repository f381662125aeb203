------------------------------ MODULE CloudApi ------------------------------
(***************************************************************************)
(* The cloud's build and execution endpoints (server/api/builds.py,        *)
(* server/api/execution.py) on their services, behind the rate limiter     *)
(* (server/auth/rate_limiter.py).  A handler does not wait between its     *)
(* steps, so a request is one action.                                      *)
(*                                                                         *)
(* The limiter keeps, for each client, one list of the times of its        *)
(* requests of every class.  The model keeps how long ago they were, up to *)
(* the length of the window, from where on the code drops them.            *)
(***************************************************************************)
EXTENDS Integers, Sequences, FiniteSets, SequencesExt, Lists

CONSTANTS
    Clients,   \* addresses
    Window,    \* window_seconds
    Limits,    \* for each class of request, how many the window admits
    Builds,    \* request ids of builds, chosen by the clients
    Runs,      \* request ids of executions
    MaxQueue,  \* bound on the length of the queue
    None

Classes == {"default", "build", "exec"}

ASSUME ApiAssumption ==
    /\ Window \in Nat \ {0}
    /\ Limits \in [Classes -> Nat \ {0}]
    /\ MaxQueue \in Nat
    /\ None \notin {"queued", "cancelled", "pending", "running", "completed", "failed"}

VARIABLES
    window,   \* _windows: the ages of each client's requests
    admitted, \* the requests of the last window_seconds that were let through
    builds,   \* _builds: status of each build
    queue,    \* _queue
    results   \* _results: status of each execution

vars == <<window, admitted, builds, queue, results>>

Init ==
    /\ window = [c \in Clients |-> <<>>]
    /\ admitted = [c \in Clients |-> <<>>]
    /\ builds = [b \in Builds |-> None]
    /\ queue = <<>>
    /\ results = [r \in Runs |-> None]

\* The client's admitted requests, a second older.
Aged(c) == [i \in DOMAIN admitted[c] |-> [admitted[c][i] EXCEPT !.age = @ + 1]]

\* A second passes.
Tick ==
    /\ window' = [c \in Clients |->
         [i \in DOMAIN window[c] |-> IF window[c][i] < Window THEN window[c][i] + 1 ELSE Window]]
    /\ admitted' = [c \in Clients |->
         SubList(Aged(c), {i \in DOMAIN Aged(c) : Aged(c)[i].age < Window})]
    /\ UNCHANGED <<builds, queue, results>>

\* Mutant: a request is dropped from the list a second early.
RecentEarly(c) == SubList(window[c], {i \in DOMAIN window[c] : window[c][i] < Window - 1})

\* The requests that check still counts.
Recent(c) == SubList(window[c], {i \in DOMAIN window[c] : window[c][i] < Window})

Within(c, class) == Len(Recent(c)) < Limits[class]

\* Mutant: a refused request counts too.
CheckCountsRefused(c, class, ok) ==
    /\ ok = Within(c, class)
    /\ window' = [window EXCEPT ![c] = Append(Recent(c), 0)]
    /\ admitted' = IF ok
                   THEN [admitted EXCEPT ![c] = Append(@, [class |-> class, age |-> 0])]
                   ELSE admitted

\* check: whether a request is let through.
Check(c, class, ok) ==
    /\ ok = Within(c, class)
    /\ window' = [window EXCEPT ![c] = IF ok THEN Append(Recent(c), 0) ELSE Recent(c)]
    /\ admitted' = IF ok
                   THEN [admitted EXCEPT ![c] = Append(@, [class |-> class, age |-> 0])]
                   ELSE admitted

\* 429 Too Many Requests.
Refuse(c, class) ==
    /\ Check(c, class, FALSE)
    /\ UNCHANGED <<builds, queue, results>>

\* A request for a package.
GetPackage(c) ==
    /\ Check(c, "default", TRUE)
    /\ UNCHANGED <<builds, queue, results>>

\* Mutant: a build that is known already is not queued again.
SubmitBuildOnce(b) ==
    /\ Len(queue) < MaxQueue
    /\ builds' = [builds EXCEPT ![b] = "queued"]
    /\ queue' = IF builds[b] = None THEN Append(queue, b) ELSE queue

\* submit_build: a build with the same id is replaced, and queued again.
SubmitBuild(b) ==
    /\ Len(queue) < MaxQueue
    /\ builds' = [builds EXCEPT ![b] = "queued"]
    /\ queue' = Append(queue, b)

CreateBuild(c, b) ==
    /\ Check(c, "build", TRUE)
    /\ SubmitBuild(b)
    /\ UNCHANGED results

\* Nothing in the server ends a build, so none is ever succeeded or failed.
Cancellable(b) == builds[b] \notin {None, "succeeded", "failed"}

\* Neither of the two cancel requests is counted.  cancel_build takes one occurrence out
\* of the queue.
CancelBuild(b) ==
    /\ Cancellable(b)
    /\ builds' = [builds EXCEPT ![b] = "cancelled"]
    /\ queue' = IF b \in Range(queue) THEN RemoveFirst(queue, b) ELSE queue
    /\ UNCHANGED <<window, admitted, results>>

\* Mutant: the result is stored before the function has run.
RunFunctionEarly(r) == results' = [results EXCEPT ![r] = "running"]

\* The function runs in the handler; its result is stored when it ends.
RunFunction(r) ==
    \E s \in {"completed", "failed"} : results' = [results EXCEPT ![r] = s]

SubmitExecution(c, r) ==
    /\ Check(c, "exec", TRUE)
    /\ RunFunction(r)
    /\ UNCHANGED <<builds, queue>>

\* cancel finds only executions that have ended.
CancelExecution(r) ==
    /\ results' = IF results[r] \in {"pending", "running"}
                  THEN [results EXCEPT ![r] = "cancelled"] ELSE results
    /\ UNCHANGED <<window, admitted, builds, queue>>

Next ==
    \/ Tick
    \/ \E c \in Clients :
         \/ \E class \in Classes : Refuse(c, class)
         \/ GetPackage(c)
         \/ \E b \in Builds : CreateBuild(c, b)
         \/ \E r \in Runs : SubmitExecution(c, r)
    \/ \E b \in Builds : CancelBuild(b)
    \/ \E r \in Runs : CancelExecution(r)

Spec == Init /\ [][Next]_vars

-----------------------------------------------------------------------------
(* Properties                                                              *)

\* Every variable has its type; an execution ends as completed or failed.
TypeOK ==
    /\ window \in [Clients -> Seq(0..Window)]
    /\ admitted \in [Clients -> Seq([class : Classes, age : 0..(Window - 1)])]
    /\ builds \in [Builds -> {"queued", "cancelled", None}]
    /\ queue \in Seq(Builds) /\ Len(queue) <= MaxQueue
    /\ results \in [Runs -> {"completed", "failed", None}]

\* In any window at most as many requests of a class are let through as its limit
\* says, although the classes share one list.
RateBound ==
    \A c \in Clients, class \in Classes :
        Cardinality({i \in DOMAIN admitted[c] : admitted[c][i].class = class}) <= Limits[class]

\* A refused client that waits for the Retry-After of a whole window is let through,
\* however often it was refused meanwhile.
RetryAdmitted == \A c \in Clients, class \in Classes : admitted[c] = <<>> => Within(c, class)

\* A build that is reported as queued is in the queue, also when its id was submitted
\* again or cancelled before.
QueuedIsListed == \A b \in Builds : builds[b] = "queued" => b \in Range(queue)
=============================================================================
