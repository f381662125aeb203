----------------------------- MODULE BuildQueue -----------------------------
(***************************************************************************)
(* The build farm's job queue (builder/queue.py): a list sorted by         *)
(* priority and time of arrival, and the jobs that are being processed,    *)
(* keyed by request id.  A failed job goes back to the queue one priority  *)
(* lower.                                                                  *)
(*                                                                         *)
(* A job is a BuildRequest object.  The clock never runs backwards, so     *)
(* sorting by (priority, time) keeps the order of arrival within a         *)
(* priority, and the position at which a job enters says it all.           *)
(***************************************************************************)
EXTENDS Integers, Sequences

CONSTANTS
    Jobs,      \* build requests
    RequestId, \* request_id of each
    Priority,  \* the priority each is submitted with: 1 highest, Lowest lowest
    Lowest,    \* 10 in the code: the priority a failing job sinks to
    None

RequestIds == {RequestId[j] : j \in Jobs}

ASSUME QueueAssumption ==
    /\ Lowest \in Nat \ {0}
    /\ RequestId \in [Jobs -> RequestIds]
    /\ Priority \in [Jobs -> 1..Lowest]
    /\ None \notin Jobs

VARIABLES
    queue,      \* _queue
    processing, \* _processing
    priority    \* request.priority

queueVars == <<queue, processing, priority>>

QueueInit ==
    /\ queue = <<>>
    /\ processing = [r \in RequestIds |-> None]
    /\ priority = Priority

Queued(j) == \E i \in DOMAIN queue : queue[i] = j

\* q with j at position k.
InsertAt(q, k, j) ==
    [i \in 1..(Len(q) + 1) |-> IF i < k THEN q[i] ELSE IF i = k THEN j ELSE q[i - 1]]

\* q without its first element.
Rest(q) == [i \in 1..(Len(q) - 1) |-> q[i + 1]]

\* Mutant: the list is not sorted again.
PushUnsorted(j, p) == queue' = InsertAt(queue, Len(queue) + 1, j)

\* append and sort: j enters behind every job of its priority p or a higher one.
Push(j, p) ==
    \E k \in 1..(Len(queue) + 1) :
        /\ \A i \in DOMAIN queue : i < k <=> priority[queue[i]] <= p
        /\ queue' = InsertAt(queue, k, j)

\* Mutant: the job is taken without being noted as being processed.
PopUnnoted ==
    /\ queue # <<>>
    /\ queue' = Rest(queue)
    /\ UNCHANGED <<processing, priority>>

Pop ==
    /\ queue # <<>>
    /\ queue' = Rest(queue)
    /\ processing' = [processing EXCEPT ![RequestId[queue[1]]] = queue[1]]
    /\ UNCHANGED priority

Complete(r) ==
    /\ processing' = [processing EXCEPT ![r] = None]
    /\ UNCHANGED <<queue, priority>>

\* Mutants: a failed job keeps its priority; it sinks below the lowest; it is
\* dropped.
FailSamePriority(r) ==
    /\ processing' = [processing EXCEPT ![r] = None]
    /\ \/ processing[r] = None /\ UNCHANGED <<queue, priority>>
       \/ /\ processing[r] # None
          /\ Push(processing[r], priority[processing[r]])
          /\ UNCHANGED priority

FailUncapped(r) ==
    /\ processing' = [processing EXCEPT ![r] = None]
    /\ \/ processing[r] = None /\ UNCHANGED <<queue, priority>>
       \/ /\ processing[r] # None
          /\ priority' = [priority EXCEPT ![processing[r]] = @ + 1]
          /\ Push(processing[r], priority[processing[r]] + 1)

FailDropped(r) ==
    /\ processing' = [processing EXCEPT ![r] = None]
    /\ UNCHANGED <<queue, priority>>

Fail(r) ==
    /\ processing' = [processing EXCEPT ![r] = None]
    /\ \/ processing[r] = None /\ UNCHANGED <<queue, priority>>
       \/ /\ processing[r] # None
          /\ LET j == processing[r]
                 p == IF priority[j] < Lowest THEN priority[j] + 1 ELSE Lowest
             IN  /\ priority' = [priority EXCEPT ![j] = p]
                 /\ Push(j, p)
=============================================================================
