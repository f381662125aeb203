-------------------------- MODULE BuildWorkerProofs --------------------------
(***************************************************************************)
(* TLAPS proofs about the build farm, for any jobs, priorities and workers *)
(* and whatever the compiler leaves in its output directory.               *)
(***************************************************************************)
EXTENDS BuildWorker, SequenceTheorems, TLAPS

(***************************************************************************)
(* The queue's operations on lists                                         *)
(***************************************************************************)
LEMMA InsertAtSeq ==
    ASSUME NEW S, NEW q \in Seq(S), NEW k \in 1..(Len(q) + 1), NEW j \in S
    PROVE  /\ InsertAt(q, k, j) \in Seq(S)
           /\ DOMAIN InsertAt(q, k, j) = 1..(Len(q) + 1)
<1>1. Len(q) \in Nat /\ \A i \in 1..Len(q) : q[i] \in S
  BY LenProperties
<1>2. InsertAt(q, k, j) \in [1..(Len(q) + 1) -> S]
  BY <1>1 DEF InsertAt
<1>. QED
  BY <1>1, <1>2, SeqDef DEF InsertAt

\* What pop leaves is a list again, one shorter.
LEMMA RestSeq ==
    ASSUME NEW S, NEW q \in Seq(S), q # <<>>
    PROVE  /\ Rest(q) \in Seq(S)
           /\ DOMAIN Rest(q) = 1..(Len(q) - 1)
           /\ 1 \in DOMAIN q
<1>1. Len(q) \in Nat \ {0} /\ \A i \in 1..Len(q) : q[i] \in S
  BY LenProperties, EmptySeq
<1>2. Rest(q) \in [1..(Len(q) - 1) -> S]
  BY <1>1 DEF Rest
<1>. QED
  BY <1>1, <1>2, SeqDef, LenProperties DEF Rest

(***************************************************************************)
(* Types                                                                   *)
(***************************************************************************)
LEMMA InitTypeOK == Init => TypeOK
BY QueueAssumption, WorkerAssumption, EmptySeq DEF Init, QueueInit, TypeOK

LEMMA PushType ==
    ASSUME queue \in Seq(Jobs), NEW j \in Jobs, NEW p, Push(j, p)
    PROVE  queue' \in Seq(Jobs)
BY InsertAtSeq DEF Push

LEMMA FailType ==
    ASSUME TypeOK, NEW r \in RequestIds, Fail(r)
    PROVE  /\ queue' \in Seq(Jobs)
           /\ processing' \in [RequestIds -> Jobs \cup {None}]
           /\ priority' \in [Jobs -> 1..Lowest]
<1>1. processing' \in [RequestIds -> Jobs \cup {None}]
  BY DEF Fail, TypeOK
<1>2. CASE processing[r] = None
  BY <1>1, <1>2 DEF Fail, TypeOK
<1>3. CASE processing[r] # None
  <2> DEFINE j == processing[r]
             p == IF priority[j] < Lowest THEN priority[j] + 1 ELSE Lowest
  <2>1. j \in Jobs /\ p \in 1..Lowest
    BY <1>3, QueueAssumption DEF TypeOK
  <2>2. priority' = [priority EXCEPT ![j] = p] /\ Push(j, p)
    BY <1>3 DEF Fail
  <2>. QED
    BY <1>1, <2>1, <2>2, PushType DEF TypeOK
<1>. QED
  BY <1>2, <1>3

LEMMA NextTypeOK == TypeOK /\ [Next]_vars => TypeOK'
<1> SUFFICES ASSUME TypeOK, [Next]_vars PROVE TypeOK'
  OBVIOUS
<1> USE QueueAssumption, WorkerAssumption DEF workerVars
<1>1. CASE UNCHANGED vars
  BY <1>1 DEF TypeOK, vars, queueVars
<1>2. ASSUME NEW j \in Jobs, Submit(j) PROVE TypeOK'
  BY <1>2, PushType DEF Submit, TypeOK
<1>3. ASSUME NEW w \in Workers, Leave(w) PROVE TypeOK'
  BY <1>3 DEF Leave, TypeOK, queueVars
<1>4. ASSUME NEW w \in Workers, Take(w) PROVE TypeOK'
  <2>1. queue' \in Seq(Jobs) /\ queue[1] \in Jobs
    BY <1>4, RestSeq, LenProperties DEF Take, Pop, TypeOK
  <2>2. processing' \in [RequestIds -> Jobs \cup {None}]
    BY <1>4, <2>1 DEF Take, Pop, TypeOK
  <2>. QED
    BY <1>4, <2>1, <2>2 DEF Take, Pop, TypeOK
<1>5. ASSUME NEW w \in Workers, Sleep(w) PROVE TypeOK'
  BY <1>5 DEF Sleep, TypeOK, queueVars
<1>6. ASSUME NEW w \in Workers, Wake(w) PROVE TypeOK'
  BY <1>6 DEF Wake, TypeOK, queueVars
<1>7. ASSUME NEW w \in Workers, Compiled(w) PROVE TypeOK'
  <2>1. req[w] \in Jobs
    BY <1>7 DEF Compiled, TypeOK
  <2>. QED
    BY <1>7, <2>1 DEF Compiled, TypeOK, queueVars
<1>8. ASSUME NEW w \in Workers, Succeed(w) PROVE TypeOK'
  BY <1>8 DEF Succeed, Loop, Complete, Found, TypeOK
<1>9. ASSUME NEW w \in Workers, FailBuild(w) PROVE TypeOK'
  <2>1. RequestId[req[w]] \in RequestIds
    BY <1>9 DEF FailBuild, TypeOK, RequestIds
  <2>. QED
    BY <1>9, <2>1, FailType DEF FailBuild, Loop, TypeOK
<1>10. ASSUME NEW w \in Workers, Stop(w) PROVE TypeOK'
  BY <1>10 DEF Stop, TypeOK, queueVars
<1>. QED
  BY <1>1, <1>2, <1>3, <1>4, <1>5, <1>6, <1>7, <1>8, <1>9, <1>10
     DEF Next, WorkerStep

\* In every behaviour of the farm the queue, the table of jobs in process and
\* the workers' states have their types.
THEOREM TypeCorrect == Spec => []TypeOK
BY InitTypeOK, NextTypeOK, PTL DEF Spec

(***************************************************************************)
(* What push and pop do to the list                                        *)
(***************************************************************************)
\* Putting p where everything before is at most p and everything after is above
\* it keeps a list of numbers sorted.
LEMMA InsertSorted ==
    ASSUME NEW n \in Nat, NEW k \in 1..(n + 1), NEW p \in Int,
           NEW u \in [1..n -> Int], NEW v \in [1..(n + 1) -> Int],
           \A i, m \in 1..n : i < m => u[i] <= u[m],
           \A i \in 1..n : i < k <=> u[i] <= p,
           v[k] = p,
           \A i \in 1..(n + 1) : /\ i < k => v[i] = u[i]
                                 /\ i > k => v[i] = u[i - 1]
    PROVE  \A a, b \in 1..(n + 1) : a < b => v[a] <= v[b]
<1> SUFFICES ASSUME NEW a \in 1..(n + 1), NEW b \in 1..(n + 1), a < b
             PROVE  v[a] <= v[b]
  OBVIOUS
<1>1. CASE b < k
  <2>1. a \in 1..n /\ b \in 1..n /\ v[a] = u[a] /\ v[b] = u[b]
    BY <1>1
  <2>. QED
    BY <2>1
<1>2. CASE b = k
  <2>1. a \in 1..n /\ a < k /\ v[a] = u[a] /\ v[b] = p
    BY <1>2
  <2>. QED
    BY <2>1
<1>3. CASE b > k
  <2>1. b - 1 \in 1..n /\ ~(b - 1 < k) /\ v[b] = u[b - 1]
    BY <1>3
  <2>2. u[b - 1] \in Int /\ p < u[b - 1]
    BY <2>1
  <2>3. CASE a < k
    <3>1. a \in 1..n /\ v[a] = u[a] /\ u[a] <= p
      BY <2>3
    <3>. QED
      BY <2>1, <2>2, <3>1
  <2>4. CASE a = k
    BY <2>1, <2>2, <2>4
  <2>5. CASE a > k
    <3>1. a - 1 \in 1..n /\ v[a] = u[a - 1] /\ a - 1 < b - 1
      BY <2>5
    <3>. QED
      BY <2>1, <3>1
  <2>. QED
    BY <2>3, <2>4, <2>5
<1>. QED
  BY <1>1, <1>2, <1>3

\* push keeps the order by priority: the new job goes behind those of its own priority.
LEMMA PushList ==
    ASSUME TypeOK, QueueSorted, Distinct, NEW j \in Jobs, NEW p \in 1..Lowest,
           ~Queued(j), Push(j, p),
           priority' \in [Jobs -> 1..Lowest], priority'[j] = p,
           \A x \in Jobs : x # j => priority'[x] = priority[x]
    PROVE  QueueSorted' /\ Distinct' /\ \A x : Queued(x)' <=> Queued(x) \/ x = j
<1>1. PICK k \in 1..(Len(queue) + 1) :
         /\ \A i \in DOMAIN queue : i < k <=> priority[queue[i]] <= p
         /\ queue' = InsertAt(queue, k, j)
  BY DEF Push
<1> DEFINE n == Len(queue)
<1>2. /\ n \in Nat
      /\ DOMAIN queue = 1..n
      /\ \A i \in 1..n : queue[i] \in Jobs /\ queue[i] # j
  BY LenProperties DEF TypeOK, Queued
<1>3. /\ DOMAIN queue' = 1..(n + 1)
      /\ \A i \in 1..(n + 1) : i < k => i \in 1..n /\ queue'[i] = queue[i]
      /\ queue'[k] = j
      /\ \A i \in 1..(n + 1) : i > k => i - 1 \in 1..n /\ queue'[i] = queue[i - 1]
  BY <1>1, <1>2, InsertAtSeq DEF InsertAt, TypeOK
<1>4. Lowest \in Nat /\ p \in Int /\ priority \in [Jobs -> Int] /\ priority' \in [Jobs -> Int]
  BY QueueAssumption DEF TypeOK
<1>5. QueueSorted'
  <2> DEFINE u == [i \in 1..n |-> priority[queue[i]]]
             v == [i \in 1..(n + 1) |-> priority'[queue'[i]]]
  <2>1. u \in [1..n -> Int]
    BY <1>2, <1>4
  <2>2. \A i \in 1..(n + 1) : queue'[i] \in Jobs
    BY <1>1, <1>2, <1>3
  <2>3. v \in [1..(n + 1) -> Int]
    BY <1>4, <2>2
  <2>4. \A i, m \in 1..n : i < m => u[i] <= u[m]
    BY <1>2 DEF QueueSorted
  <2>5. \A i \in 1..n : i < k <=> u[i] <= p
    BY <1>1, <1>2
  <2>6. v[k] = p
    BY <1>1, <1>3
  <2>7. \A i \in 1..(n + 1) : /\ i < k => v[i] = u[i]
                              /\ i > k => v[i] = u[i - 1]
    BY <1>2, <1>3
  <2>8. \A a, b \in 1..(n + 1) : a < b => v[a] <= v[b]
    <3> HIDE DEF n, u, v
    <3>1. k \in 1..(n + 1)
      BY <1>1 DEF n
    <3>. QED
      BY ONLY <1>2, <1>4, <3>1, <2>1, <2>3, <2>4, <2>5, <2>6, <2>7, InsertSorted
  <2>. QED
    BY <1>3, <2>8 DEF QueueSorted
<1>6. Distinct'
  <2> SUFFICES ASSUME NEW a \in 1..(n + 1), NEW b \in 1..(n + 1), queue'[a] = queue'[b]
               PROVE  a = b
    BY <1>3 DEF Distinct
  <2>0. k \in 1..(n + 1)
    BY <1>1
  <2>1. \A x, y \in 1..n : queue[x] = queue[y] => x = y
    BY <1>2 DEF Distinct
  <2> HIDE DEF n
  <2>2. CASE a = k \/ b = k
    BY ONLY <1>2, <1>3, <2>0, <2>2, queue'[a] = queue'[b]
  <2>3. CASE a < k /\ b < k
    BY ONLY <1>3, <2>1, <2>3, queue'[a] = queue'[b]
  <2>4. CASE a > k /\ b > k
    <3>1. a - 1 \in 1..n /\ b - 1 \in 1..n /\ queue[a - 1] = queue[b - 1]
      BY ONLY <1>3, <2>4, queue'[a] = queue'[b]
    <3>2. a - 1 = b - 1
      BY ONLY <3>1, <2>1
    <3>. QED
      BY ONLY <1>2, <3>2, a \in 1..(n + 1), b \in 1..(n + 1)
  <2>5. CASE a < k /\ b > k
    <3>1. a \in 1..n /\ b - 1 \in 1..n /\ queue[a] = queue[b - 1]
      BY ONLY <1>3, <2>5, queue'[a] = queue'[b]
    <3>2. a = b - 1
      BY ONLY <3>1, <2>1
    <3>. QED
      BY ONLY <1>2, <2>0, <2>5, <3>2, a \in 1..(n + 1), b \in 1..(n + 1)
  <2>6. CASE a > k /\ b < k
    <3>1. b \in 1..n /\ a - 1 \in 1..n /\ queue[b] = queue[a - 1]
      BY ONLY <1>3, <2>6, queue'[a] = queue'[b]
    <3>2. b = a - 1
      BY ONLY <3>1, <2>1
    <3>. QED
      BY ONLY <1>2, <2>0, <2>6, <3>2, a \in 1..(n + 1), b \in 1..(n + 1)
  <2>. QED
    BY ONLY <1>2, <2>0, <2>2, <2>3, <2>4, <2>5, <2>6, a \in 1..(n + 1), b \in 1..(n + 1)
<1>7. ASSUME NEW x PROVE Queued(x)' <=> Queued(x) \/ x = j
  <2>0. k \in 1..(n + 1)
    BY <1>1
  <2>1. ASSUME NEW i \in 1..n PROVE \E m \in 1..(n + 1) : queue'[m] = queue[i]
    <3> HIDE DEF n
    <3>1. CASE i < k
      <4>1. i \in 1..(n + 1) /\ queue'[i] = queue[i]
        BY ONLY <1>2, <1>3, <3>1, i \in 1..n
      <4>. QED
        BY ONLY <4>1
    <3>2. CASE i >= k
      <4>1. i + 1 \in 1..(n + 1) /\ i + 1 > k /\ (i + 1) - 1 = i
        BY ONLY <1>2, <2>0, <3>2, i \in 1..n
      <4>2. queue'[i + 1] = queue[i]
        BY ONLY <1>3, <4>1
      <4>. QED
        BY ONLY <4>1, <4>2
    <3>. QED
      BY ONLY <1>2, <2>0, <3>1, <3>2, i \in 1..n
  <2>2. ASSUME NEW m \in 1..(n + 1)
        PROVE  queue'[m] = j \/ \E i \in 1..n : queue[i] = queue'[m]
    <3> HIDE DEF n
    <3>. QED
      BY ONLY <1>2, <1>3, <2>0, m \in 1..(n + 1)
  <2> HIDE DEF n
  <2>3. Queued(x) <=> \E i \in 1..n : queue[i] = x
    BY ONLY <1>2 DEF Queued
  <2>4. Queued(x)' <=> \E m \in 1..(n + 1) : queue'[m] = x
    BY ONLY <1>3 DEF Queued
  <2>. QED
    BY ONLY <1>3, <2>0, <2>1, <2>2, <2>3, <2>4
<1>. QED
  BY <1>5, <1>6, <1>7

\* pop takes out the first job and no other.
LEMMA PopList ==
    ASSUME TypeOK, QueueSorted, Distinct, Pop
    PROVE  /\ QueueSorted' /\ Distinct'
           /\ queue[1] \in Jobs /\ Queued(queue[1])
           /\ \A x : Queued(x)' <=> Queued(x) /\ x # queue[1]
<1> DEFINE n == Len(queue)
<1>0. queue \in Seq(Jobs) /\ queue # <<>> /\ queue' = Rest(queue)
  BY DEF Pop, TypeOK
<1>1. /\ n \in Nat \ {0}
      /\ DOMAIN queue = 1..n
      /\ \A i \in 1..n : queue[i] \in Jobs
  BY <1>0, LenProperties, EmptySeq
<1>2. /\ DOMAIN queue' = 1..(n - 1)
      /\ \A i \in 1..(n - 1) : i + 1 \in 1..n /\ queue'[i] = queue[i + 1]
  BY <1>0, <1>1, RestSeq DEF Rest
<1>3. priority' = priority
  BY DEF Pop
<1> HIDE DEF n
<1>4. QueueSorted'
  <2> SUFFICES ASSUME NEW a \in 1..(n - 1), NEW b \in 1..(n - 1), a < b
               PROVE  priority[queue'[a]] <= priority[queue'[b]]
    BY <1>2, <1>3 DEF QueueSorted
  <2>1. a + 1 \in 1..n /\ b + 1 \in 1..n /\ a + 1 < b + 1
    BY ONLY <1>1, a \in 1..(n - 1), b \in 1..(n - 1), a < b
  <2>2. priority[queue[a + 1]] <= priority[queue[b + 1]]
    BY <1>1, <2>1 DEF QueueSorted
  <2>. QED
    BY <1>2, <2>2
<1>5. Distinct'
  <2> SUFFICES ASSUME NEW a \in 1..(n - 1), NEW b \in 1..(n - 1), queue'[a] = queue'[b]
               PROVE  a = b
    BY <1>2 DEF Distinct
  <2>1. a + 1 \in 1..n /\ b + 1 \in 1..n /\ queue[a + 1] = queue[b + 1]
    BY <1>2
  <2>2. a + 1 = b + 1
    BY <1>1, <2>1 DEF Distinct
  <2>. QED
    BY <1>1, <2>2
<1>6. ASSUME NEW x PROVE Queued(x)' <=> Queued(x) /\ x # queue[1]
  <2>1. Queued(x) <=> \E i \in 1..n : queue[i] = x
    BY ONLY <1>1 DEF Queued
  <2>2. Queued(x)' <=> \E i \in 1..(n - 1) : queue'[i] = x
    BY ONLY <1>2 DEF Queued
  <2>3. ASSUME NEW i \in 1..n, i # 1 PROVE i - 1 \in 1..(n - 1) /\ queue'[i - 1] = queue[i]
    <3>1. i - 1 \in 1..(n - 1) /\ (i - 1) + 1 = i
      BY ONLY <1>1, <2>3, i \in 1..n
    <3>. QED
      BY ONLY <1>2, <3>1
  <2>4. ASSUME NEW i \in 1..(n - 1)
        PROVE  i + 1 \in 1..n /\ queue'[i] = queue[i + 1] /\ queue[i + 1] # queue[1]
    <3>1. i + 1 \in 1..n /\ 1 \in 1..n /\ i + 1 # 1
      BY ONLY <1>1, i \in 1..(n - 1)
    <3>. QED
      BY <1>1, <1>2, <3>1 DEF Distinct
  <2>. QED
    BY ONLY <1>1, <2>1, <2>2, <2>3, <2>4
<1>7. 1 \in 1..n
  BY ONLY <1>1
<1>. QED
  BY <1>1, <1>4, <1>5, <1>6, <1>7 DEF Queued

(***************************************************************************)
(* The list stays sorted                                                   *)
(***************************************************************************)
LEMMA InitListInv == Init => ListInv
BY EmptySeq, QueueAssumption
   DEF Init, QueueInit, ListInv, QueueSorted, Distinct, ListedJobs, ProcessedJobs, Queued

LEMMA SubmitListInv ==
    ASSUME TypeOK, ListInv, NEW j \in Jobs, Submit(j) PROVE ListInv'
<1>1. ~Queued(j) /\ priority[j] \in 1..Lowest
  BY DEF ListInv, ListedJobs, Submit, TypeOK
<1>2. /\ Push(j, priority[j])
      /\ processing' = processing /\ priority' = priority
      /\ submitted' = submitted \cup {j}
  BY DEF Submit
<1>3. QueueSorted' /\ Distinct' /\ \A x : Queued(x)' <=> Queued(x) \/ x = j
  BY <1>1, <1>2, PushList DEF ListInv, TypeOK
<1>. QED
  BY <1>2, <1>3 DEF ListInv, ListedJobs, ProcessedJobs, Submit

LEMMA TakeListInv ==
    ASSUME TypeOK, ListInv, Pop, submitted' = submitted PROVE ListInv'
<1>1. /\ QueueSorted' /\ Distinct'
      /\ queue[1] \in Jobs /\ Queued(queue[1])
      /\ \A x : Queued(x)' <=> Queued(x) /\ x # queue[1]
  BY PopList DEF ListInv
<1>2. ListedJobs'
  BY <1>1 DEF ListInv, ListedJobs
<1>3. ProcessedJobs'
  BY <1>1 DEF ListInv, ListedJobs, ProcessedJobs, Pop, TypeOK
<1>. QED
  BY <1>1, <1>2, <1>3 DEF ListInv

LEMMA CompleteListInv ==
    ASSUME TypeOK, ListInv, NEW r \in RequestIds, Complete(r), submitted' = submitted
    PROVE  ListInv'
BY DEF Complete, TypeOK, ListInv, QueueSorted, Distinct, ListedJobs, ProcessedJobs, Queued

\* What fail does to the list.
LEMMA FailList ==
    ASSUME TypeOK, ListInv, NEW r \in RequestIds, Fail(r)
    PROVE  /\ QueueSorted' /\ Distinct'
           /\ \A x \in Jobs : Queued(x)' <=> Queued(x) \/ x = processing[r]
<1>1. CASE processing[r] = None
  BY <1>1, QueueAssumption DEF Fail, TypeOK, ListInv, QueueSorted, Distinct, Queued
<1>2. CASE processing[r] # None
  <2> DEFINE j == processing[r]
             p == IF priority[j] < Lowest THEN priority[j] + 1 ELSE Lowest
  <2>1. j \in Jobs /\ p \in 1..Lowest /\ ~Queued(j)
    BY <1>2, QueueAssumption DEF TypeOK, ListInv, ProcessedJobs
  <2>2. priority' = [priority EXCEPT ![j] = p] /\ Push(j, p)
    BY <1>2 DEF Fail
  <2>3. priority' \in [Jobs -> 1..Lowest] /\ priority'[j] = p
    BY <2>1, <2>2 DEF TypeOK
  <2>4. \A x \in Jobs : x # j => priority'[x] = priority[x]
    BY <2>1, <2>2 DEF TypeOK
  <2>5. QueueSorted /\ Distinct
    BY DEF ListInv
  <2> HIDE DEF j, p
  <2>6. QueueSorted' /\ Distinct' /\ \A x : Queued(x)' <=> Queued(x) \/ x = j
    BY <2>1, <2>2, <2>3, <2>4, <2>5, PushList
  <2>. QED
    BY <2>6 DEF j
<1>. QED
  BY <1>1, <1>2

LEMMA FailListInv ==
    ASSUME TypeOK, ListInv, NEW r \in RequestIds, Fail(r), submitted' = submitted
    PROVE  ListInv'
<1>1. /\ QueueSorted' /\ Distinct'
      /\ \A x \in Jobs : Queued(x)' <=> Queued(x) \/ x = processing[r]
  BY FailList
<1>2. processing' = [processing EXCEPT ![r] = None]
  BY DEF Fail
<1>3. ListedJobs'
  BY <1>1, QueueAssumption DEF ListInv, ListedJobs, ProcessedJobs, TypeOK
<1>4. ProcessedJobs'
  <2> SUFFICES ASSUME NEW s \in RequestIds, processing'[s] # None
               PROVE  /\ processing'[s] \in submitted
                      /\ RequestId[processing'[s]] = s
                      /\ ~\E i \in DOMAIN queue' : queue'[i] = processing'[s]
    BY DEF ProcessedJobs, Queued
  <2>1. s # r /\ processing'[s] = processing[s]
    BY <1>2 DEF TypeOK
  <2>2. /\ processing[s] \in Jobs
        /\ processing[s] \in submitted /\ RequestId[processing[s]] = s
        /\ ~Queued(processing[s])
    BY <2>1 DEF TypeOK, ListInv, ProcessedJobs
  <2>3. processing[s] # processing[r]
    BY <2>1, <2>2 DEF ListInv, ProcessedJobs, TypeOK
  <2>. QED
    BY <1>1, <2>1, <2>2, <2>3 DEF Queued
<1>. QED
  BY <1>1, <1>3, <1>4 DEF ListInv

LEMMA SameListInv ==
    ASSUME ListInv, UNCHANGED <<queueVars, submitted>> PROVE ListInv'
BY DEF queueVars, ListInv, QueueSorted, Distinct, ListedJobs, ProcessedJobs, Queued

LEMMA NextListInv == TypeOK /\ ListInv /\ [Next]_vars => ListInv'
<1> SUFFICES ASSUME TypeOK, ListInv, [Next]_vars PROVE ListInv'
  OBVIOUS
<1>1. CASE UNCHANGED vars
  BY <1>1, SameListInv DEF vars
<1>2. ASSUME NEW j \in Jobs, Submit(j) PROVE ListInv'
  BY <1>2, SubmitListInv
<1>3. ASSUME NEW w \in Workers, Leave(w) \/ Sleep(w) \/ Wake(w) \/ Compiled(w) \/ Stop(w)
      PROVE  ListInv'
  BY <1>3, SameListInv DEF Leave, Sleep, Wake, Compiled, Stop
<1>4. ASSUME NEW w \in Workers, Take(w) PROVE ListInv'
  BY <1>4, TakeListInv DEF Take
<1>5. ASSUME NEW w \in Workers, Succeed(w) PROVE ListInv'
  <2>1. RequestId[req[w]] \in RequestIds
    BY <1>5 DEF Succeed, TypeOK, RequestIds
  <2>. QED
    BY <1>5, <2>1, CompleteListInv DEF Succeed, Loop
<1>6. ASSUME NEW w \in Workers, FailBuild(w) PROVE ListInv'
  <2>1. RequestId[req[w]] \in RequestIds
    BY <1>6 DEF FailBuild, TypeOK, RequestIds
  <2>. QED
    BY <1>6, <2>1, FailListInv DEF FailBuild, Loop
<1>. QED
  BY <1>1, <1>2, <1>3, <1>4, <1>5, <1>6 DEF Next, WorkerStep

\* In every behaviour of the farm, whatever the request ids, the list that push
\* sorts is sorted by the priorities its jobs have now.
THEOREM QueueStaysSorted == Spec => []QueueSorted
<1>1. TypeOK /\ ListInv /\ [Next]_vars => TypeOK' /\ ListInv'
  BY NextTypeOK, NextListInv
<1>2. Init => TypeOK /\ ListInv
  BY InitTypeOK, InitListInv
<1>3. ListInv => QueueSorted
  BY DEF ListInv
<1>. QED
  BY <1>1, <1>2, <1>3, PTL DEF Spec

(***************************************************************************)
(* No job is lost, when no two requests have one request id.  The client   *)
(* chooses the id (shared/models.py), and the table of jobs in process is  *)
(* keyed by it.                                                            *)
(***************************************************************************)
DistinctIds == \A i, j \in Jobs : RequestId[i] = RequestId[j] => i = j

LEMMA InitFarmInv == Init => FarmInv
BY InitListInv, EmptySeq, QueueAssumption
   DEF Init, QueueInit, FarmInv, QueuedJobs, BuildingJobs, SubmittedJobs, Queued, Building

LEMMA SubmitFarmInv ==
    ASSUME TypeOK, FarmInv, NEW j \in Jobs, Submit(j), ListInv' PROVE FarmInv'
<1>1. /\ ~Queued(j) /\ priority[j] \in 1..Lowest /\ QueueSorted /\ Distinct
      /\ ~Building(j) /\ signed[j] = None
  BY QueueAssumption
     DEF FarmInv, ListInv, ListedJobs, BuildingJobs, SubmittedJobs, Building, Submit, TypeOK
<1>2. /\ Push(j, priority[j])
      /\ processing' = processing /\ priority' = priority
      /\ submitted' = submitted \cup {j}
      /\ req' = req /\ signed' = signed
  BY DEF Submit, workerVars
<1>3. \A x : Queued(x)' <=> Queued(x) \/ x = j
  BY <1>1, <1>2, PushList DEF TypeOK
<1>4. \A x : Building(x)' <=> Building(x)
  BY <1>2 DEF Building
<1>. QED
  BY <1>1, <1>2, <1>3, <1>4 DEF FarmInv, QueuedJobs, BuildingJobs, SubmittedJobs

LEMMA TakeFarmInv ==
    ASSUME DistinctIds, TypeOK, FarmInv, NEW w \in Workers, Take(w), ListInv'
    PROVE  FarmInv'
<1> DEFINE j == queue[1]
<1>1. /\ j \in Jobs /\ Queued(j)
      /\ \A x : Queued(x)' <=> Queued(x) /\ x # j
  BY PopList DEF Take, FarmInv, ListInv
<1>2. /\ req' = [req EXCEPT ![w] = j]
      /\ processing' = [processing EXCEPT ![RequestId[j]] = j]
      /\ submitted' = submitted /\ signed' = signed
      /\ req[w] = None
  BY DEF Take, Pop, TypeOK
<1>3. ~Building(j) /\ signed[j] = None /\ j \in submitted
  BY <1>1 DEF FarmInv, QueuedJobs, ListInv, ListedJobs
<1> HIDE DEF j
<1>4. \A x \in Jobs : Building(x)' <=> Building(x) \/ x = j
  BY <1>1, <1>2, QueueAssumption DEF Building, TypeOK
<1>5. QueuedJobs'
  BY <1>1, <1>2, <1>4 DEF FarmInv, QueuedJobs
<1>6. BuildingJobs'
  <2> SUFFICES ASSUME NEW v \in Workers, req'[v] # None
               PROVE  /\ req'[v] \in submitted
                      /\ signed[req'[v]] = None
                      /\ processing'[RequestId[req'[v]]] = req'[v]
                      /\ \A u \in Workers : req'[u] = req'[v] => u = v
    BY <1>2 DEF BuildingJobs
  <2>1. CASE v = w
    <3>1. req'[v] = j
      BY <1>2, <2>1 DEF TypeOK
    <3>2. processing'[RequestId[j]] = j
      BY <1>1, <1>2, QueueAssumption DEF TypeOK, RequestIds
    <3>3. \A u \in Workers : req'[u] = j => u = w
      BY <1>2, <1>3 DEF Building, TypeOK
    <3>. QED
      BY <1>3, <2>1, <3>1, <3>2, <3>3
  <2>2. CASE v # w
    <3>1. req'[v] = req[v] /\ req[v] \in Jobs /\ req[v] # j
      BY <1>2, <1>3, <2>2 DEF Building, TypeOK
    <3>2. RequestId[req[v]] # RequestId[j]
      BY <1>1, <3>1 DEF DistinctIds
    <3>3. processing'[RequestId[req[v]]] = processing[RequestId[req[v]]]
      BY <1>1, <1>2, <3>1, <3>2 DEF TypeOK, RequestIds
    <3>4. \A u \in Workers : req'[u] = req[v] => u # w /\ req[u] = req[v]
      BY <1>2, <3>1 DEF TypeOK
    <3>. QED
      BY <3>1, <3>3, <3>4 DEF FarmInv, BuildingJobs
  <2>. QED
    BY <2>1, <2>2
<1>7. SubmittedJobs'
  BY <1>1, <1>2, <1>3, <1>4 DEF FarmInv, SubmittedJobs, TypeOK
<1>. QED
  BY <1>5, <1>6, <1>7 DEF FarmInv

\* The end of a build: the worker lets go of its job, which is signed or listed.
LEMMA EndFarmInv ==
    ASSUME DistinctIds, TypeOK, FarmInv, ListInv', NEW w \in Workers, NEW j \in Jobs,
           req[w] = j, Loop(w),
           processing' = [processing EXCEPT ![RequestId[j]] = None],
           \A x \in Jobs : x # j => (Queued(x)' <=> Queued(x)) /\ signed'[x] = signed[x],
           signed'[j] = None \/ ~Queued(j)',
           signed'[j] # None \/ Queued(j)'
    PROVE  FarmInv'
<1>1. req' = [req EXCEPT ![w] = None] /\ submitted' = submitted
  BY DEF Loop
<1>2. j \in submitted /\ j # None /\ \A v \in Workers : req[v] = j => v = w
  BY QueueAssumption DEF FarmInv, BuildingJobs
<1>3. \A x \in Jobs : Building(x)' <=> Building(x) /\ x # j
  BY <1>1, <1>2, QueueAssumption DEF Building, TypeOK
<1>4. QueuedJobs'
  BY <1>3 DEF FarmInv, QueuedJobs
<1>5. BuildingJobs'
  <2> SUFFICES ASSUME NEW v \in Workers, req'[v] # None
               PROVE  /\ req'[v] \in submitted
                      /\ signed'[req'[v]] = None
                      /\ processing'[RequestId[req'[v]]] = req'[v]
                      /\ \A u \in Workers : req'[u] = req'[v] => u = v
    BY <1>1 DEF BuildingJobs
  <2>1. v # w /\ req'[v] = req[v] /\ req[v] \in Jobs /\ req[v] # j
    BY <1>1, <1>2 DEF TypeOK
  <2>2. RequestId[req[v]] # RequestId[j]
    BY <2>1 DEF DistinctIds
  <2>3. processing'[RequestId[req[v]]] = processing[RequestId[req[v]]]
    BY <2>1, <2>2 DEF TypeOK, RequestIds
  <2>4. \A u \in Workers : req'[u] = req[v] => u # w /\ req[u] = req[v]
    BY <1>1, <2>1, QueueAssumption DEF TypeOK
  <2>. QED
    BY <2>1, <2>3, <2>4 DEF FarmInv, BuildingJobs
<1>6. SubmittedJobs'
  <2>1. \A x \in Jobs : signed'[x] # None => x \in submitted
    BY <1>2 DEF FarmInv, SubmittedJobs
  <2>2. \A x \in submitted : Queued(x)' \/ Building(x)' \/ signed'[x] # None
    BY <1>3 DEF FarmInv, SubmittedJobs, TypeOK
  <2>. QED
    BY <1>1, <2>1, <2>2 DEF SubmittedJobs
<1>. QED
  BY <1>4, <1>5, <1>6 DEF FarmInv

LEMMA SameFarmInv ==
    ASSUME FarmInv, UNCHANGED <<queueVars, submitted, req, signed>> PROVE FarmInv'
BY SameListInv
   DEF queueVars, FarmInv, QueuedJobs, BuildingJobs, SubmittedJobs, Queued, Building

LEMMA NextFarmInv == DistinctIds /\ TypeOK /\ FarmInv /\ [Next]_vars => FarmInv'
<1> SUFFICES ASSUME DistinctIds, TypeOK, FarmInv, [Next]_vars PROVE FarmInv'
  OBVIOUS
<1>0. ListInv'
  BY NextListInv DEF FarmInv
<1>1. CASE UNCHANGED vars
  BY <1>1, SameFarmInv DEF vars, workerVars
<1>2. ASSUME NEW j \in Jobs, Submit(j) PROVE FarmInv'
  BY <1>0, <1>2, SubmitFarmInv
<1>3. ASSUME NEW w \in Workers, Leave(w) \/ Sleep(w) \/ Wake(w) \/ Compiled(w) \/ Stop(w)
      PROVE  FarmInv'
  BY <1>3, SameFarmInv DEF Leave, Sleep, Wake, Compiled, Stop
<1>4. ASSUME NEW w \in Workers, Take(w) PROVE FarmInv'
  BY <1>0, <1>4, TakeFarmInv
<1>5. ASSUME NEW w \in Workers, Succeed(w) PROVE FarmInv'
  <2> DEFINE j == req[w]
  <2>1. j \in Jobs
    BY <1>5 DEF Succeed, TypeOK
  <2>2. PICK k \in Found(j) : signed' = [signed EXCEPT ![j] = k]
    BY <1>5 DEF Succeed
  <2>3. k # None
    BY <2>2, QueueAssumption DEF Found, TypeOK
  <2>4. /\ Loop(w) /\ queue' = queue
        /\ processing' = [processing EXCEPT ![RequestId[j]] = None]
    BY <1>5 DEF Succeed, Complete
  <2>5. \A x : Queued(x)' <=> Queued(x)
    BY <2>4 DEF Queued
  <2>6. ~Queued(j)
    BY <2>1 DEF FarmInv, QueuedJobs, Building
  <2>7. signed'[j] = k /\ \A x \in Jobs : x # j => signed'[x] = signed[x]
    BY <2>1, <2>2 DEF TypeOK
  <2> HIDE DEF j
  <2>8. req[w] = j
    BY DEF j
  <2>. QED
    BY <1>0, <2>1, <2>3, <2>4, <2>5, <2>6, <2>7, <2>8, EndFarmInv
<1>6. ASSUME NEW w \in Workers, FailBuild(w) PROVE FarmInv'
  <2> DEFINE j == req[w]
  <2>1. j \in Jobs /\ RequestId[j] \in RequestIds
    BY <1>6 DEF FailBuild, TypeOK, RequestIds
  <2>2. processing[RequestId[j]] = j /\ signed[j] = None
    BY <2>1, QueueAssumption DEF FarmInv, BuildingJobs
  <2>3. /\ Fail(RequestId[j]) /\ Loop(w) /\ signed' = signed
        /\ processing' = [processing EXCEPT ![RequestId[j]] = None]
    BY <1>6 DEF FailBuild, Fail
  <2> HIDE DEF j
  <2>4. \A x \in Jobs : Queued(x)' <=> Queued(x) \/ x = j
    BY <2>1, <2>2, <2>3, FailList DEF FarmInv
  <2>5. req[w] = j
    BY DEF j
  <2>. QED
    BY <1>0, <2>1, <2>2, <2>3, <2>4, <2>5, EndFarmInv
<1>. QED
  BY <1>1, <1>2, <1>3, <1>4, <1>5, <1>6 DEF Next, WorkerStep

LEMMA FarmInvImplies == TypeOK /\ FarmInv => NoJobLost
<1> SUFFICES ASSUME TypeOK, FarmInv, NEW j \in submitted
             PROVE  \/ Queued(j) /\ ~Building(j) /\ signed[j] = None
                    \/ /\ ~Queued(j) /\ signed[j] = None
                       /\ \E w \in Workers : req[w] = j /\ \A v \in Workers : req[v] = j => v = w
                       /\ processing[RequestId[j]] = j
                    \/ ~Queued(j) /\ ~Building(j) /\ signed[j] # None
  BY DEF NoJobLost, FarmInv, ListInv
<1>1. j \in Jobs /\ j # None
  BY QueueAssumption DEF TypeOK
<1>2. CASE Queued(j)
  BY <1>1, <1>2 DEF FarmInv, QueuedJobs
<1>3. CASE ~Queued(j) /\ Building(j)
  BY <1>1, <1>3 DEF FarmInv, BuildingJobs, Building
<1>4. CASE ~Queued(j) /\ ~Building(j)
  BY <1>4 DEF FarmInv, SubmittedJobs
<1>. QED
  BY <1>2, <1>3, <1>4

\* With distinct request ids the farm keeps every submitted job, once: in the
\* queue, with one worker, or completed.
THEOREM JobsAreKept == DistinctIds => (Spec => []NoJobLost)
<1> SUFFICES ASSUME DistinctIds PROVE Spec => []NoJobLost
  OBVIOUS
<1>1. Init => TypeOK /\ FarmInv
  BY InitTypeOK, InitFarmInv
<1>2. TypeOK /\ FarmInv /\ [Next]_vars => TypeOK' /\ FarmInv'
  BY NextTypeOK, NextFarmInv
<1>3. TypeOK /\ FarmInv => NoJobLost
  BY FarmInvImplies
<1>. QED
  BY <1>1, <1>2, <1>3, PTL DEF Spec

(***************************************************************************)
(* The farm implements the life cycle of a job                             *)
(***************************************************************************)
\* What the refinement mapping gives a job, by where it is.
Mapped(j) ==
    /\ Queued(j) => Status(j) = "waiting" /\ Builder(j) = None
    /\ Building(j) => /\ Status(j) = "building"
                      /\ Builder(j) \in Workers /\ req[Builder(j)] = j
                      /\ \A v \in Workers : req[v] = j => v = Builder(j)
    /\ ~Queued(j) /\ ~Building(j) =>
         /\ Builder(j) = None
         /\ Status(j) = IF signed[j] # None THEN "done" ELSE "new"

\* The status that a job has in the life cycle says where the farm keeps it.
LEMMA JobsMapped == TypeOK /\ FarmInv => \A j \in Jobs : Mapped(j)
<1> SUFFICES ASSUME TypeOK, FarmInv, NEW j \in Jobs PROVE Mapped(j)
  OBVIOUS
<1>1. CASE Queued(j)
  <2>1. ~Building(j)
    BY <1>1 DEF FarmInv, QueuedJobs
  <2>. QED
    BY <1>1, <2>1 DEF Mapped, Status, Builder
<1>2. CASE Building(j)
  <2>1. ~Queued(j)
    BY <1>2 DEF FarmInv, QueuedJobs
  <2>2. Status(j) = "building"
    BY <1>2, <2>1 DEF Status
  <2>3. Builder(j) = CHOOSE w \in Workers : req[w] = j
    BY <1>2 DEF Builder
  <2>4. Builder(j) \in Workers /\ req[Builder(j)] = j
    BY <1>2, <2>3 DEF Building
  <2>5. j # None
    BY QueueAssumption
  <2>6. \A v \in Workers : req[v] = j => v = Builder(j)
    BY <2>4, <2>5 DEF FarmInv, BuildingJobs
  <2>. QED
    BY <1>2, <2>1, <2>2, <2>4, <2>6 DEF Mapped
<1>3. CASE ~Queued(j) /\ ~Building(j)
  BY <1>3 DEF Mapped, Status, Builder
<1>. QED
  BY <1>1, <1>2, <1>3

LEMMA JobsMappedNext == (TypeOK /\ FarmInv)' => \A j \in Jobs : Mapped(j)'
<1>1. (TypeOK /\ FarmInv => \A j \in Jobs : Mapped(j))'
  BY JobsMapped, PTL
<1>. QED
  BY <1>1

\* A job whose place does not change keeps its status and its builder.
LEMMA SameMapped ==
    ASSUME NEW x \in Jobs, Mapped(x), Mapped(x)',
           Queued(x)' <=> Queued(x), signed'[x] = signed[x],
           \A w \in Workers : req'[w] = x <=> req[w] = x
    PROVE  Status(x)' = Status(x) /\ Builder(x)' = Builder(x)
<1>1. Building(x)' <=> Building(x)
  BY DEF Building
<1>2. CASE Building(x)
  <2>1. Status(x) = "building" /\ Builder(x) \in Workers /\ req[Builder(x)] = x
    BY <1>2 DEF Mapped
  <2>2. Status(x)' = "building" /\ \A v \in Workers : req'[v] = x => v = Builder(x)'
    BY <1>1, <1>2 DEF Mapped
  <2>3. req'[Builder(x)] = x
    BY <2>1
  <2>. QED
    BY <2>1, <2>2, <2>3
<1>3. CASE ~Building(x)
  BY <1>1, <1>3 DEF Mapped
<1>. QED
  BY <1>2, <1>3

LEMMA InitMapped == Init => Lifecycle!Init
<1> SUFFICES ASSUME Init PROVE Lifecycle!Init
  OBVIOUS
<1>1. ASSUME NEW j \in Jobs PROVE ~Queued(j) /\ ~Building(j) /\ signed[j] = None
  BY EmptySeq, QueueAssumption DEF Init, QueueInit, Queued, Building
<1>2. ASSUME NEW j \in Jobs PROVE Status(j) = "new" /\ Builder(j) = None
  BY <1>1 DEF Status, Builder
<1>. QED
  BY <1>2 DEF Lifecycle!Init

\* A step of the farm is a step of JobLifecycle or leaves every status as it is.
LEMMA NextMapped ==
    ASSUME DistinctIds, TypeOK, FarmInv, TypeOK', FarmInv', [Next]_vars
    PROVE  [Lifecycle!Next]_(Lifecycle!vars)
<1> DEFINE status == [x \in Jobs |-> Status(x)]
           builder == [x \in Jobs |-> Builder(x)]
<1>0. \A x \in Jobs : Mapped(x) /\ Mapped(x)'
  BY JobsMapped, JobsMappedNext
<1>1. ASSUME queue' = queue, req' = req, signed' = signed
      PROVE  UNCHANGED Lifecycle!vars
  <2>1. ASSUME NEW x \in Jobs PROVE Status(x)' = Status(x) /\ Builder(x)' = Builder(x)
    BY <1>0, <1>1, SameMapped DEF Queued
  <2>. QED
    BY <2>1 DEF Lifecycle!vars
<1>2. CASE UNCHANGED vars
  BY <1>1, <1>2 DEF vars, queueVars, workerVars
<1>3. ASSUME NEW w \in Workers, Leave(w) \/ Sleep(w) \/ Wake(w) \/ Compiled(w) \/ Stop(w)
      PROVE  UNCHANGED Lifecycle!vars
  BY <1>1, <1>3 DEF Leave, Sleep, Wake, Compiled, Stop, queueVars
<1>4. ASSUME NEW j \in Jobs, Submit(j) PROVE Lifecycle!Submit(j)
  <2>1. ~Queued(j) /\ ~Building(j) /\ signed[j] = None
    BY <1>4, QueueAssumption
       DEF Submit, FarmInv, ListInv, ListedJobs, BuildingJobs, SubmittedJobs, Building
  <2>2. \A x \in Jobs : Queued(x)' <=> Queued(x) \/ x = j
    <3>1. Push(j, priority[j]) /\ priority' = priority
      BY <1>4 DEF Submit
    <3>. QED
      BY <2>1, <3>1, PushList DEF FarmInv, ListInv, TypeOK
  <2>3. req' = req /\ signed' = signed
    BY <1>4 DEF Submit, workerVars
  <2>4. Status(j) = "new" /\ Builder(j) = None /\ Status(j)' = "waiting" /\ Builder(j)' = None
    BY <1>0, <2>1, <2>2 DEF Mapped
  <2>5. ASSUME NEW x \in Jobs, x # j PROVE Status(x)' = Status(x) /\ Builder(x)' = Builder(x)
    BY <1>0, <2>2, <2>3, <2>5, SameMapped
  <2>. QED
    BY <2>4, <2>5 DEF Lifecycle!Submit
<1>5. ASSUME NEW w \in Workers, Take(w) PROVE \E j \in Jobs : Lifecycle!Take(w, j)
  <2>0. queue[1] \in Jobs /\ Queued(queue[1])
    BY <1>5, PopList DEF Take, FarmInv, ListInv
  <2>j. PICK j \in Jobs : j = queue[1]
    BY <2>0
  <2>1. /\ j \in Jobs /\ Queued(j)
        /\ \A x : Queued(x)' <=> Queued(x) /\ x # j
    BY <1>5, <2>0, <2>j, PopList DEF Take, FarmInv, ListInv
  <2>2. req' = [req EXCEPT ![w] = j] /\ signed' = signed /\ req[w] = None
    BY <1>5, <2>j DEF Take, TypeOK
  <2>3. req'[w] = j /\ \A v \in Workers : v # w => req'[v] = req[v]
    BY <2>2 DEF TypeOK
  <2>4. Building(j)'
    BY <2>3 DEF Building
  <2>5. Status(j) = "waiting" /\ Builder(j) = None
    BY <1>0, <2>1 DEF Mapped
  <2>6. Status(j)' = "building" /\ Builder(j)' = w
    <3>1. Status(j)' = "building" /\ \A v \in Workers : req'[v] = j => v = Builder(j)'
      BY <1>0, <2>1, <2>4 DEF Mapped
    <3>. QED
      BY <2>3, <3>1
  <2>7. ASSUME NEW x \in Jobs, x # j PROVE Status(x)' = Status(x) /\ Builder(x)' = Builder(x)
    <3>1. x # None
      BY QueueAssumption
    <3>2. \A v \in Workers : req'[v] = x <=> req[v] = x
      BY <2>2, <2>3, <2>7, <3>1
    <3>. QED
      BY <1>0, <2>1, <2>2, <2>7, <3>2, SameMapped
  <2>8. ASSUME NEW k \in Jobs PROVE Builder(k) # w
    <3>1. CASE Building(k)
      BY <1>0, <2>2, <3>1, QueueAssumption DEF Mapped
    <3>2. CASE ~Building(k)
      BY <3>2, WorkerAssumption DEF Builder
    <3>. QED
      BY <3>1, <3>2
  <2>9. Lifecycle!Take(w, j)
    BY <2>1, <2>5, <2>6, <2>7, <2>8 DEF Lifecycle!Take
  <2>. QED
    BY <2>1, <2>9
<1>6. ASSUME NEW w \in Workers, NEW j \in Jobs, req[w] = j, Loop(w),
             \A x \in Jobs : x # j => (Queued(x)' <=> Queued(x)) /\ signed'[x] = signed[x],
             NEW outcome \in {"waiting", "done"},
             outcome = "waiting" => Queued(j)',
             outcome = "done" => ~Queued(j)' /\ signed'[j] # None
      PROVE  Lifecycle!Finish(j, outcome)
  <2>1. req' = [req EXCEPT ![w] = None] /\ j # None
    BY <1>6, QueueAssumption DEF Loop
  <2>2. req'[w] = None /\ \A v \in Workers : v # w => req'[v] = req[v]
    BY <2>1 DEF TypeOK
  <2>3. Building(j) /\ \A v \in Workers : req[v] = j => v = w
    BY <1>6, <2>1 DEF Building, FarmInv, BuildingJobs
  <2>4. ~Building(j)'
    BY <2>1, <2>2, <2>3 DEF Building
  <2>5. Status(j) = "building" /\ Status(j)' = outcome /\ Builder(j)' = None
    BY <1>0, <1>6, <2>3, <2>4 DEF Mapped
  <2>6. ASSUME NEW x \in Jobs, x # j PROVE Status(x)' = Status(x) /\ Builder(x)' = Builder(x)
    <3>1. x # None
      BY QueueAssumption
    <3>2. \A v \in Workers : req'[v] = x <=> req[v] = x
      BY <1>6, <2>2, <2>6, <3>1
    <3>. QED
      BY <1>0, <1>6, <2>6, <3>2, SameMapped
  <2>. QED
    BY <2>5, <2>6 DEF Lifecycle!Finish
<1>7. ASSUME NEW w \in Workers, Succeed(w) PROVE \E j \in Jobs : Lifecycle!Finish(j, "done")
  <2> DEFINE j == req[w]
  <2>1. j \in Jobs
    BY <1>7 DEF Succeed, TypeOK
  <2>2. PICK k \in Found(j) : signed' = [signed EXCEPT ![j] = k]
    BY <1>7 DEF Succeed
  <2>3. k # None /\ signed'[j] = k /\ \A x \in Jobs : x # j => signed'[x] = signed[x]
    BY <2>1, <2>2, QueueAssumption DEF Found, TypeOK
  <2>4. Loop(w) /\ \A x : Queued(x)' <=> Queued(x)
    BY <1>7 DEF Succeed, Complete, Queued
  <2>5. ~Queued(j)
    BY <2>1 DEF FarmInv, QueuedJobs, Building
  <2> HIDE DEF j
  <2>6. req[w] = j
    BY DEF j
  <2>7. Lifecycle!Finish(j, "done")
    BY <1>6, <2>1, <2>3, <2>4, <2>5, <2>6
  <2>. QED
    BY <2>1, <2>7
<1>8. ASSUME NEW w \in Workers, FailBuild(w) PROVE \E j \in Jobs : Lifecycle!Finish(j, "waiting")
  <2> DEFINE j == req[w]
  <2>1. j \in Jobs /\ RequestId[j] \in RequestIds
    BY <1>8 DEF FailBuild, TypeOK, RequestIds
  <2>2. processing[RequestId[j]] = j
    BY <2>1, QueueAssumption DEF FarmInv, BuildingJobs
  <2>3. Fail(RequestId[j]) /\ Loop(w) /\ signed' = signed
    BY <1>8 DEF FailBuild
  <2> HIDE DEF j
  <2>4. \A x \in Jobs : Queued(x)' <=> Queued(x) \/ x = j
    BY <2>1, <2>2, <2>3, FailList DEF FarmInv
  <2>5. req[w] = j
    BY DEF j
  <2>6. Lifecycle!Finish(j, "waiting")
    BY <1>6, <2>1, <2>3, <2>4, <2>5
  <2>. QED
    BY <2>1, <2>6
<1>. QED
  BY <1>2, <1>3, <1>4, <1>5, <1>7, <1>8 DEF Next, WorkerStep, Lifecycle!Next

\* With distinct request ids every behaviour of the farm is, seen through the status
\* of the jobs, one of the life cycle: a job is built by one worker at a time, a
\* worker builds one job at a time, and a job that is done stays done.
THEOREM FarmImplementsLifecycle == DistinctIds => (Spec => ImplementsLifecycle)
<1> SUFFICES ASSUME DistinctIds PROVE Spec => ImplementsLifecycle
  OBVIOUS
<1>1. Init => TypeOK /\ FarmInv
  BY InitTypeOK, InitFarmInv
<1>2. TypeOK /\ FarmInv /\ [Next]_vars => TypeOK' /\ FarmInv'
  BY NextTypeOK, NextFarmInv
<1>3. Init => Lifecycle!Init
  BY InitMapped
<1>4. TypeOK /\ FarmInv /\ [Next]_vars /\ (TypeOK /\ FarmInv)' => [Lifecycle!Next]_(Lifecycle!vars)
  BY NextMapped
<1>. QED
  BY <1>1, <1>2, <1>3, <1>4, PTL DEF Spec, ImplementsLifecycle, Lifecycle!Spec
=============================================================================
