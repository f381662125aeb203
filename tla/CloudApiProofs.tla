---------------------------- MODULE CloudApiProofs ----------------------------
(***************************************************************************)
(* Proofs about the cloud: the rate limiter, the queue of builds, the      *)
(* server's sessions and the values that travel, for any number of         *)
(* clients, builds and sessions, any limits and any depth of values.       *)
(***************************************************************************)
EXTENDS CloudApi, ServerSessions, Serialization, ListTheorems

-----------------------------------------------------------------------------
(* Types                                                                   *)

Ages   == 0..(Window - 1)
Stamps == [class : Classes, age : Ages]

\* What the list of the limiter returns when check counts it.
LEMMA RecentType ==
    ASSUME TypeOK, NEW c \in Clients
    PROVE  /\ Recent(c) \in Seq(Ages)
           /\ \A P \in SUBSET Ages : Count(Recent(c), P) = Count(window[c], P)
<1> DEFINE K == {i \in DOMAIN window[c] : window[c][i] < Window}
<1>1. /\ window[c] \in Seq(0..Window) /\ Len(window[c]) \in Nat
      /\ DOMAIN window[c] = 1..Len(window[c]) /\ Window \in Nat
    BY ApiAssumption DEF TypeOK
<1>2. Recent(c) = SubList(window[c], K)
    BY DEF Recent
<1>3. \A k \in K \cap (1..Len(window[c])) : window[c][k] \in Ages
    BY <1>1 DEF Ages
<1>4. ASSUME NEW P \in SUBSET Ages
      PROVE  Count(Recent(c), P) = Count(window[c], P)
    <2>1. \A i \in 1..Len(window[c]) : window[c][i] \in P => i \in K
        BY <1>1, <1>4 DEF Ages
    <2>2. {k \in K \cap (1..Len(window[c])) : window[c][k] \in P}
              = {k \in 1..Len(window[c]) : window[c][k] \in P}
        BY <2>1
    <2> HIDE DEF K
    <2>3. Count(Recent(c), P) = Cardinality({k \in K \cap (1..Len(window[c])) : window[c][k] \in P})
        BY <1>1, <1>2, SubListCount
    <2> QED BY <2>2, <2>3 DEF Count
<1> HIDE DEF K
<1>5. Recent(c) \in Seq(Ages)
    BY <1>1, <1>2, <1>3, SubListType
<1> QED BY <1>4, <1>5

\* The admitted requests a second later.
LEMMA AgedType ==
    ASSUME TypeOK, NEW c \in Clients
    PROVE  /\ DOMAIN Aged(c) = 1..Len(admitted[c]) /\ Len(Aged(c)) = Len(admitted[c])
           /\ Aged(c) \in Seq([class : Classes, age : 0..Window])
           /\ \A i \in 1..Len(admitted[c]) : /\ Aged(c)[i].age = admitted[c][i].age + 1
                                             /\ Aged(c)[i].class = admitted[c][i].class
<1>1. /\ admitted[c] \in Seq(Stamps) /\ Len(admitted[c]) \in Nat
      /\ DOMAIN admitted[c] = 1..Len(admitted[c]) /\ Window \in Nat
    <2>1. admitted[c] \in Seq(Stamps)
        BY DEF TypeOK, Stamps, Ages
    <2> HIDE DEF Stamps
    <2> QED BY <2>1, ApiAssumption
<1>2. \A i \in 1..Len(admitted[c]) :
          [admitted[c][i] EXCEPT !.age = @ + 1] \in [class : Classes, age : 0..Window]
    <2> TAKE i \in 1..Len(admitted[c])
    <2>1. admitted[c][i] \in Stamps
        BY <1>1
    <2>2. admitted[c][i].age + 1 \in 0..Window
        BY <1>1, <2>1 DEF Stamps, Ages
    <2> QED BY <2>1, <2>2 DEF Stamps
<1>3. \A i \in 1..Len(admitted[c]) : admitted[c][i] \in Stamps
    BY <1>1
<1> QED BY <1>1, <1>2, <1>3 DEF Aged, Stamps

LEMMA TypeStarts == Init => TypeOK
<1>1. <<>> \in Seq(0..Window) /\ <<>> \in Seq([class : Classes, age : 0..(Window - 1)])
      /\ <<>> \in Seq(Builds) /\ Len(<<>>) = 0
    OBVIOUS
<1> QED BY <1>1, ApiAssumption DEF Init, TypeOK

\* Time and check keep the types of what the limiter holds.
LimiterOK ==
    /\ window \in [Clients -> Seq(0..Window)]
    /\ admitted \in [Clients -> Seq(Stamps)]

\* Time makes the requests older; those that leave the window are dropped from the history.
LEMMA TickType == TypeOK /\ Tick => LimiterOK'
<1> SUFFICES ASSUME TypeOK, Tick, NEW c \in Clients
             PROVE  window'[c] \in Seq(0..Window) /\ admitted'[c] \in Seq(Stamps)
    BY DEF LimiterOK, Tick, Stamps, Ages
<1>1. window'[c] \in Seq(0..Window)
    <2> DEFINE older == [i \in DOMAIN window[c] |->
                            IF window[c][i] < Window THEN window[c][i] + 1 ELSE Window]
    <2>1. window'[c] = older
        BY DEF Tick
    <2>2. window[c] \in Seq(0..Window) /\ Window \in Nat
        BY ApiAssumption DEF TypeOK
    <2>3. older \in Seq(0..Window)
        <3>1. Len(window[c]) \in Nat /\ DOMAIN window[c] = 1..Len(window[c])
            BY <2>2
        <3>2. \A i \in 1..Len(window[c]) : window[c][i] \in 0..Window
            BY <2>2
        <3>3. \A i \in 1..Len(window[c]) :
                 (IF window[c][i] < Window THEN window[c][i] + 1 ELSE Window) \in 0..Window
            BY <2>2, <3>2
        <3> QED BY <3>1, <3>3
    <2> QED BY <2>1, <2>3
<1>2. admitted'[c] \in Seq(Stamps)
    <2> DEFINE K == {i \in DOMAIN Aged(c) : Aged(c)[i].age < Window}
               T == [class : Classes, age : 0..Window]
    <2>1. admitted'[c] = SubList(Aged(c), K)
        BY DEF Tick
    <2>2. Aged(c) \in Seq(T)
        BY AgedType
    <2>3. \A a \in T : a.age < Window => a \in Stamps
        BY ApiAssumption DEF Stamps, Ages
    <2> HIDE DEF T
    <2>4. \A k \in K \cap (1..Len(Aged(c))) : Aged(c)[k] \in Stamps
        BY <2>2, <2>3
    <2> HIDE DEF K
    <2> QED BY <2>1, <2>2, <2>4, SubListType
<1> QED BY <1>1, <1>2

\* check drops what is too old and appends at most one request.
LEMMA CheckType ==
    ASSUME TypeOK, NEW c \in Clients, NEW class \in Classes, NEW ok \in BOOLEAN, Check(c, class, ok)
    PROVE  LimiterOK'
<1>1. /\ window \in [Clients -> Seq(0..Window)] /\ admitted \in [Clients -> Seq(Stamps)]
      /\ Recent(c) \in Seq(0..Window) /\ 0 \in 0..Window
      /\ [class |-> class, age |-> 0] \in Stamps
    <2>1. Window \in Nat \ {0}
        BY ApiAssumption
    <2>2. Ages \subseteq 0..Window /\ 0 \in Ages
        BY <2>1 DEF Ages
    <2>3. Recent(c) \in Seq(0..Window)
        BY <2>2, RecentType, SeqWider
    <2> QED BY <2>1, <2>2, <2>3 DEF TypeOK, Stamps, Ages
<1> HIDE DEF Stamps
<1>2. /\ Append(Recent(c), 0) \in Seq(0..Window)
      /\ Append(admitted[c], [class |-> class, age |-> 0]) \in Seq(Stamps)
    BY <1>1
<1> QED BY <1>1, <1>2 DEF Check, LimiterOK

\* list.remove of a cancelled build leaves every other one in the queue.
LEMMA QueueRemoves ==
    ASSUME NEW b \in Builds, queue \in Seq(Builds), b \in Range(queue)
    PROVE  /\ RemoveFirst(queue, b) \in Seq(Builds)
           /\ Len(RemoveFirst(queue, b)) <= Len(queue)
           /\ \A d \in Range(queue) : d # b => d \in Range(RemoveFirst(queue, b))
<1> DEFINE rest == RemoveFirst(queue, b)
<1>1. DOMAIN queue = 1..Len(queue) /\ Len(queue) \in Nat
    OBVIOUS
<1>2. \E i \in 1..Len(queue) : queue[i] = b
    BY <1>1 DEF Range
<1>3. /\ rest \in Seq(Builds) /\ Len(rest) = Len(queue) - 1
      /\ \A i \in 1..Len(queue) : queue[i] # b => \E n \in 1..(Len(queue) - 1) : rest[n] = queue[i]
    BY <1>2, RemoveFirstMembers
<1> HIDE DEF rest
<1>4. DOMAIN rest = 1..(Len(queue) - 1)
    BY <1>3
<1>5. \A d \in Range(queue) : d # b => d \in Range(rest)
    BY <1>1, <1>3, <1>4 DEF Range
<1> QED BY <1>1, <1>3, <1>5 DEF rest

LEMMA TypeStays == TypeOK /\ [Next]_vars => TypeOK'
<1> SUFFICES ASSUME TypeOK, [Next]_vars PROVE TypeOK'
    OBVIOUS
<1> USE DEF TypeOK
<1>1. CASE Tick
    BY <1>1, TickType DEF LimiterOK, Stamps, Ages, Tick
<1>2. ASSUME NEW c \in Clients, NEW class \in Classes, Refuse(c, class) PROVE TypeOK'
    BY <1>2, CheckType DEF LimiterOK, Stamps, Ages, Refuse
<1>3. ASSUME NEW c \in Clients, GetPackage(c) PROVE TypeOK'
    <2>1. "default" \in Classes
        BY DEF Classes
    <2> QED BY <1>3, <2>1, CheckType DEF LimiterOK, Stamps, Ages, GetPackage
<1>4. ASSUME NEW c \in Clients, NEW b \in Builds, CreateBuild(c, b) PROVE TypeOK'
    <2>1. "build" \in Classes
        BY DEF Classes
    <2>2. LimiterOK'
        BY <1>4, <2>1, CheckType DEF CreateBuild
    <2>3. Append(queue, b) \in Seq(Builds) /\ Len(Append(queue, b)) = Len(queue) + 1
        OBVIOUS
    <2>4. Len(queue) + 1 <= MaxQueue
        BY <1>4, ApiAssumption DEF CreateBuild, SubmitBuild
    <2> QED BY <1>4, <2>2, <2>3, <2>4 DEF LimiterOK, Stamps, Ages, CreateBuild, SubmitBuild
<1>5. ASSUME NEW c \in Clients, NEW r \in Runs, SubmitExecution(c, r) PROVE TypeOK'
    <2>1. "exec" \in Classes
        BY DEF Classes
    <2>2. LimiterOK'
        BY <1>5, <2>1, CheckType DEF SubmitExecution
    <2> QED BY <1>5, <2>2 DEF LimiterOK, Stamps, Ages, SubmitExecution, RunFunction
<1>6. ASSUME NEW b \in Builds, CancelBuild(b) PROVE TypeOK'
    <2>1. queue' \in Seq(Builds) /\ Len(queue') <= MaxQueue
        <3>1. CASE b \in Range(queue)
            <4>1. queue' = RemoveFirst(queue, b)
                BY <1>6, <3>1 DEF CancelBuild
            <4>2. Len(RemoveFirst(queue, b)) \in Nat /\ Len(queue) \in Nat
                BY <3>1, QueueRemoves
            <4> QED BY <3>1, <4>1, <4>2, QueueRemoves, ApiAssumption
        <3>2. CASE b \notin Range(queue)
            BY <1>6, <3>2 DEF CancelBuild
        <3> QED BY <3>1, <3>2
    <2> QED BY <1>6, <2>1 DEF CancelBuild
<1>7. ASSUME NEW r \in Runs, CancelExecution(r) PROVE TypeOK'
    <2>1. results[r] \notin {"pending", "running"}
        BY ApiAssumption
    <2> QED BY <1>7, <2>1 DEF CancelExecution
<1>8. CASE UNCHANGED vars
    BY <1>8 DEF vars
<1> QED BY <1>1, <1>2, <1>3, <1>4, <1>5, <1>6, <1>7, <1>8 DEF Next

\* Nothing but time, requests and cancellations changes the endpoints, and they keep
\* the types: an execution is always over, and the queue never longer than its bound.
THEOREM ApiTypeCorrect == Spec => []TypeOK
BY TypeStarts, TypeStays, PTL DEF Spec

-----------------------------------------------------------------------------
(* The rate limiter                                                        *)

\* The list that the limiter keeps of a client's requests counts, for every age below
\* the window, the requests that were let through: refused ones are not in it, and one
\* stays in it as long as the window does.  This is what relates the limiter's own
\* state to the bound, which is about the requests and not about the list.
Admitted(t) == [class : Classes, age : 0..(t - 1)]

WindowCounts ==
    \A c \in Clients : \A t \in 0..Window :
        Count(window[c], 0..(t - 1)) = Count(admitted[c], Admitted(t))

\* So the limiter counts exactly the admitted requests.
LEMMA RecentCounts ==
    ASSUME TypeOK, WindowCounts, NEW c \in Clients
    PROVE  Len(Recent(c)) = Len(admitted[c])
<1>1. Window \in Nat \ {0} /\ Window \in 0..Window
    BY ApiAssumption
<1>2. Recent(c) \in Seq(Ages) /\ admitted[c] \in Seq(Stamps)
    BY RecentType DEF TypeOK, Stamps, Ages
<1>3. Count(Recent(c), Ages) = Count(window[c], Ages)
    BY RecentType
<1>4. Count(window[c], Ages) = Count(admitted[c], Stamps)
    BY <1>1 DEF WindowCounts, Ages, Stamps, Admitted
<1>5. Count(Recent(c), Ages) = Len(Recent(c)) /\ Count(admitted[c], Stamps) = Len(admitted[c])
    BY <1>2, CountAll
<1> QED BY <1>3, <1>4, <1>5

\* The requests of a class, counted in either way.
LEMMA ClassCount ==
    ASSUME NEW s \in Seq(Stamps), NEW class \in Classes
    PROVE  Cardinality({i \in DOMAIN s : s[i].class = class})
               = Count(s, [class : {class}, age : Ages])
<1>1. DOMAIN s = 1..Len(s) /\ \A i \in 1..Len(s) : s[i] \in Stamps
    OBVIOUS
<1>2. \A i \in 1..Len(s) : s[i].class = class <=> s[i] \in [class : {class}, age : Ages]
    BY <1>1 DEF Stamps
<1>3. {i \in DOMAIN s : s[i].class = class}
          = {i \in 1..Len(s) : s[i] \in [class : {class}, age : Ages]}
    BY <1>1, <1>2
<1> QED BY <1>3 DEF Count

\* A second makes every counted request one older, in the list and among the admitted.
LEMMA TickCounts == TypeOK /\ WindowCounts /\ Tick => WindowCounts'
<1> SUFFICES ASSUME TypeOK, WindowCounts, Tick, NEW c \in Clients, NEW t \in 0..Window
             PROVE  Count(window'[c], 0..(t - 1)) = Count(admitted'[c], Admitted(t))
    BY DEF WindowCounts, Admitted
<1> DEFINE w == window[c]
           a == admitted[c]
           K == {i \in DOMAIN Aged(c) : Aged(c)[i].age < Window}
           Older == [class : Classes, age : 0..Window]
<1>1. /\ Window \in Nat \ {0} /\ w \in Seq(0..Window) /\ a \in Seq(Stamps)
      /\ Len(w) \in Nat /\ Len(a) \in Nat
      /\ \A i \in 1..Len(w) : w[i] \in 0..Window
      /\ \A i \in 1..Len(a) : /\ a[i] \in Stamps
                              /\ a[i].class \in Classes /\ a[i].age \in 0..(Window - 1)
    <2>1. Window \in Nat \ {0} /\ w \in Seq(0..Window) /\ a \in Seq(Stamps)
        BY ApiAssumption DEF TypeOK, Stamps, Ages
    <2>2. \A x \in Stamps : x.class \in Classes /\ x.age \in 0..(Window - 1)
        BY DEF Stamps, Ages
    <2> HIDE DEF w, a, Stamps
    <2> QED BY <2>1, <2>2
<1>2. Count(window'[c], 0..(t - 1)) = Count(w, 0..((t - 1) - 1))
    <2>1. /\ Len(window'[c]) = Len(w)
          /\ \A i \in 1..Len(w) :
                 window'[c][i] = IF w[i] < Window THEN w[i] + 1 ELSE Window
        BY <1>1 DEF Tick
    <2>2. ASSUME NEW i \in 1..Len(w)
          PROVE  window'[c][i] \in 0..(t - 1) <=> w[i] \in 0..((t - 1) - 1)
        <3>1. w[i] \in 0..Window
            BY <1>1
        <3>2. window'[c][i] = IF w[i] < Window THEN w[i] + 1 ELSE Window
            BY <2>1
        <3> HIDE DEF w
        <3> QED BY <1>1, <3>1, <3>2
    <2>3. {i \in 1..Len(window'[c]) : window'[c][i] \in 0..(t - 1)}
              = {i \in 1..Len(w) : w[i] \in 0..((t - 1) - 1)}
        BY <2>1, <2>2
    <2> QED BY <2>3 DEF Count
<1>3. Count(admitted'[c], Admitted(t)) = Count(a, Admitted(t - 1))
    <2>1. admitted'[c] = SubList(Aged(c), K)
        BY DEF Tick
    <2>2. /\ Aged(c) \in Seq(Older) /\ Len(Aged(c)) = Len(a)
          /\ DOMAIN Aged(c) = 1..Len(a)
          /\ \A i \in 1..Len(a) : /\ Aged(c)[i] \in Older
                                  /\ Aged(c)[i].age = a[i].age + 1
                                  /\ Aged(c)[i].class = a[i].class
        <3>1. /\ Aged(c) \in Seq(Older) /\ Len(Aged(c)) = Len(a)
              /\ DOMAIN Aged(c) = 1..Len(a)
              /\ \A i \in 1..Len(a) : /\ Aged(c)[i].age = a[i].age + 1
                                      /\ Aged(c)[i].class = a[i].class
            BY AgedType
        <3> HIDE DEF Older
        <3> QED BY <3>1
    <2>3. Count(SubList(Aged(c), K), Admitted(t))
              = Cardinality({k \in K \cap (1..Len(Aged(c))) : Aged(c)[k] \in Admitted(t)})
        <3> HIDE DEF K
        <3> QED BY <2>2, SubListCount
    <2>4. ASSUME NEW i \in 1..Len(a)
          PROVE  i \in K /\ Aged(c)[i] \in Admitted(t) <=> a[i] \in Admitted(t - 1)
        <3>1. /\ Aged(c)[i] \in [class : Classes, age : 0..Window]
              /\ Aged(c)[i].age = a[i].age + 1 /\ Aged(c)[i].class = a[i].class
              /\ i \in K <=> Aged(c)[i].age < Window
            BY <2>2
        <3>2. a[i] \in Stamps /\ a[i].age \in 0..(Window - 1)
            BY <1>1
        <3>3. Aged(c)[i] \in Admitted(t) <=> Aged(c)[i].age \in 0..(t - 1)
            BY <3>1 DEF Admitted
        <3>4. a[i] \in Admitted(t - 1) <=> a[i].age \in 0..((t - 1) - 1)
            BY <3>2 DEF Admitted, Stamps
        <3> HIDE DEF K
        <3>5. t \in Nat /\ t <= Window
            BY <1>1
        <3>6. a[i].age \in Nat /\ Window \in Nat
            BY <1>1, <3>2
        <3>7. i \in K <=> a[i].age + 1 < Window
            BY <3>1
        <3>8. Aged(c)[i] \in Admitted(t) <=> a[i].age + 1 <= t - 1
            BY <3>1, <3>3, <3>5, <3>6
        <3>9. a[i] \in Admitted(t - 1) <=> a[i].age <= (t - 1) - 1
            BY <3>4, <3>5, <3>6
        <3> HIDE DEF a
        <3> QED BY <3>5, <3>6, <3>7, <3>8, <3>9
    <2>5. {k \in K \cap (1..Len(Aged(c))) : Aged(c)[k] \in Admitted(t)}
              = {i \in 1..Len(a) : a[i] \in Admitted(t - 1)}
        <3> HIDE DEF K
        <3> QED BY <2>2, <2>4
    <2> QED BY <2>1, <2>3, <2>5 DEF Count
<1>4. CASE t = 0
    <2>1. \A s, P : P = {} => Count(s, P) = 0
        BY FS_EmptySet DEF Count
    <2>2. 0..((t - 1) - 1) = {} /\ Admitted(t - 1) = {}
        BY <1>4 DEF Admitted
    <2> QED BY <1>2, <1>3, <2>1, <2>2
<1>5. CASE t # 0
    <2>1. t - 1 \in 0..Window
        BY <1>1, <1>5
    <2> QED BY <1>2, <1>3, <2>1 DEF WindowCounts
<1> QED BY <1>4, <1>5

\* A request that is let through is counted in both, and one that is refused in neither.
LEMMA CheckCounts ==
    ASSUME TypeOK, WindowCounts, NEW c \in Clients, NEW class \in Classes, NEW ok \in BOOLEAN,
           Check(c, class, ok)
    PROVE  WindowCounts'
<1> SUFFICES ASSUME NEW d \in Clients, NEW t \in 0..Window
             PROVE  Count(window'[d], 0..(t - 1)) = Count(admitted'[d], Admitted(t))
    BY DEF WindowCounts, Admitted
<1> DEFINE x == [class |-> class, age |-> 0]
<1>1. CASE d # c
    <2>1. window'[d] = window[d] /\ admitted'[d] = admitted[d]
        BY <1>1 DEF Check
    <2> QED BY <2>1 DEF WindowCounts
<1>2. CASE d = c
    <2>1. 0..(t - 1) \in SUBSET Ages
        BY ApiAssumption DEF Ages
    <2>2. Count(Recent(c), 0..(t - 1)) = Count(admitted[c], Admitted(t))
        BY <2>1, RecentType DEF WindowCounts
    <2>3. CASE ok
        <3>1. Recent(c) \in Seq(Ages) /\ admitted[c] \in Seq(Stamps)
            BY RecentType DEF TypeOK, Stamps, Ages
        <3>2. 0 \in Ages /\ x \in Stamps
            BY ApiAssumption DEF Stamps, Ages
        <3>3. x \in Admitted(t) <=> 0 \in 0..(t - 1)
            BY DEF Admitted
        <3>4. window'[c] = Append(Recent(c), 0) /\ admitted'[c] = Append(admitted[c], x)
            BY <2>3 DEF Check, TypeOK
        <3>5. Count(Append(Recent(c), 0), 0..(t - 1))
                  = Count(Recent(c), 0..(t - 1)) + (IF 0 \in 0..(t - 1) THEN 1 ELSE 0)
            BY <3>1, <3>2, CountAppend
        <3>6. Count(Append(admitted[c], x), Admitted(t))
                  = Count(admitted[c], Admitted(t)) + (IF x \in Admitted(t) THEN 1 ELSE 0)
            <4> HIDE DEF x
            <4> QED BY <3>1, <3>2, CountAppend
        <3> QED BY <1>2, <2>2, <3>3, <3>4, <3>5, <3>6
    <2>4. CASE ~ok
        <3>1. window'[c] = Recent(c) /\ admitted'[c] = admitted[c]
            BY <2>4 DEF Check, TypeOK
        <3> QED BY <1>2, <2>2, <3>1
    <2> QED BY <2>3, <2>4
<1> QED BY <1>1, <1>2

\* RateBound in terms of Count.
OfClass(class) == [class : {class}, age : Ages]
Bounded == \A c \in Clients, class \in Classes : Count(admitted[c], OfClass(class)) <= Limits[class]

\* RateBound counts with Cardinality over positions, Bounded with Count over the list.
LEMMA BoundedIs == TypeOK => (RateBound <=> Bounded)
<1> SUFFICES ASSUME TypeOK PROVE RateBound <=> Bounded
    OBVIOUS
<1>1. \A c \in Clients : admitted[c] \in Seq(Stamps)
    BY DEF TypeOK, Stamps, Ages
<1>2. \A c \in Clients, class \in Classes :
          Cardinality({i \in DOMAIN admitted[c] : admitted[c][i].class = class})
              = Count(admitted[c], OfClass(class))
    BY <1>1, ClassCount DEF OfClass
<1> QED BY <1>2 DEF RateBound, Bounded

\* Requests that leave the window only lower the number of a class.
LEMMA TickBounded == TypeOK /\ Bounded /\ Tick => Bounded'
<1> SUFFICES ASSUME TypeOK, Bounded, Tick, NEW c \in Clients, NEW class \in Classes
             PROVE  Count(admitted'[c], OfClass(class)) <= Limits[class]
    BY DEF Bounded, OfClass, Ages
<1> DEFINE a == admitted[c]
           K == {i \in DOMAIN Aged(c) : Aged(c)[i].age < Window}
           Older == [class : Classes, age : 0..Window]
           A == {k \in K \cap (1..Len(Aged(c))) : Aged(c)[k] \in OfClass(class)}
           B == {i \in 1..Len(a) : a[i] \in OfClass(class)}
<1>1. admitted'[c] = SubList(Aged(c), K)
    BY DEF Tick
<1>2. /\ Aged(c) \in Seq(Older) /\ Len(Aged(c)) = Len(a)
      /\ \A i \in 1..Len(a) : Aged(c)[i].class = a[i].class
    BY AgedType
<1>3. a \in Seq(Stamps) /\ Len(a) \in Nat
    <2>1. a \in Seq(Stamps)
        BY DEF TypeOK, Stamps, Ages
    <2> HIDE DEF a, Stamps
    <2> QED BY <2>1
<1>4. Count(admitted'[c], OfClass(class)) = Cardinality(A)
    <2> HIDE DEF K, Older
    <2> QED BY <1>1, <1>2, SubListCount
<1>5. A \subseteq B
    <2>1. ASSUME NEW k \in A PROVE k \in B
        <3>1. k \in 1..Len(a) /\ Aged(c)[k].class = class
            BY <1>2 DEF OfClass
        <3>2. a[k] \in Stamps /\ a[k].class = class
            BY <1>2, <1>3, <3>1
        <3> QED BY <3>1, <3>2 DEF OfClass, Stamps
    <2> QED BY <2>1
<1>6. IsFiniteSet(B) /\ Count(a, OfClass(class)) = Cardinality(B)
    BY <1>3, CountNat DEF Count
<1>7. Cardinality(A) <= Cardinality(B) /\ Cardinality(B) \in Nat /\ Cardinality(A) \in Nat
    <2> HIDE DEF A, B
    <2> QED BY <1>5, <1>6, FS_Subset, FS_CardinalityType
<1>8. Cardinality(B) <= Limits[class] /\ Limits[class] \in Nat
    BY <1>6, ApiAssumption DEF Bounded
<1> HIDE DEF A, B
<1> QED BY <1>4, <1>7, <1>8

\* check lets a request through only while the client has fewer than the limit of its
\* class, of all classes together.
LEMMA CheckBounded ==
    ASSUME TypeOK, WindowCounts, Bounded, NEW c \in Clients, NEW class \in Classes,
           NEW ok \in BOOLEAN, Check(c, class, ok)
    PROVE  Bounded'
<1> SUFFICES ASSUME NEW d \in Clients, NEW kind \in Classes
             PROVE  Count(admitted'[d], OfClass(kind)) <= Limits[kind]
    BY DEF Bounded, OfClass, Ages
<1> DEFINE x == [class |-> class, age |-> 0]
<1>1. CASE admitted'[d] = admitted[d]
    BY <1>1 DEF Bounded
<1>2. CASE admitted'[d] # admitted[d]
    <2>1. d = c /\ ok /\ admitted'[c] = Append(admitted[c], x)
        BY <1>2 DEF Check, TypeOK
    <2>2. admitted[c] \in Seq(Stamps) /\ x \in Stamps
        <3>1. admitted[c] \in Seq(Stamps)
            BY DEF TypeOK, Stamps, Ages
        <3>2. x \in Stamps
            BY ApiAssumption DEF Stamps, Ages
        <3> QED BY <3>1, <3>2
    <2>3. Count(Append(admitted[c], x), OfClass(kind))
              = Count(admitted[c], OfClass(kind)) + (IF x \in OfClass(kind) THEN 1 ELSE 0)
        <3> HIDE DEF x, Stamps
        <3> QED BY <2>2, CountAppend
    <2>4. x \in OfClass(kind) => kind = class
        BY DEF OfClass
    <2>5. Len(admitted[c]) < Limits[class]
        BY <2>1, RecentCounts DEF Check, Within
    <2>6. /\ Count(admitted[c], OfClass(kind)) <= Len(admitted[c])
          /\ Count(admitted[c], OfClass(kind)) \in Nat
          /\ Len(admitted[c]) \in Nat
        <3>1. Len(admitted[c]) \in Nat
            BY <2>2
        <3> QED BY <3>1, CountNat
    <2>7. Count(admitted[c], OfClass(kind)) <= Limits[kind]
        BY DEF Bounded
    <2>8. Limits[kind] \in Nat /\ Limits[class] \in Nat
        BY ApiAssumption
    <2> HIDE DEF x
    <2> QED BY <2>1, <2>3, <2>4, <2>5, <2>6, <2>7, <2>8
<1> QED BY <1>1, <1>2

LEMMA LimiterStarts == Init => WindowCounts /\ Bounded
<1>1. \A P : Count(<<>>, P) = 0
    <2>1. \A P : {i \in 1..Len(<<>>) : <<>>[i] \in P} = {}
        OBVIOUS
    <2> QED BY <2>1, FS_EmptySet DEF Count
<1>2. \A class \in Classes : 0 <= Limits[class]
    BY ApiAssumption
<1> QED BY <1>1, <1>2 DEF Init, WindowCounts, Bounded

LEMMA LimiterSteps ==
    TypeOK /\ WindowCounts /\ Bounded /\ [Next]_vars => (WindowCounts /\ Bounded)'
<1> SUFFICES ASSUME TypeOK, WindowCounts, Bounded, [Next]_vars PROVE (WindowCounts /\ Bounded)'
    OBVIOUS
<1>1. CASE Tick
    BY <1>1, TickCounts, TickBounded
<1>2. ASSUME NEW c \in Clients, NEW class \in Classes, NEW ok \in BOOLEAN, Check(c, class, ok)
      PROVE  (WindowCounts /\ Bounded)'
    BY <1>2, CheckCounts, CheckBounded
<1>3. CASE UNCHANGED <<window, admitted>>
    BY <1>3 DEF WindowCounts, Bounded, Count, OfClass, Admitted, Ages
<1>4. \A class \in {"default", "build", "exec"} : class \in Classes
    BY DEF Classes
<1>5. CASE \E c \in Clients : \/ \E class \in Classes : Refuse(c, class)
                              \/ GetPackage(c)
                              \/ \E b \in Builds : CreateBuild(c, b)
                              \/ \E r \in Runs : SubmitExecution(c, r)
    BY <1>2, <1>4, <1>5 DEF Refuse, GetPackage, CreateBuild, SubmitExecution
<1>6. CASE \/ \E b \in Builds : CancelBuild(b)
           \/ \E r \in Runs : CancelExecution(r)
    BY <1>3, <1>6 DEF CancelBuild, CancelExecution
<1> QED BY <1>1, <1>3, <1>5, <1>6 DEF Next, vars

LEMMA LimiterHolds == Spec => [](TypeOK /\ WindowCounts /\ Bounded)
<1>1. Init => TypeOK /\ WindowCounts /\ Bounded
    BY TypeStarts, LimiterStarts
<1>2. TypeOK /\ WindowCounts /\ Bounded /\ [Next]_vars => (TypeOK /\ WindowCounts /\ Bounded)'
    BY TypeStays, LimiterSteps
<1> QED BY <1>1, <1>2, PTL DEF Spec

\* The limiter lets at most as many requests of a class through in any window as the
\* limit of the class says, for any limits, although all classes share one list.
THEOREM RateIsBounded == Spec => []RateBound
<1>1. TypeOK /\ WindowCounts /\ Bounded => RateBound
    BY BoundedIs
<1> QED BY <1>1, LimiterHolds, PTL

\* A client none of whose requests was let through for a whole window is let through,
\* however many were refused meanwhile: Retry-After is never too short.
THEOREM RetryIsAdmitted == Spec => []RetryAdmitted
<1>1. TypeOK /\ WindowCounts /\ Bounded => RetryAdmitted
    <2> SUFFICES ASSUME TypeOK, WindowCounts, NEW c \in Clients, NEW class \in Classes,
                        admitted[c] = <<>>
                 PROVE  Within(c, class)
        BY DEF RetryAdmitted
    <2>1. Len(Recent(c)) = 0
        BY RecentCounts
    <2> QED BY <2>1, ApiAssumption DEF Within
<1> QED BY <1>1, LimiterHolds, PTL

-----------------------------------------------------------------------------
(* The queue of builds                                                     *)

LEMMA ListedStarts == Init => QueuedIsListed
BY ApiAssumption DEF Init, QueuedIsListed

LEMMA ListedStays == TypeOK /\ QueuedIsListed /\ [Next]_vars => QueuedIsListed'
<1> SUFFICES ASSUME TypeOK, QueuedIsListed, [Next]_vars PROVE QueuedIsListed'
    OBVIOUS
<1>1. CASE UNCHANGED <<builds, queue>>
    BY <1>1 DEF QueuedIsListed, Range
<1>2. ASSUME NEW c \in Clients, NEW b \in Builds, CreateBuild(c, b) PROVE QueuedIsListed'
    <2>1. queue \in Seq(Builds) /\ builds \in [Builds -> {"queued", "cancelled", None}]
        BY DEF TypeOK
    <2>2. Range(queue') = Range(queue) \cup {b}
        <3>1. queue' = Append(queue, b)
            BY <1>2 DEF CreateBuild, SubmitBuild
        <3>2. /\ DOMAIN queue' = 1..(Len(queue) + 1) /\ queue'[Len(queue) + 1] = b
              /\ DOMAIN queue = 1..Len(queue) /\ \A i \in 1..Len(queue) : queue'[i] = queue[i]
            BY <2>1, <3>1
        <3>3. 1..(Len(queue) + 1) = 1..Len(queue) \cup {Len(queue) + 1}
            BY <2>1
        <3> QED BY <3>2, <3>3 DEF Range
    <2>3. builds' = [builds EXCEPT ![b] = "queued"]
        BY <1>2 DEF CreateBuild, SubmitBuild
    <2> QED BY <2>1, <2>2, <2>3 DEF QueuedIsListed
<1>3. ASSUME NEW b \in Builds, CancelBuild(b) PROVE QueuedIsListed'
    <2>1. queue \in Seq(Builds) /\ builds \in [Builds -> {"queued", "cancelled", None}]
        BY DEF TypeOK
    <2>2. ASSUME NEW d \in Range(queue), d # b PROVE d \in Range(queue')
        BY <1>3, <2>1, <2>2, QueueRemoves DEF CancelBuild
    <2>3. builds' = [builds EXCEPT ![b] = "cancelled"]
        BY <1>3 DEF CancelBuild
    <2> QED BY <2>1, <2>2, <2>3 DEF QueuedIsListed
<1> QED BY <1>1, <1>2, <1>3
        DEF Next, vars, Tick, Refuse, GetPackage, SubmitExecution, CancelExecution

\* A build whose status is queued is in the queue, however its id was submitted again
\* or cancelled before: a cancel takes no other build out, and not one that was queued
\* again without being the one cancelled.
THEOREM QueuedBuildsAreListed == Spec => []QueuedIsListed
<1>1. Init => TypeOK /\ QueuedIsListed
    BY TypeStarts, ListedStarts
<1>2. TypeOK /\ QueuedIsListed /\ [Next]_vars => (TypeOK /\ QueuedIsListed)'
    BY TypeStays, ListedStays
<1> QED BY <1>1, <1>2, PTL DEF Spec

-----------------------------------------------------------------------------
(* The server's sessions.  IdleBound is not inductive: that no session is  *)
(* older than the limit and one interval follows from how old it may be at *)
(* each moment of the task's sleep.                                        *)

\* While the task has slept for so long, no session is idle for more than the limit and
\* that time: the last pass left none beyond the limit.
AgeInv == \A s \in Tracked : idle[s] <= MaxIdle + slept

SessionsInv == ServerSessionsTypeOK /\ AgeInv

LEMMA SessionsInit == ServerSessionsInit => SessionsInv
BY ServerSessionsAssumption DEF ServerSessionsInit, SessionsInv, ServerSessionsTypeOK, AgeInv, Tracked

LEMMA SessionsStep == SessionsInv /\ [ServerSessionsNext]_serverSessionVars => SessionsInv'
<1> SUFFICES ASSUME SessionsInv, [ServerSessionsNext]_serverSessionVars PROVE SessionsInv'
    OBVIOUS
<1> USE ServerSessionsAssumption DEF SessionsInv, ServerSessionsTypeOK, AgeInv, Tracked
<1>1. ASSUME NEW s \in Sessions, CreateSession(s) PROVE SessionsInv'
    BY <1>1 DEF CreateSession
<1>2. ASSUME NEW s \in Sessions, UpdateActivity(s) PROVE SessionsInv'
    BY <1>2 DEF UpdateActivity
<1>3. ASSUME NEW s \in Sessions, RemoveSession(s) PROVE SessionsInv'
    BY <1>3 DEF RemoveSession
<1>4. ASSUME CleanupPass PROVE SessionsInv'
    BY <1>4 DEF CleanupPass, Stale
<1>5. ASSUME Second PROVE SessionsInv'
    BY <1>5 DEF Second, CleanupDue
<1>6. CASE UNCHANGED serverSessionVars
    BY <1>6 DEF serverSessionVars
<1>7. QED  BY <1>1, <1>2, <1>3, <1>4, <1>5, <1>6 DEF ServerSessionsNext

\* The sessions and the task keep their types, and AgeInv is an invariant.
THEOREM SessionsInvariant == ServerSessionsSpec => []SessionsInv
BY SessionsInit, SessionsStep, PTL DEF ServerSessionsSpec

\* The clean-up task of app.py removes a session at most one of its intervals after
\* max_idle_seconds, for any two settings, also when the interval is the longer one.
THEOREM IdleSessionsGo == ServerSessionsSpec => []IdleBound
<1>1. ASSUME SessionsInv PROVE IdleBound
    <2> SUFFICES ASSUME NEW s \in Tracked PROVE idle[s] <= MaxIdle + CleanupInterval
        BY DEF IdleBound
    <2>1. idle[s] \in Nat
        BY <1>1 DEF SessionsInv, ServerSessionsTypeOK, Tracked
    <2>2. idle[s] <= MaxIdle + slept
        BY <1>1 DEF SessionsInv, AgeInv
    <2>3. slept \in 0..CleanupInterval
        BY <1>1 DEF SessionsInv, ServerSessionsTypeOK
    <2>4. QED  BY <2>1, <2>2, <2>3, ServerSessionsAssumption
<1>2. QED  BY <1>1, SessionsInvariant, PTL

-----------------------------------------------------------------------------
(* Values that travel: recursion                                           *)

\* What holds of a value when it holds of all that is in it holds of every value.
LEMMA ByDepth ==
    ASSUME NEW S, \A v \in Values : Parts(v) \subseteq S => v \in S
    PROVE  Values \subseteq S
<1> SUFFICES ASSUME Values \ S # {} PROVE FALSE
    OBVIOUS
<1> DEFINE D == {Depth[v] : v \in Values \ S}
<1>1. D \in SUBSET Nat /\ D # {}
    BY DepthAssumption
<1>2. PICK n \in D : \A m \in D : n <= m
    <2> HIDE DEF D
    <2> QED BY <1>1, Least
<1>3. PICK v \in Values \ S : n = Depth[v]
    OBVIOUS
<1>4. PICK w \in Parts(v) : w \notin S
    OBVIOUS
<1>5. w \in Values /\ Depth[w] < Depth[v]
    BY DepthAssumption
<1>6. Depth[w] \in D /\ Depth[w] \in Nat /\ n \in Nat
    BY <1>1, <1>4, <1>5
<1> QED BY <1>2, <1>3, <1>5, <1>6

\* The values that are less deep than n.
Above(n) == {v \in Values : Depth[v] < n}

LEMMA AboveParts ==
    ASSUME NEW n \in Nat, NEW v \in Above(n + 1)
    PROVE  Parts(v) \subseteq Above(n) /\ Parts(v) \subseteq Above(n + 1)
BY DepthAssumption DEF Above

LEMMA AboveAll == Above(0) = {} /\ Above(RecursionLimit + 1) = Values
BY DepthAssumption DEF Above

\* The functions that are defined by recursion on what is in a value have one.
LEMMA CanSendIs ==
    CanSend = [v \in Values |-> /\ v[1] # "unpicklable"
                                /\ v[1] = "dict" => \A k \in DOMAIN v[2] : Text[k] # NoText
                                /\ \A w \in Parts(v) : CanSend[w]]
<1> DEFINE Goes(v) == /\ v[1] # "unpicklable"
                      /\ v[1] = "dict" => \A k \in DOMAIN v[2] : Text[k] # NoText
           Is(f, V) == f = [v \in V |-> Goes(v) /\ \A w \in Parts(v) : f[w]]
           S == {n \in Nat : \E f : Is(f, Above(n))}
<1> HIDE DEF Goes
<1>1. 0 \in S
    <2> DEFINE f == [v \in {} |-> TRUE]
    <2>1. Is(f, {})
        OBVIOUS
    <2> HIDE DEF f, Is
    <2> QED BY <2>1, AboveAll
<1>2. ASSUME NEW n \in Nat, n \in S PROVE n + 1 \in S
    <2>1. PICK f : Is(f, Above(n))
        BY <1>2
    <2> DEFINE g == [v \in Above(n + 1) |-> Goes(v) /\ \A w \in Parts(v) : f[w]]
    <2>2. ASSUME NEW v \in Above(n + 1)
          PROVE  (\A w \in Parts(v) : f[w]) <=> (\A w \in Parts(v) : g[w])
        <3>1. \A w \in Parts(v) : w \in Above(n) /\ w \in Above(n + 1)
            BY AboveParts
        <3>2. \A w \in Above(n) : f[w] = (Goes(w) /\ \A x \in Parts(w) : f[x])
            BY <2>1
        <3>3. \A w \in Above(n + 1) : g[w] = (Goes(w) /\ \A x \in Parts(w) : f[x])
            OBVIOUS
        <3>4. \A w \in Parts(v) : f[w] = g[w]
            <4> HIDE DEF g
            <4> QED BY <3>1, <3>2, <3>3
        <3> HIDE DEF g
        <3> QED BY <3>4
    <2> HIDE DEF g
    <2>4. Is(g, Above(n + 1))
        BY <2>2, Zenon DEF g
    <2> HIDE DEF Is
    <2> QED BY <2>4
<1> HIDE DEF S
<1>3. S = Nat
    <2>1. S \in SUBSET Nat
        BY DEF S
    <2> QED BY <1>1, <1>2, <2>1, Induct
<1>4. RecursionLimit + 1 \in S
    BY <1>3, DepthAssumption
<1>5. \E f : Is(f, Values)
    BY <1>4, AboveAll DEF S
<1>6. Is(CHOOSE f : Is(f, Values), Values)
    <2> HIDE DEF Is
    <2> QED BY <1>5
<1>7. \A f : (f = [v \in Values |-> /\ v[1] # "unpicklable"
                                    /\ v[1] = "dict" => \A k \in DOMAIN v[2] : Text[k] # NoText
                                    /\ \A w \in Parts(v) : f[w]]) <=> Is(f, Values)
    BY Zenon DEF Goes
<1> QED BY <1>6, <1>7, Zenon DEF CanSend

LEMMA SendableIs ==
    ASSUME NEW v \in Values
    PROVE  v \in Sendable <=> /\ v[1] # "unpicklable"
                              /\ v[1] = "dict" => \A k \in DOMAIN v[2] : Text[k] # NoText
                              /\ Parts(v) \subseteq Sendable
<1>1. CanSend[v] <=> /\ v[1] # "unpicklable"
                     /\ v[1] = "dict" => \A k \in DOMAIN v[2] : Text[k] # NoText
                     /\ \A w \in Parts(v) : CanSend[w]
    <2>1. CanSend[v] = (/\ v[1] # "unpicklable"
                        /\ v[1] = "dict" => \A k \in DOMAIN v[2] : Text[k] # NoText
                        /\ \A w \in Parts(v) : CanSend[w])
        BY CanSendIs, Zenon
    <2> QED BY <2>1
<1>2. \A w \in Parts(v) : w \in Values
    BY DepthAssumption
<1> QED BY <1>1, <1>2 DEF Sendable

\* The values that can be sent and are less deep than n.
SendableAbove(n) == Above(n) \cap Sendable

LEMMA SendableParts ==
    /\ \A n \in Nat : \A v \in SendableAbove(n + 1) :
          Parts(v) \subseteq SendableAbove(n) /\ Parts(v) \subseteq SendableAbove(n + 1)
    /\ SendableAbove(0) = {} /\ SendableAbove(RecursionLimit + 1) = Sendable
<1>1. ASSUME NEW n \in Nat, NEW v \in SendableAbove(n + 1)
      PROVE  Parts(v) \subseteq SendableAbove(n) /\ Parts(v) \subseteq SendableAbove(n + 1)
    <2>1. v \in Above(n + 1) /\ v \in Sendable /\ v \in Values
        BY DEF SendableAbove, Sendable
    <2>2. Parts(v) \subseteq Above(n) /\ Parts(v) \subseteq Above(n + 1)
        BY <2>1, AboveParts
    <2>3. Parts(v) \subseteq Sendable
        BY <2>1, SendableIs
    <2> QED BY <2>2, <2>3 DEF SendableAbove
<1>2. SendableAbove(0) = {} /\ SendableAbove(RecursionLimit + 1) = Sendable
    BY AboveAll DEF SendableAbove, Sendable
<1> QED BY <1>1, <1>2

LEMMA SerializeIs ==
    Serialize = [v \in Sendable |-> SerializeValue(v, [w \in Parts(v) |-> Serialize[w]])]
<1> DEFINE Is(f, V) == f = [v \in V |-> SerializeValue(v, [w \in Parts(v) |-> f[w]])]
           S == {n \in Nat : \E f : Is(f, SendableAbove(n))}
<1>1. 0 \in S
    <2> DEFINE f == [v \in {} |-> SerializeValue(v, <<>>)]
    <2>1. Is(f, {})
        OBVIOUS
    <2> HIDE DEF f, Is
    <2> QED BY <2>1, SendableParts
<1>2. ASSUME NEW n \in Nat, n \in S PROVE n + 1 \in S
    <2>1. PICK f : Is(f, SendableAbove(n))
        BY <1>2
    <2> DEFINE g == [v \in SendableAbove(n + 1) |-> SerializeValue(v, [w \in Parts(v) |-> f[w]])]
    <2>2. ASSUME NEW v \in SendableAbove(n + 1)
          PROVE  [w \in Parts(v) |-> f[w]] = [w \in Parts(v) |-> g[w]]
        <3>1. \A w \in Parts(v) : w \in SendableAbove(n) /\ w \in SendableAbove(n + 1)
            BY SendableParts
        <3>2. \A w \in SendableAbove(n) : f[w] = SerializeValue(w, [x \in Parts(w) |-> f[x]])
            BY <2>1
        <3>3. \A w \in SendableAbove(n + 1) : g[w] = SerializeValue(w, [x \in Parts(w) |-> f[x]])
            OBVIOUS
        <3> HIDE DEF g
        <3> QED BY <3>1, <3>2, <3>3
    <2> HIDE DEF g
    <2>3. \A v \in SendableAbove(n + 1) : SerializeValue(v, [w \in Parts(v) |-> f[w]])
                                  = SerializeValue(v, [w \in Parts(v) |-> g[w]])
        BY <2>2
    <2>4. Is(g, SendableAbove(n + 1))
        BY <2>3 DEF g
    <2> QED BY <2>4
<1> HIDE DEF S
<1>3. S = Nat
    <2>1. S \in SUBSET Nat
        BY DEF S
    <2> QED BY <1>1, <1>2, <2>1, Induct
<1>4. RecursionLimit + 1 \in S
    BY <1>3, DepthAssumption
<1>5. \E f : Is(f, Sendable)
    BY <1>4, SendableParts DEF S
<1>6. Is(CHOOSE f : Is(f, Sendable), Sendable)
    <2> HIDE DEF Is
    <2> QED BY <1>5
<1> QED BY <1>6 DEF Serialize

LEMMA NormalIs ==
    Normal = [v \in Values |-> NormalValue(v, [w \in Parts(v) |-> Normal[w]])]
<1> DEFINE Is(f, V) == f = [v \in V |-> NormalValue(v, [w \in Parts(v) |-> f[w]])]
           S == {n \in Nat : \E f : Is(f, Above(n))}
<1>1. 0 \in S
    <2> DEFINE f == [v \in {} |-> NormalValue(v, <<>>)]
    <2>1. Is(f, {})
        OBVIOUS
    <2> HIDE DEF f, Is
    <2> QED BY <2>1, AboveAll
<1>2. ASSUME NEW n \in Nat, n \in S PROVE n + 1 \in S
    <2>1. PICK f : Is(f, Above(n))
        BY <1>2
    <2> DEFINE g == [v \in Above(n + 1) |-> NormalValue(v, [w \in Parts(v) |-> f[w]])]
    <2>2. ASSUME NEW v \in Above(n + 1)
          PROVE  [w \in Parts(v) |-> f[w]] = [w \in Parts(v) |-> g[w]]
        <3>1. \A w \in Parts(v) : w \in Above(n) /\ w \in Above(n + 1)
            BY AboveParts
        <3>2. \A w \in Above(n) : f[w] = NormalValue(w, [x \in Parts(w) |-> f[x]])
            BY <2>1
        <3>3. \A w \in Above(n + 1) : g[w] = NormalValue(w, [x \in Parts(w) |-> f[x]])
            OBVIOUS
        <3> HIDE DEF g
        <3> QED BY <3>1, <3>2, <3>3
    <2> HIDE DEF g
    <2>3. \A v \in Above(n + 1) : NormalValue(v, [w \in Parts(v) |-> f[w]])
                                  = NormalValue(v, [w \in Parts(v) |-> g[w]])
        BY <2>2
    <2>4. Is(g, Above(n + 1))
        BY <2>3 DEF g
    <2> QED BY <2>4
<1> HIDE DEF S
<1>3. S = Nat
    <2>1. S \in SUBSET Nat
        BY DEF S
    <2> QED BY <1>1, <1>2, <2>1, Induct
<1>4. RecursionLimit + 1 \in S
    BY <1>3, DepthAssumption
<1>5. \E f : Is(f, Values)
    BY <1>4, AboveAll DEF S
<1>6. Is(CHOOSE f : Is(f, Values), Values)
    <2> HIDE DEF Is
    <2> QED BY <1>5
<1> QED BY <1>6 DEF Normal

\* Under the text of one of its keys there is something of a dictionary.
LEMMA EntryOf ==
    ASSUME NEW f, NEW t \in Texts(f)
    PROVE  Entry(f, t) \in {f[k] : k \in DOMAIN f}
BY DEF Entry, Texts

LEMMA ArrivingParts == \A v \in Values : Arriving(v) \subseteq Parts(v)
<1> SUFFICES ASSUME NEW v \in Values, v[1] = "dict" PROVE Arriving(v) \subseteq Parts(v)
    BY DEF Arriving
<1>1. Parts(v) = {v[2][k] : k \in DOMAIN v[2]}
    BY DEF Parts
<1>2. Arriving(v) = {Entry(v[2], t) : t \in Texts(v[2])}
    BY DEF Arriving
<1> QED BY <1>1, <1>2, EntryOf

LEMMA SettableIs ==
    Settable = [v \in Values |-> IF v[1] = "set" THEN \A e \in v[2] : Hashable(Normal[e])
                                 ELSE \A w \in Arriving(v) : Settable[w]]
<1>0. \A n \in Nat : Above(n) \subseteq Values
    BY DEF Above
<1> DEFINE Fits(v) == \A e \in v[2] : Hashable(Normal[e])
           Is(f, V) == f = [v \in V |-> IF v[1] = "set" THEN Fits(v) ELSE \A w \in Arriving(v) : f[w]]
           S == {n \in Nat : \E f : Is(f, Above(n))}
<1> HIDE DEF Fits
<1>1. 0 \in S
    <2> DEFINE f == [v \in {} |-> TRUE]
    <2>1. Is(f, {})
        OBVIOUS
    <2> HIDE DEF f, Is
    <2> QED BY <2>1, AboveAll
<1>2. ASSUME NEW n \in Nat, n \in S PROVE n + 1 \in S
    <2>1. PICK f : Is(f, Above(n))
        BY <1>2
    <2> DEFINE g == [v \in Above(n + 1) |-> IF v[1] = "set" THEN Fits(v) ELSE \A w \in Arriving(v) : f[w]]
    <2>2. ASSUME NEW v \in Above(n + 1)
          PROVE  (\A w \in Arriving(v) : f[w]) <=> (\A w \in Arriving(v) : g[w])
        <3>1. \A w \in Arriving(v) : w \in Above(n) /\ w \in Above(n + 1)
            BY <1>0, AboveParts, ArrivingParts
        <3>2. \A w \in Above(n) : f[w] = IF w[1] = "set" THEN Fits(w) ELSE \A x \in Arriving(w) : f[x]
            BY <2>1
        <3>3. \A w \in Above(n + 1) : g[w] = IF w[1] = "set" THEN Fits(w) ELSE \A x \in Arriving(w) : f[x]
            OBVIOUS
        <3>4. \A w \in Arriving(v) : f[w] = g[w]
            <4> HIDE DEF g
            <4> QED BY <3>1, <3>2, <3>3
        <3> HIDE DEF g
        <3> QED BY <3>4
    <2> HIDE DEF g
    <2>4. Is(g, Above(n + 1))
        BY <2>2, Zenon DEF g
    <2> HIDE DEF Is
    <2> QED BY <2>4
<1> HIDE DEF S
<1>3. S = Nat
    <2>1. S \in SUBSET Nat
        BY DEF S
    <2> QED BY <1>1, <1>2, <2>1, Induct
<1>4. RecursionLimit + 1 \in S
    BY <1>3, DepthAssumption
<1>5. \E f : Is(f, Values)
    BY <1>4, AboveAll DEF S
<1>6. Is(CHOOSE f : Is(f, Values), Values)
    <2> HIDE DEF Is
    <2> QED BY <1>5
<1> QED BY <1>6 DEF Settable, Fits

-----------------------------------------------------------------------------
(* What is sent                                                            *)

LEMMA TaggedIs ==
    ASSUME NEW tag, NEW field, NEW json, field # "__type__"
    PROVE  LET d == Tagged(tag, field, json)
           IN  d[1] = "object" /\ IsTagged(d) /\ TagOf(d) = Scalar(tag) /\ d[2][field] = json
BY DEF Tagged, IsTagged, TagOf

LEMMA ScalarsDiffer == \A x, y : Scalar(x) = Scalar(y) => x = y
BY DEF Scalar

LEMMA SerializeCases ==
    ASSUME NEW v, NEW json
    PROVE  /\ v[1] = "scalar" => SerializeValue(v, json) = v
           /\ v[1] \in {"list", "tuple"} =>
                 SerializeValue(v, json) =
                     Tagged("list", "values", <<"array", [i \in DOMAIN v[2] |-> json[v[2][i]]]>>)
           /\ v[1] = "dict" =>
                 SerializeValue(v, json) =
                     Tagged("dict", "items", <<"object", [t \in Texts(v[2]) |-> json[Entry(v[2], t)]]>>)
           /\ v[1] = "set" =>
                 SerializeValue(v, json) =
                     Tagged("set", "values",
                            <<"array", [i \in DOMAIN SetToSeq(v[2]) |-> json[SetToSeq(v[2])[i]]]>>)
           /\ v[1] \in Keyed => SerializeValue(v, json) = Tagged(v[1], "data", Scalar(v[2]))
           /\ v[1] = "opaque" => SerializeValue(v, json) = Tagged("repr", "value", Scalar(v[2]))
BY DEF SerializeValue, Keyed

\* A finite set has an order.
LEMMA OrderOf ==
    ASSUME NEW S, IsFiniteSet(S)
    PROVE  {SetToSeq(S)[i] : i \in DOMAIN SetToSeq(S)} = S
<1> DEFINE n == Cardinality(S)
           f == SetToSeq(S)
<1>1. n \in Nat /\ \E g : g \in Bijection(1..n, S)
    BY FS_CardinalityType DEF ExistsBijection
<1>2. \E g \in [1..n -> S] : IsInjective(g)
    BY <1>1 DEF Bijection, Injection, IsInjective
<1>3. f \in [1..n -> S] /\ IsInjective(f)
    BY <1>2 DEF SetToSeq
<1>4. f \in Injection(1..n, S)
    BY <1>3 DEF Injection, IsInjective
<1>5. Cardinality(1..n) = n
    BY <1>1, Positions
<1>6. f \in Surjection(1..n, S)
    BY <1>4, <1>5, FS_Injection
<1> HIDE DEF f
<1>7. {f[i] : i \in DOMAIN f} = S
    BY <1>3, <1>6 DEF Surjection
<1> QED BY <1>7 DEF f

\* What of a list or a dictionary is sent.
Content(v) == IF v[1] = "dict" THEN [t \in Texts(v[2]) |-> Entry(v[2], t)] ELSE v[2]

LEMMA ContentIs ==
    ASSUME NEW v \in Values, v[1] \in {"list", "tuple", "dict"}
    PROVE  /\ {Content(v)[k] : k \in DOMAIN Content(v)} = Arriving(v)
           /\ \A k \in DOMAIN Content(v) : Content(v)[k] \in Parts(v)
<1>1. CASE v[1] = "dict"
    <2>1. Content(v) = [t \in Texts(v[2]) |-> Entry(v[2], t)]
        BY <1>1 DEF Content
    <2>2. Arriving(v) = {Entry(v[2], t) : t \in Texts(v[2])}
        BY <1>1 DEF Arriving
    <2>3. {Content(v)[k] : k \in DOMAIN Content(v)} = Arriving(v)
        BY <2>1, <2>2
    <2> QED BY <2>3, ArrivingParts
<1>2. CASE v[1] # "dict"
    <2>1. Content(v) = v[2] /\ Arriving(v) = Parts(v)
        BY <1>2 DEF Content, Arriving
    <2>2. Parts(v) = {v[2][k] : k \in DOMAIN v[2]}
        BY <1>2 DEF Parts
    <2> QED BY <2>1, <2>2
<1> QED BY <1>1, <1>2

LEMMA ListSent ==
    ASSUME NEW v \in Sendable, v[1] \in {"list", "tuple"}
    PROVE  /\ Serialize[v][1] = "object" /\ TagOf(Serialize[v]) = Scalar("list")
           /\ Items(Serialize[v]) = [i \in DOMAIN v[2] |-> Serialize[v[2][i]]]
<1> DEFINE d == Serialize[v]
           json == <<"array", [i \in DOMAIN v[2] |-> Serialize[v[2][i]]]>>
<1>1. d = SerializeValue(v, [w \in Parts(v) |-> Serialize[w]])
    BY SerializeIs
<1>2. \A i \in DOMAIN v[2] : v[2][i] \in Parts(v)
    BY DEF Parts
<1> HIDE DEF d
<1>3. d = Tagged("list", "values", json)
    <2> DEFINE J == [w \in Parts(v) |-> Serialize[w]]
    <2>1. [i \in DOMAIN v[2] |-> J[v[2][i]]] = [i \in DOMAIN v[2] |-> Serialize[v[2][i]]]
        BY <1>2
    <2>2. d = SerializeValue(v, J)
        BY <1>1
    <2> HIDE DEF J
    <2>3. SerializeValue(v, J) =
              Tagged("list", "values", <<"array", [i \in DOMAIN v[2] |-> J[v[2][i]]]>>)
        BY SerializeCases
    <2> QED BY <2>1, <2>2, <2>3
<1> HIDE DEF d, json
<1>4. d[1] = "object" /\ IsTagged(d) /\ TagOf(d) = Scalar("list") /\ d[2]["values"] = json
    BY <1>3, TaggedIs
<1>5. Items(d) = d[2]["values"][2]
    BY <1>4, ScalarsDiffer DEF Items
<1> QED BY <1>4, <1>5 DEF d, json

LEMMA DictSent ==
    ASSUME NEW v \in Sendable, v[1] = "dict"
    PROVE  /\ Serialize[v][1] = "object" /\ TagOf(Serialize[v]) = Scalar("dict")
           /\ Items(Serialize[v]) = [t \in Texts(v[2]) |-> Serialize[Entry(v[2], t)]]
<1> DEFINE d == Serialize[v]
           json == <<"object", [t \in Texts(v[2]) |-> Serialize[Entry(v[2], t)]]>>
<1>1. d = SerializeValue(v, [w \in Parts(v) |-> Serialize[w]])
    BY SerializeIs
<1>2. \A t \in Texts(v[2]) : Entry(v[2], t) \in Parts(v)
    BY EntryOf DEF Parts
<1> HIDE DEF d
<1>3. d = Tagged("dict", "items", json)
    <2> DEFINE J == [w \in Parts(v) |-> Serialize[w]]
    <2>1. [t \in Texts(v[2]) |-> J[Entry(v[2], t)]] = [t \in Texts(v[2]) |-> Serialize[Entry(v[2], t)]]
        BY <1>2
    <2>2. d = SerializeValue(v, J)
        BY <1>1
    <2> HIDE DEF J
    <2>3. SerializeValue(v, J) =
              Tagged("dict", "items", <<"object", [t \in Texts(v[2]) |-> J[Entry(v[2], t)]]>>)
        BY SerializeCases
    <2> QED BY <2>1, <2>2, <2>3
<1> HIDE DEF d, json
<1>4. d[1] = "object" /\ IsTagged(d) /\ TagOf(d) = Scalar("dict") /\ d[2]["items"] = json
    BY <1>3, TaggedIs
<1>5. Items(d) = d[2]["items"][2]
    BY <1>4, ScalarsDiffer DEF Items
<1> QED BY <1>4, <1>5 DEF d, json

LEMMA ContentSent ==
    ASSUME NEW v \in Sendable, v[1] \in {"list", "tuple", "dict"}
    PROVE  Items(Serialize[v]) = [k \in DOMAIN Content(v) |-> Serialize[Content(v)[k]]]
<1>1. CASE v[1] = "dict"
    <2>1. Items(Serialize[v]) = [t \in Texts(v[2]) |-> Serialize[Entry(v[2], t)]]
        BY <1>1, DictSent
    <2>2. Content(v) = [t \in Texts(v[2]) |-> Entry(v[2], t)]
        BY <1>1 DEF Content
    <2> QED BY <2>1, <2>2
<1>2. CASE v[1] # "dict"
    <2>1. Content(v) = v[2]
        BY <1>2 DEF Content
    <2> QED BY <1>2, <2>1, ListSent
<1> QED BY <1>1, <1>2

LEMMA SetSent ==
    ASSUME NEW v \in Sendable, v[1] = "set"
    PROVE  /\ Serialize[v][1] = "object" /\ TagOf(Serialize[v]) = Scalar("set")
           /\ Items(Serialize[v]) = [i \in DOMAIN SetToSeq(v[2]) |-> Serialize[SetToSeq(v[2])[i]]]
           /\ {SetToSeq(v[2])[i] : i \in DOMAIN SetToSeq(v[2])} = v[2]
<1> DEFINE d == Serialize[v]
           order == SetToSeq(v[2])
           json == <<"array", [i \in DOMAIN order |-> Serialize[order[i]]]>>
<1>1. d = SerializeValue(v, [w \in Parts(v) |-> Serialize[w]])
    BY SerializeIs
<1>2. {order[i] : i \in DOMAIN order} = v[2]
    BY ValueAssumption, OrderOf DEF Sendable
<1> HIDE DEF order
<1>3. \A i \in DOMAIN order : order[i] \in Parts(v)
    BY <1>2 DEF Parts
<1> HIDE DEF d
<1>4. d = Tagged("set", "values", json)
    <2> DEFINE J == [w \in Parts(v) |-> Serialize[w]]
    <2>1. [i \in DOMAIN order |-> J[order[i]]] = [i \in DOMAIN order |-> Serialize[order[i]]]
        BY <1>3
    <2>2. d = SerializeValue(v, J)
        BY <1>1
    <2> HIDE DEF J
    <2>3. SerializeValue(v, J) = Tagged("set", "values", <<"array", [i \in DOMAIN order |-> J[order[i]]]>>)
        BY SerializeCases DEF order
    <2> QED BY <2>1, <2>2, <2>3
<1> HIDE DEF d, json
<1>5. d[1] = "object" /\ IsTagged(d) /\ TagOf(d) = Scalar("set") /\ d[2]["values"] = json
    BY <1>4, TaggedIs
<1>6. Items(d) = d[2]["values"][2]
    BY <1>5, ScalarsDiffer DEF Items
<1> QED BY <1>2, <1>5, <1>6 DEF d, json, order

LEMMA AtomSent ==
    ASSUME NEW v \in Sendable, v[1] \in {"scalar", "opaque"} \cup Keyed
    PROVE  LET d == Serialize[v]
           IN  /\ Items(d) = <<>> /\ Parts(v) = {}
               /\ v[1] = "scalar" => d = v
               /\ v[1] \in Keyed => /\ d[1] = "object" /\ TagOf(d) = Scalar(v[1])
                                    /\ d[2]["data"] = Scalar(v[2])
               /\ v[1] = "opaque" => /\ d[1] = "object" /\ TagOf(d) = Scalar("repr")
                                     /\ d[2]["value"] = Scalar(v[2])
<1> DEFINE d == Serialize[v]
<1>1. d = SerializeValue(v, [w \in Parts(v) |-> Serialize[w]])
    BY SerializeIs
<1> HIDE DEF d
<1>2. Parts(v) = {}
    BY DEF Parts, Keyed
<1>3. CASE v[1] = "scalar"
    <2>1. d = v
        BY <1>1, <1>3, SerializeCases
    <2>2. Items(d) = <<>>
        BY <1>3, <2>1 DEF Items, IsTagged
    <2> QED BY <1>2, <1>3, <2>1, <2>2 DEF d, Keyed
<1>4. CASE v[1] \in Keyed
    <2>1. d = Tagged(v[1], "data", Scalar(v[2]))
        BY <1>1, <1>4, SerializeCases
    <2>2. d[1] = "object" /\ IsTagged(d) /\ TagOf(d) = Scalar(v[1]) /\ d[2]["data"] = Scalar(v[2])
        BY <2>1, TaggedIs
    <2>3. Items(d) = <<>>
        BY <1>4, <2>2, ScalarsDiffer DEF Items, Keyed
    <2> QED BY <1>2, <1>4, <2>2, <2>3 DEF d, Keyed
<1>5. CASE v[1] = "opaque"
    <2>1. d = Tagged("repr", "value", Scalar(v[2]))
        BY <1>1, <1>5, SerializeCases
    <2>2. d[1] = "object" /\ IsTagged(d) /\ TagOf(d) = Scalar("repr") /\ d[2]["value"] = Scalar(v[2])
        BY <2>1, TaggedIs
    <2>3. Items(d) = <<>>
        BY <2>2, ScalarsDiffer DEF Items
    <2> QED BY <1>2, <1>5, <2>2, <2>3 DEF d, Keyed
<1> QED BY <1>3, <1>4, <1>5

-----------------------------------------------------------------------------
(* What is read                                                            *)

ItemsOf(d) == {Items(d)[k] : k \in DOMAIN Items(d)}

LEMMA ItemsSent ==
    ASSUME NEW v \in Sendable
    PROVE  ItemsOf(Serialize[v]) \subseteq {Serialize[w] : w \in Parts(v)}
<1>0. v \in Values /\ v[1] # "unpicklable"
    <2>1. v \in Values
        BY DEF Sendable
    <2> QED BY <2>1, SendableIs
<1>1. CASE v[1] \in {"list", "tuple", "dict"}
    <2>1. Items(Serialize[v]) = [k \in DOMAIN Content(v) |-> Serialize[Content(v)[k]]]
        BY <1>1, ContentSent
    <2>2. \A k \in DOMAIN Content(v) : Content(v)[k] \in Parts(v)
        BY <1>0, <1>1, ContentIs
    <2> QED BY <2>1, <2>2 DEF ItemsOf
<1>2. CASE v[1] = "set"
    <2> DEFINE order == SetToSeq(v[2])
    <2>1. /\ Items(Serialize[v]) = [i \in DOMAIN order |-> Serialize[order[i]]]
          /\ {order[i] : i \in DOMAIN order} = v[2]
        BY <1>2, SetSent
    <2>2. v[2] = Parts(v)
        BY <1>2 DEF Parts
    <2> HIDE DEF order
    <2> QED BY <2>1, <2>2 DEF ItemsOf
<1>3. CASE v[1] \in {"scalar", "opaque"} \cup Keyed
    BY <1>3, AtomSent DEF ItemsOf
<1> QED BY <1>0, <1>1, <1>2, <1>3, ValueAssumption

Serialized(n) == {Serialize[v] : v \in SendableAbove(n)}

LEMMA SerializedItems ==
    /\ \A n \in Nat : \A d \in Serialized(n + 1) : ItemsOf(d) \subseteq Serialized(n)
    /\ \A n \in Nat : Serialized(n) \subseteq Serialized(n + 1)
    /\ \A d \in Wire : ItemsOf(d) \subseteq Serialized(RecursionLimit + 1)
    /\ Serialized(RecursionLimit + 1) \subseteq Wire
<1>1. ASSUME NEW n \in Nat, NEW d \in Serialized(n + 1) PROVE ItemsOf(d) \subseteq Serialized(n)
    <2>1. PICK v \in SendableAbove(n + 1) : d = Serialize[v]
        BY DEF Serialized
    <2>2. Parts(v) \subseteq SendableAbove(n)
        BY SendableParts
    <2>3. v \in Sendable
        BY DEF SendableAbove
    <2> QED BY <2>1, <2>2, <2>3, ItemsSent DEF Serialized
<1>2. ASSUME NEW n \in Nat PROVE Serialized(n) \subseteq Serialized(n + 1)
    <2>1. SendableAbove(n) \subseteq SendableAbove(n + 1)
        BY DepthAssumption DEF Above, SendableAbove
    <2> QED BY <2>1 DEF Serialized
<1>3. Serialized(RecursionLimit + 1) = {Serialize[v] : v \in Sendable}
    BY SendableParts DEF Serialized
<1>4. ASSUME NEW d \in Wire PROVE ItemsOf(d) \subseteq {Serialize[v] : v \in Sendable}
    <2>1. CASE \E v \in Sendable : d = Serialize[v]
        <3>1. PICK v \in Sendable : d = Serialize[v]
            BY <2>1
        <3>2. v \in Values
            BY DEF Sendable
        <3>3. Parts(v) \subseteq Sendable
            BY <3>2, SendableIs
        <3> QED BY <3>1, <3>3, ItemsSent
    <2>2. CASE \E v \in Sendable : d = SerializeArgs(<<v>>)
        <3>1. PICK v \in Sendable : d = SerializeArgs(<<v>>)
            BY <2>2
        <3>2. d = <<"array", [i \in {1} |-> Serialize[v]]>>
            BY <3>1 DEF SerializeArgs
        <3>3. Items(d) = [i \in {1} |-> Serialize[v]]
            BY <3>2 DEF Items, IsTagged
        <3> QED BY <3>3 DEF ItemsOf
    <2> QED BY <2>1, <2>2 DEF Wire
<1> QED BY <1>1, <1>2, <1>3, <1>4 DEF Wire

LEMMA DeserializeIs ==
    Deserialize = [d \in Wire |-> DeserializeValue(d, [e \in ItemsOf(d) |-> Deserialize[e]])]
<1> DEFINE Is(f, V) == f = [d \in V |-> DeserializeValue(d, [e \in ItemsOf(d) |-> f[e]])]
           S == {n \in Nat : \E f : Is(f, Serialized(n))}
<1>1. ASSUME NEW V, NEW U, NEW f, Is(f, V), V \subseteq U, \A d \in U : ItemsOf(d) \subseteq V
      PROVE  \E g : Is(g, U)
    <2> DEFINE g == [d \in U |-> DeserializeValue(d, [e \in ItemsOf(d) |-> f[e]])]
    <2>1. ASSUME NEW d \in U
          PROVE  [e \in ItemsOf(d) |-> f[e]] = [e \in ItemsOf(d) |-> g[e]]
        <3>1. \A e \in ItemsOf(d) : e \in V /\ e \in U
            BY <1>1
        <3>2. \A e \in V : f[e] = DeserializeValue(e, [x \in ItemsOf(e) |-> f[x]])
            BY <1>1
        <3>3. \A e \in U : g[e] = DeserializeValue(e, [x \in ItemsOf(e) |-> f[x]])
            OBVIOUS
        <3> HIDE DEF g
        <3> QED BY <3>1, <3>2, <3>3
    <2> HIDE DEF g
    <2>2. \A d \in U : DeserializeValue(d, [e \in ItemsOf(d) |-> f[e]])
                       = DeserializeValue(d, [e \in ItemsOf(d) |-> g[e]])
        BY <2>1
    <2>3. Is(g, U)
        BY <2>2 DEF g
    <2> HIDE DEF Is
    <2> QED BY <2>3
<1>2. 0 \in S
    <2> DEFINE f == [d \in {} |-> DeserializeValue(d, <<>>)]
    <2>1. Is(f, {})
        OBVIOUS
    <2>2. Serialized(0) = {}
        BY SendableParts DEF Serialized
    <2> HIDE DEF f, Is
    <2> QED BY <2>1, <2>2
<1> HIDE DEF Is
<1>3. ASSUME NEW n \in Nat, n \in S PROVE n + 1 \in S
    <2>1. PICK f : Is(f, Serialized(n))
        BY <1>3
    <2>2. \E g : Is(g, Serialized(n + 1))
        BY <1>1, <2>1, SerializedItems
    <2> QED BY <2>2
<1> HIDE DEF S
<1>4. S = Nat
    <2>1. S \in SUBSET Nat
        BY DEF S
    <2> QED BY <1>2, <1>3, <2>1, Induct
<1>5. \E f : Is(f, Serialized(RecursionLimit + 1))
    BY <1>4, DepthAssumption DEF S
<1>6. \E f : Is(f, Wire)
    BY <1>1, <1>5, SerializedItems
<1>7. Is(CHOOSE f : Is(f, Wire), Wire)
    BY <1>6
<1> QED BY <1>7 DEF Is, Deserialize, ItemsOf

LEMMA DeserializeCases ==
    ASSUME NEW d, NEW value, d[1] = "object"
    PROVE  LET each     == Each(d, value)
               elements == Range(each)
           IN  /\ TagOf(d) = Scalar("list") => DeserializeValue(d, value) = Collected("list", elements, each)
               /\ TagOf(d) = Scalar("dict") => DeserializeValue(d, value) = Collected("dict", elements, each)
               /\ TagOf(d) = Scalar("set") =>
                     DeserializeValue(d, value) =
                         IF \A e \in elements : Hashable(e) THEN Collected("set", elements, elements)
                         ELSE Raised
               /\ \A k \in Keyed : TagOf(d) = Scalar(k) =>
                     DeserializeValue(d, value) = <<k, d[2]["data"][2]>>
               /\ TagOf(d) = Scalar("repr") => DeserializeValue(d, value) = Scalar(d[2]["value"][2])
<1> DEFINE each == Each(d, value)
           elements == Range(each)
<1> HIDE DEF each, elements
<1>1. \A x : Scalar(x)[2] = x
    BY DEF Scalar
<1>2. \A x : TagOf(d) = Scalar(x) => (TagOf(d) \in {Scalar(k) : k \in Keyed} <=> x \in Keyed)
    BY <1>1
<1> DEFINE tag == TagOf(d)
<1> HIDE DEF tag
<1>3. DeserializeValue(d, value) =
          CASE tag = Scalar("list") -> Collected("list", elements, each)
            [] tag = Scalar("dict") -> Collected("dict", elements, each)
            [] tag = Scalar("set") ->
                  IF \A e \in elements : Hashable(e) THEN Collected("set", elements, elements) ELSE Raised
            [] tag \in {Scalar(k) : k \in Keyed} -> <<tag[2], d[2]["data"][2]>>
            [] tag = Scalar("repr") -> Scalar(d[2]["value"][2])
            [] OTHER -> d
    BY DEF DeserializeValue, tag, each, elements
<1> QED BY <1>1, <1>2, <1>3, ScalarsDiffer DEF tag, Keyed, each, elements

LEMMA NormalCases ==
    ASSUME NEW v \in Values
    PROVE  /\ v[1] \in {"list", "tuple"} => Normal[v] = <<"list", [i \in DOMAIN v[2] |-> Normal[v[2][i]]]>>
           /\ v[1] = "dict" => Normal[v] = <<"dict", [t \in Texts(v[2]) |-> Normal[Entry(v[2], t)]]>>
           /\ v[1] = "set" => Normal[v] = <<"set", {Normal[e] : e \in v[2]}>>
           /\ v[1] = "opaque" => Normal[v] = Scalar(v[2])
           /\ v[1] \in {"scalar", "unpicklable"} \cup Keyed => Normal[v] = v
           /\ v[1] \in {"list", "tuple"} => Normal[v][1] = "list"
           /\ v[1] \in {"dict", "set"} => Normal[v][1] = v[1]
           /\ Normal[v] # Raised
<1> DEFINE N == [w \in Parts(v) |-> Normal[w]]
<1>1. Normal[v] = NormalValue(v, N)
    BY NormalIs
<1>2. \A w \in Parts(v) : N[w] = Normal[w]
    OBVIOUS
<1> HIDE DEF N
<1>3. CASE v[1] \in {"list", "tuple"}
    <2>1. NormalValue(v, N) = <<"list", [i \in DOMAIN v[2] |-> N[v[2][i]]]>>
        BY <1>3 DEF NormalValue
    <2>2. \A i \in DOMAIN v[2] : v[2][i] \in Parts(v)
        BY <1>3 DEF Parts
    <2>3. [i \in DOMAIN v[2] |-> N[v[2][i]]] = [i \in DOMAIN v[2] |-> Normal[v[2][i]]]
        BY <1>2, <2>2
    <2> QED BY <1>1, <1>3, <2>1, <2>3 DEF Raised, Keyed
<1>4. CASE v[1] = "dict"
    <2>1. NormalValue(v, N) = <<"dict", [t \in Texts(v[2]) |-> N[Entry(v[2], t)]]>>
        BY <1>4 DEF NormalValue
    <2>2. \A t \in Texts(v[2]) : Entry(v[2], t) \in Parts(v)
        BY <1>4, EntryOf DEF Parts
    <2>3. [t \in Texts(v[2]) |-> N[Entry(v[2], t)]] = [t \in Texts(v[2]) |-> Normal[Entry(v[2], t)]]
        BY <1>2, <2>2
    <2> QED BY <1>1, <1>4, <2>1, <2>3 DEF Raised, Keyed
<1>5. CASE v[1] = "set"
    <2>1. NormalValue(v, N) = <<"set", {N[e] : e \in v[2]}>>
        BY <1>5 DEF NormalValue
    <2>2. Parts(v) = v[2]
        BY <1>5 DEF Parts
    <2>3. {N[e] : e \in v[2]} = {Normal[e] : e \in v[2]}
        BY <1>2, <2>2
    <2> QED BY <1>1, <1>5, <2>1, <2>3 DEF Raised, Keyed
<1>6. CASE v[1] = "opaque"
    <2>1. NormalValue(v, N) = Scalar(v[2])
        BY <1>6 DEF NormalValue
    <2> QED BY <1>1, <1>6, <2>1 DEF Raised, Keyed, Scalar
<1>7. CASE v[1] \in {"scalar", "unpicklable"} \cup Keyed
    <2>1. NormalValue(v, N) = v
        BY <1>7 DEF NormalValue, Keyed
    <2>2. v[1] \notin {"list", "tuple", "dict", "set", "opaque", "raised"}
        BY <1>7 DEF Keyed
    <2>3. Raised[1] = "raised"
        BY DEF Raised
    <2> QED BY <1>1, <2>1, <2>2, <2>3
<1> QED BY <1>3, <1>4, <1>5, <1>6, <1>7, ValueAssumption

LEMMA ContentNormal ==
    ASSUME NEW v \in Values, v[1] \in {"list", "tuple", "dict"}
    PROVE  /\ v[1] = "dict" =>
                 Normal[v] = <<"dict", [k \in DOMAIN Content(v) |-> Normal[Content(v)[k]]]>>
           /\ v[1] # "dict" =>
                 Normal[v] = <<"list", [k \in DOMAIN Content(v) |-> Normal[Content(v)[k]]]>>
<1>1. CASE v[1] = "dict"
    <2>1. Normal[v] = <<"dict", [t \in Texts(v[2]) |-> Normal[Entry(v[2], t)]]>>
        BY <1>1, NormalCases
    <2>2. Content(v) = [t \in Texts(v[2]) |-> Entry(v[2], t)]
        BY <1>1 DEF Content
    <2>3. [k \in DOMAIN Content(v) |-> Normal[Content(v)[k]]] = [t \in Texts(v[2]) |-> Normal[Entry(v[2], t)]]
        BY <2>2
    <2> QED BY <1>1, <2>1, <2>3
<1>2. CASE v[1] # "dict"
    <2>1. Content(v) = v[2]
        BY <1>2 DEF Content
    <2> QED BY <1>2, <2>1, NormalCases
<1> QED BY <1>1, <1>2

\* What the far end has instead of v, which can be sent.
Result(v) == IF Settable[v] THEN Normal[v] ELSE Raised

LEMMA ResultCases ==
    ASSUME NEW v \in Values
    PROVE  /\ Result(v) = Raised <=> ~Settable[v]
           /\ Settable[v] => Result(v) = Normal[v]
BY NormalCases DEF Result

LEMMA SettableCases ==
    ASSUME NEW v \in Values
    PROVE  /\ v[1] = "set" => (Settable[v] <=> \A e \in v[2] : Hashable(Normal[e]))
           /\ v[1] # "set" => (Settable[v] <=> \A w \in Arriving(v) : Settable[w])
           /\ Hashable(Normal[v]) => Settable[v]
<1>1. Settable[v] = IF v[1] = "set" THEN \A e \in v[2] : Hashable(Normal[e])
                    ELSE \A w \in Arriving(v) : Settable[w]
    BY SettableIs
<1>2. ASSUME Hashable(Normal[v]) PROVE v[1] # "set" /\ Parts(v) = {}
    <2>1. v[1] \in {"list", "tuple", "dict", "set"} => Normal[v][1] \in {"list", "dict", "set"}
        BY NormalCases
    <2>2. v[1] \notin {"list", "tuple", "dict", "set"}
        BY <1>2, <2>1 DEF Hashable
    <2> QED BY <2>2 DEF Parts
<1>3. Hashable(Normal[v]) => Settable[v]
    BY <1>1, <1>2, ArrivingParts
<1> QED BY <1>1, <1>3

\* A value is read as what it should be, if all that is in it is.
LEMMA ReadsWhole ==
    ASSUME NEW v \in Sendable,
           \A w \in Parts(v) : Deserialize[Serialize[w]] = Result(w)
    PROVE  Deserialize[Serialize[v]] = Result(v)
<1> DEFINE d == Serialize[v]
           value == [e \in ItemsOf(d) |-> Deserialize[e]]
<1>1. Deserialize[d] = DeserializeValue(d, value)
    BY DeserializeIs DEF Wire
<1>2. \A k \in DOMAIN Items(d) : value[Items(d)[k]] = Deserialize[Items(d)[k]]
    BY DEF ItemsOf
<1>v. v \in Values /\ v[1] # "unpicklable"
    <2>1. v \in Values
        BY DEF Sendable
    <2> QED BY <2>1, SendableIs
<1>3. \A w \in Parts(v) : w \in Values
    BY <1>v, DepthAssumption
<1> DEFINE each == Each(d, value)
           elements == Range(each)
<1>e. /\ each = [k \in DOMAIN Items(d) |-> value[Items(d)[k]]]
      /\ elements = {each[k] : k \in DOMAIN Items(d)}
    BY DEF Each, Range
<1> HIDE DEF value, each, elements
\* Lists and dictionaries differ in nothing but their kind.
<1>4. ASSUME NEW kind, NEW c, {c[k] : k \in DOMAIN c} \subseteq Parts(v),
             Normal[v] = <<kind, [k \in DOMAIN c |-> Normal[c[k]]]>>,
             Items(d) = [k \in DOMAIN c |-> Serialize[c[k]]],
             Settable[v] <=> \A k \in DOMAIN c : Settable[c[k]],
             DeserializeValue(d, value) = Collected(kind, elements, each)
      PROVE  Deserialize[d] = Result(v)
    <2>1. \A k \in DOMAIN c : c[k] \in Parts(v)
        BY <1>4
    <2>2. DOMAIN Items(d) = DOMAIN c /\ \A k \in DOMAIN c : Items(d)[k] = Serialize[c[k]]
        BY <1>4
    <2>3. DOMAIN each = DOMAIN c /\ \A k \in DOMAIN c : each[k] = Result(c[k])
        BY <1>2, <1>e, <2>1, <2>2
    <2>5. each = [k \in DOMAIN c |-> each[k]]
        BY <1>e, <2>2
    <2>7. CASE Settable[v]
        <3>1. \A k \in DOMAIN c : each[k] = Normal[c[k]] /\ each[k] # Raised
            BY <1>3, <1>4, <2>1, <2>3, <2>7, NormalCases, ResultCases
        <3>2. each = [k \in DOMAIN c |-> Normal[c[k]]]
            BY <2>5, <3>1
        <3>3. Raised \notin elements
            BY <1>e, <2>2, <3>1
        <3> QED BY <1>1, <1>4, <2>7, <3>2, <3>3 DEF Collected, Result
    <2>8. CASE ~Settable[v]
        <3>1. PICK k \in DOMAIN c : ~Settable[c[k]]
            BY <1>4, <2>8
        <3>2. each[k] = Raised
            BY <1>3, <2>1, <2>3, <3>1, ResultCases
        <3>3. Raised \in elements
            BY <1>e, <2>2, <3>2
        <3> QED BY <1>1, <1>4, <2>8, <3>3 DEF Collected, Result
    <2> QED BY <2>7, <2>8
<1>6. CASE v[1] \in {"list", "tuple", "dict"}
    <2> DEFINE c == Content(v)
    <2>1. /\ {c[k] : k \in DOMAIN c} = Arriving(v)
          /\ {c[k] : k \in DOMAIN c} \subseteq Parts(v)
        BY <1>v, <1>6, ContentIs
    <2>2. Settable[v] <=> \A k \in DOMAIN c : Settable[c[k]]
        <3>1. Settable[v] <=> \A w \in Arriving(v) : Settable[w]
            BY <1>v, <1>6, SettableCases
        <3> HIDE DEF c
        <3> QED BY <2>1, <3>1
    <2>3. Items(d) = [k \in DOMAIN c |-> Serialize[c[k]]]
        BY <1>6, ContentSent
    <2>4. CASE v[1] = "dict"
        <3>1. Normal[v] = <<"dict", [k \in DOMAIN c |-> Normal[c[k]]]>>
            BY <1>v, <1>6, <2>4, ContentNormal
        <3>2. d[1] = "object" /\ TagOf(d) = Scalar("dict")
            BY <2>4, DictSent
        <3> HIDE DEF c, d
        <3>3. DeserializeValue(d, value) = Collected("dict", elements, each)
            BY <3>2, DeserializeCases DEF each, elements
        <3>4. Deserialize[d] = Result(v)
            BY <1>4, <2>1, <2>2, <2>3, <3>1, <3>3
        <3> QED BY <3>4 DEF d
    <2>5. CASE v[1] # "dict"
        <3>1. Normal[v] = <<"list", [k \in DOMAIN c |-> Normal[c[k]]]>>
            BY <1>v, <1>6, <2>5, ContentNormal
        <3>2. d[1] = "object" /\ TagOf(d) = Scalar("list")
            BY <1>6, <2>5, ListSent
        <3> HIDE DEF c, d
        <3>3. DeserializeValue(d, value) = Collected("list", elements, each)
            BY <3>2, DeserializeCases DEF each, elements
        <3>4. Deserialize[d] = Result(v)
            BY <1>4, <2>1, <2>2, <2>3, <3>1, <3>3
        <3> QED BY <3>4 DEF d
    <2> QED BY <2>4, <2>5
<1>7. CASE v[1] = "set"
    <2> DEFINE order == SetToSeq(v[2])
    <2>1. Parts(v) = v[2]
        BY <1>7 DEF Parts
    <2>2. d[1] = "object" /\ TagOf(d) = Scalar("set")
        BY <1>7, SetSent
    <2>3. /\ Items(d) = [i \in DOMAIN order |-> Serialize[order[i]]]
          /\ {order[i] : i \in DOMAIN order} = v[2]
        BY <1>7, SetSent
    <2> HIDE DEF d, order
    <2>4. \A i \in DOMAIN order : each[i] = Result(order[i])
        BY <1>2, <1>e, <2>1, <2>3 DEF d
    <2>5. DeserializeValue(d, value) =
              IF \A e \in elements : Hashable(e) THEN Collected("set", elements, elements) ELSE Raised
        BY <2>2, DeserializeCases DEF each, elements
    <2>6. DOMAIN Items(d) = DOMAIN order
        BY <2>3
    <2>7. elements = {Result(e) : e \in v[2]}
        BY <1>e, <2>3, <2>4, <2>6
    <2>8. Settable[v] <=> \A e \in v[2] : Hashable(Normal[e])
        BY <1>v, <1>7, SettableCases
    <2>9. CASE Settable[v]
        <3>1. \A e \in v[2] : Result(e) = Normal[e] /\ Result(e) # Raised /\ Hashable(Result(e))
            BY <1>3, <2>1, <2>8, <2>9, ResultCases, SettableCases, NormalCases
        <3>2. elements = {Normal[e] : e \in v[2]}
            BY <2>7, <3>1
        <3>3. Normal[v] = <<"set", {Normal[e] : e \in v[2]}>>
            BY <1>v, <1>7, NormalCases
        <3>4. (\A e \in elements : Hashable(e)) /\ Raised \notin elements
            BY <2>7, <3>1
        <3> QED BY <1>1, <2>5, <2>9, <3>2, <3>3, <3>4 DEF Collected, Result, d
    <2>10. CASE ~Settable[v]
        <3>1. PICK e \in v[2] : ~Hashable(Normal[e])
            BY <2>8, <2>10
        <3>2. Result(e) \in elements
            BY <2>7
        <3>3. ~Hashable(Result(e)) \/ Result(e) = Raised
            BY <1>3, <2>1, <3>1 DEF Result
        <3> QED BY <1>1, <2>5, <2>10, <3>2, <3>3 DEF Collected, Result, d
    <2> QED BY <2>9, <2>10
<1>8. CASE v[1] \in {"scalar", "opaque"} \cup Keyed
    <2>1. Parts(v) = {} /\ v[1] # "set"
        BY <1>8, AtomSent DEF Keyed
    <2>2. Settable[v]
        BY <1>v, <2>1, SettableCases, ArrivingParts
    <2>3. CASE v[1] = "scalar"
        <3>1. d = v
            BY <1>8, <2>3, AtomSent
        <3>2. DeserializeValue(v, value) = v
            BY <2>3 DEF DeserializeValue
        <3>3. Normal[v] = v
            BY <1>v, <2>3, NormalCases
        <3> HIDE DEF d
        <3> QED BY <1>1, <2>2, <3>1, <3>2, <3>3 DEF Result, d
    <2>4. CASE v[1] \in Keyed
        <3>1. d[1] = "object" /\ TagOf(d) = Scalar(v[1]) /\ d[2]["data"] = Scalar(v[2])
            BY <1>8, <2>4, AtomSent
        <3> HIDE DEF d
        <3>2. DeserializeValue(d, value) = <<v[1], d[2]["data"][2]>>
            BY <2>4, <3>1, DeserializeCases
        <3>3. v = <<v[1], v[2]>> /\ Scalar(v[2])[2] = v[2]
            BY <1>v, ValueAssumption DEF Scalar
        <3>4. Normal[v] = v
            BY <1>v, <2>4, NormalCases
        <3> QED BY <1>1, <2>2, <3>1, <3>2, <3>3, <3>4 DEF Result, d
    <2>5. CASE v[1] = "opaque"
        <3>1. d[1] = "object" /\ TagOf(d) = Scalar("repr") /\ d[2]["value"] = Scalar(v[2])
            BY <1>8, <2>5, AtomSent
        <3> HIDE DEF d
        <3>2. DeserializeValue(d, value) = Scalar(d[2]["value"][2])
            BY <3>1, DeserializeCases
        <3>3. Scalar(v[2])[2] = v[2]
            BY DEF Scalar
        <3>4. Normal[v] = Scalar(v[2])
            BY <1>v, <2>5, NormalCases
        <3> QED BY <1>1, <2>2, <3>1, <3>2, <3>3, <3>4 DEF Result, d
    <2> QED BY <1>8, <2>3, <2>4, <2>5
<1> QED BY <1>v, <1>6, <1>7, <1>8, ValueAssumption

\* A value that can be sent is read as what JSON makes of it, however deep it is nested and
\* whatever text the keys of its dictionaries have.
THEOREM ValueSurvives ==
    \A v \in Sendable : Deserialize[Serialize[v]] = IF Settable[v] THEN Normal[v] ELSE Raised
<1> DEFINE S == {v \in Values : v \in Sendable => Deserialize[Serialize[v]] = Result(v)}
<1>1. ASSUME NEW v \in Values, Parts(v) \subseteq S PROVE v \in S
    <2> SUFFICES ASSUME v \in Sendable PROVE Deserialize[Serialize[v]] = Result(v)
        OBVIOUS
    <2>1. Parts(v) \subseteq Sendable
        BY SendableIs
    <2>2. \A w \in Parts(v) : Deserialize[Serialize[w]] = Result(w)
        BY <1>1, <2>1
    <2> QED BY <2>2, ReadsWhole
<1> HIDE DEF S
<1>2. Values \subseteq S
    BY <1>1, ByDepth
<1> QED BY <1>2 DEF S, Result, Sendable

\* The arguments are a bare list.
LEMMA ArgsRead ==
    ASSUME NEW v \in Sendable
    PROVE  LET got == Deserialize[SerializeArgs(<<v>>)]
           IN  IF Settable[v] THEN got # Raised /\ got[2][1] = Normal[v] ELSE got = Raised
<1> DEFINE d == SerializeArgs(<<v>>)
           value == [e \in ItemsOf(d) |-> Deserialize[e]]
           each == Each(d, value)
           elements == Range(each)
<1>1. d = <<"array", [i \in {1} |-> Serialize[v]]>>
    BY DEF SerializeArgs
<1>2. Deserialize[d] = DeserializeValue(d, value)
    BY DeserializeIs DEF Wire
<1> HIDE DEF d
<1>3. d[1] = "array" /\ TagOf(d) = Scalar("list") /\ Items(d) = [i \in {1} |-> Serialize[v]]
    BY <1>1 DEF TagOf, IsTagged, Items
<1>4. value[Items(d)[1]] = Deserialize[Serialize[v]]
    BY <1>3 DEF ItemsOf
<1>e. /\ each = [k \in DOMAIN Items(d) |-> value[Items(d)[k]]]
      /\ elements = {each[k] : k \in DOMAIN Items(d)}
    BY DEF Each, Range
<1> HIDE DEF value, each, elements
<1>5. Deserialize[Serialize[v]] = Result(v)
    BY ValueSurvives DEF Result
<1>6. each = [k \in {1} |-> Result(v)] /\ elements = {Result(v)}
    <2>1. DOMAIN Items(d) = {1}
        BY <1>3
    <2> QED BY <1>4, <1>5, <1>e, <2>1
<1>7. DeserializeValue(d, value) = Collected("list", elements, each)
    <2>1. DeserializeValue(d, value) =
              CASE TagOf(d) = Scalar("list") -> Collected("list", elements, each)
                [] TagOf(d) = Scalar("dict") -> Collected("dict", elements, each)
                [] TagOf(d) = Scalar("set") ->
                      IF \A e \in elements : Hashable(e) THEN Collected("set", elements, elements)
                      ELSE Raised
                [] TagOf(d) \in {Scalar(k) : k \in Keyed} -> <<TagOf(d)[2], d[2]["data"][2]>>
                [] TagOf(d) = Scalar("repr") -> Scalar(d[2]["value"][2])
                [] OTHER -> d
        BY <1>3 DEF DeserializeValue, each, elements
    <2>2. TagOf(d) \notin {Scalar(k) : k \in Keyed}
        BY <1>3, ScalarsDiffer DEF Keyed
    <2> QED BY <1>3, <2>1, <2>2, ScalarsDiffer
<1>8. Result(v) = Raised <=> ~Settable[v]
    BY ResultCases DEF Sendable
<1>9. CASE Settable[v]
    <2>1. Deserialize[d] = <<"list", each>> /\ each[1] = Normal[v]
        BY <1>2, <1>6, <1>7, <1>8, <1>9 DEF Collected, Result
    <2>2. Deserialize[d] # Raised
        BY <2>1 DEF Raised
    <2> QED BY <1>9, <2>1, <2>2 DEF d
<1>10. CASE ~Settable[v]
    BY <1>2, <1>6, <1>7, <1>8, <1>10 DEF Collected, d
<1> QED BY <1>9, <1>10

\* What has arrived once arrives again as it is.
LEMMA NormalTwice ==
    \A v \in Values : v \in Sendable /\ Settable[v] =>
        Normal[v] \in Sendable /\ Settable[Normal[v]] /\ Normal[Normal[v]] = Normal[v]
<1> DEFINE Stays(v) == Normal[v] \in Sendable /\ Settable[Normal[v]] /\ Normal[Normal[v]] = Normal[v]
           S == {v \in Values : v \in Sendable /\ Settable[v] => Stays(v)}
<1>1. ASSUME NEW v \in Values, Parts(v) \subseteq S, v \in Sendable, Settable[v]
      PROVE  Stays(v)
    <2> DEFINE u == Normal[v]
    <2>1. u \in Values
        BY <1>1, ValueAssumption DEF Sendable
    <2>2. /\ \A w \in Parts(v) : w \in Values /\ w \in Sendable
          /\ v[1] # "unpicklable"
          /\ v[1] = "dict" => \A k \in DOMAIN v[2] : Text[k] # NoText
        BY <1>1, DepthAssumption, SendableIs
    <2>3. ASSUME NEW kind \in {"list", "dict"}, NEW c, v[1] \in {"list", "tuple", "dict"},
                 {c[k] : k \in DOMAIN c} = Arriving(v),
                 u = <<kind, [k \in DOMAIN c |-> Normal[c[k]]]>>,
                 kind = "dict" => \A k \in DOMAIN c : Text[k] = k /\ k # NoText
          PROVE  Stays(v)
        <3>1. \A k \in DOMAIN c : c[k] \in Arriving(v) /\ c[k] \in Parts(v)
            BY <2>3, ArrivingParts
        <3>2. \A w \in Arriving(v) : Settable[w]
            BY <1>1, <2>3, SettableCases
        <3>3. \A k \in DOMAIN c : /\ Normal[c[k]] \in Sendable /\ Settable[Normal[c[k]]]
                                   /\ Normal[Normal[c[k]]] = Normal[c[k]]
            BY <1>1, <2>2, <3>1, <3>2
        <3>4. /\ DOMAIN u[2] = DOMAIN c /\ \A k \in DOMAIN c : u[2][k] = Normal[c[k]]
              /\ u[2] = [k \in DOMAIN u[2] |-> u[2][k]]
            BY <2>3
        <3>5. u[1] = kind
            BY <2>3
        <3> HIDE DEF u
        <3>6. Parts(u) = {u[2][k] : k \in DOMAIN u[2]}
            BY <2>3, <3>5 DEF Parts
        <3>7. \A w \in Parts(u) : w \in Sendable /\ Settable[w]
            BY <3>3, <3>4, <3>6
        <3>8. u[1] = "dict" => \A k \in DOMAIN u[2] : Text[k] # NoText
            BY <2>3, <3>4, <3>5
        <3>9. u \in Sendable
            BY <2>1, <2>3, <3>5, <3>7, <3>8, SendableIs
        <3>10. Settable[u]
            BY <2>1, <2>3, <3>5, <3>7, SettableCases, ArrivingParts
        <3>11. Content(u) = u[2]
            <4>1. CASE kind = "dict"
                <5>1. \A k \in DOMAIN u[2] : Text[k] = k
                    BY <2>3, <3>4, <4>1
                <5>2. Texts(u[2]) = DOMAIN u[2]
                    BY <5>1 DEF Texts
                <5>3. \A t \in DOMAIN u[2] : Entry(u[2], t) = u[2][t]
                    <6> SUFFICES ASSUME NEW t \in DOMAIN u[2] PROVE Entry(u[2], t) = u[2][t]
                        OBVIOUS
                    <6>1. (CHOOSE k \in DOMAIN u[2] : Text[k] = t) = t
                        BY <5>1
                    <6> QED BY <6>1 DEF Entry
                <5>4. Content(u) = [t \in Texts(u[2]) |-> Entry(u[2], t)]
                    BY <3>5, <4>1 DEF Content
                <5>5. [t \in Texts(u[2]) |-> Entry(u[2], t)] = [t \in DOMAIN u[2] |-> u[2][t]]
                    BY <5>2, <5>3
                <5> QED BY <3>4, <5>4, <5>5
            <4>2. CASE kind = "list"
                BY <3>5, <4>2 DEF Content
            <4> QED BY <2>3, <4>1, <4>2
        <3>12. Normal[u] = <<kind, [k \in DOMAIN u[2] |-> Normal[u[2][k]]]>>
            BY <2>1, <2>3, <3>5, <3>11, ContentNormal
        <3>13. [k \in DOMAIN u[2] |-> Normal[u[2][k]]] = [k \in DOMAIN c |-> Normal[c[k]]]
            BY <3>3, <3>4
        <3>14. Normal[u] = u
            BY <2>3, <3>12, <3>13
        <3> QED BY <3>9, <3>10, <3>14 DEF u
    <2>4. CASE v[1] \in {"list", "tuple", "dict"}
        <3> DEFINE c == Content(v)
        <3>1. {c[k] : k \in DOMAIN c} = Arriving(v)
            BY <2>4, ContentIs
        <3>2. CASE v[1] = "dict"
            <4>1. u = <<"dict", [k \in DOMAIN c |-> Normal[c[k]]]>>
                BY <2>4, <3>2, ContentNormal
            <4>2. DOMAIN c = Texts(v[2])
                BY <3>2 DEF Content
            <4>3. \A k \in DOMAIN v[2] : k \in DOMAIN Text /\ Text[k] # NoText
                BY <2>2, <3>2, ValueAssumption
            <4>4. \A k \in DOMAIN c : Text[k] = k /\ k # NoText
                BY <4>2, <4>3, TextAssumption DEF Texts
            <4> HIDE DEF c, u
            <4> QED BY <2>3, <2>4, <3>1, <4>1, <4>4
        <3>3. CASE v[1] # "dict"
            <4>1. u = <<"list", [k \in DOMAIN c |-> Normal[c[k]]]>>
                BY <2>4, <3>3, ContentNormal
            <4> HIDE DEF c, u
            <4> QED BY <2>3, <2>4, <3>1, <4>1
        <3> QED BY <3>2, <3>3
    <2>6. CASE v[1] = "set"
        <3>1. u = <<"set", {Normal[e] : e \in v[2]}>> /\ u[1] = "set" /\ Parts(v) = v[2]
            BY <2>6, NormalCases DEF Parts
        <3>2. u[2] = {Normal[e] : e \in v[2]}
            BY <3>1
        <3>3. \A e \in v[2] : /\ Hashable(Normal[e]) /\ Normal[Normal[e]] = Normal[e]
                              /\ Normal[e] \in Sendable
            BY <1>1, <2>2, <2>6, <3>1, SettableCases
        <3> HIDE DEF u
        <3>4. \A e \in u[2] : Hashable(Normal[e]) /\ Normal[e] = e /\ e \in Sendable
            BY <3>2, <3>3
        <3>5. Settable[u]
            BY <2>1, <3>1, <3>4, SettableCases
        <3>6. Normal[u] = <<"set", {Normal[e] : e \in u[2]}>>
            BY <2>1, <3>1, NormalCases
        <3>7. {Normal[e] : e \in u[2]} = u[2]
            BY <3>4
        <3>8. Parts(u) = u[2]
            BY <3>1 DEF Parts
        <3>9. u \in Sendable
            BY <2>1, <3>1, <3>4, <3>8, SendableIs
        <3> QED BY <3>1, <3>2, <3>5, <3>6, <3>7, <3>9 DEF u
    <2>7. CASE v[1] = "opaque"
        <3>1. u = Scalar(v[2]) /\ u[1] = "scalar"
            <4>1. u = Scalar(v[2])
                BY <2>7, NormalCases
            <4>2. Scalar(v[2])[1] = "scalar"
                BY DEF Scalar
            <4> QED BY <4>1, <4>2
        <3> HIDE DEF u
        <3>2. Normal[u] = u
            BY <2>1, <3>1, NormalCases
        <3>3. Parts(u) = {}
            BY <3>1 DEF Parts
        <3>4. u \in Sendable
            BY <2>1, <3>1, <3>3, SendableIs
        <3>5. Settable[u]
            BY <2>1, <3>1, <3>3, SettableCases, ArrivingParts
        <3> QED BY <3>2, <3>4, <3>5 DEF u
    <2>8. CASE v[1] \in {"scalar"} \cup Keyed
        <3>1. u = v
            BY <2>8, NormalCases
        <3> QED BY <1>1, <3>1
    <2> QED BY <2>2, <2>4, <2>6, <2>7, <2>8, ValueAssumption
<1>2. \A v \in Values : Parts(v) \subseteq S => v \in S
    BY <1>1
<1> HIDE DEF S
<1>3. Values \subseteq S
    BY <1>2, ByDepth
<1> QED BY <1>3 DEF S

-----------------------------------------------------------------------------
(* The way there and back                                                  *)

\* What the caller has in the end.
ValueOutcome(v) == IF v \in Sendable /\ Settable[v] THEN Normal[v] ELSE Raised

ValueInv ==
    /\ original \in Values
    /\ hops \in 0..2
    /\ hops = 0 => \/ transit = NoValue
                   \/ transit = SerializeArgs(<<original>>) /\ original \in Sendable
    /\ hops = 0 => arrived \in {NoValue, ValueOutcome(original)}
    /\ hops > 0 => arrived = ValueOutcome(original) /\ original \in Sendable
    /\ hops = 1 => transit = NoValue \/ (Settable[original] /\ transit = Serialize[arrived])
    /\ hops = 2 => transit = NoValue

LEMMA ValueStep == ValueInv /\ [ValueNext]_valueVars => ValueInv'
<1> SUFFICES ASSUME ValueInv, [ValueNext]_valueVars PROVE ValueInv'
    OBVIOUS
<1>1. CASE SendArgs
    BY <1>1 DEF SendArgs, ValueInv, ValueOutcome
<1>2. CASE Receive
    <2>1. transit # NoValue /\ transit' = NoValue /\ hops' = hops + 1 /\ original' = original
        BY <1>2 DEF Receive
    <2>2. CASE hops = 0
        <3>1. transit = SerializeArgs(<<original>>) /\ original \in Sendable
            BY <2>1, <2>2 DEF ValueInv
        <3>2. arrived' = LET got == Deserialize[transit] IN IF got # Raised THEN got[2][1] ELSE got
            BY <1>2, <2>2 DEF Receive
        <3>3. arrived' = ValueOutcome(original)
            BY <3>1, <3>2, ArgsRead DEF ValueOutcome
        <3> QED BY <2>1, <2>2, <3>1, <3>3 DEF ValueInv, ValueOutcome
    <2>3. CASE hops = 1
        <3>1. /\ transit = Serialize[arrived] /\ arrived = ValueOutcome(original)
              /\ Settable[original] /\ original \in Sendable /\ original \in Values
            BY <2>1, <2>3 DEF ValueInv
        <3>2. arrived = Normal[original]
            BY <3>1 DEF ValueOutcome
        <3>3. arrived' = Deserialize[transit]
            BY <1>2, <2>3 DEF Receive
        <3>4. /\ Normal[original] \in Sendable /\ Settable[Normal[original]]
              /\ Normal[Normal[original]] = Normal[original]
            BY <3>1, NormalTwice
        <3>5. arrived' = Normal[Normal[original]]
            BY <3>1, <3>2, <3>3, <3>4, ValueSurvives
        <3>6. arrived' = ValueOutcome(original)
            BY <3>1, <3>4, <3>5 DEF ValueOutcome
        <3> QED BY <2>1, <2>3, <3>1, <3>6 DEF ValueInv, ValueOutcome
    <2> QED BY <2>1, <2>2, <2>3 DEF ValueInv
<1>3. CASE Return
    <2>1. /\ hops = 1 /\ arrived # Raised /\ transit' = Serialize[arrived]
          /\ UNCHANGED <<original, arrived, hops>>
        BY <1>3 DEF Return
    <2>2. Settable[original]
        BY <2>1 DEF ValueInv, ValueOutcome
    <2> QED BY <2>1, <2>2 DEF ValueInv, ValueOutcome
<1>4. CASE UNCHANGED valueVars
    BY <1>4 DEF valueVars, ValueInv, ValueOutcome
<1> QED BY <1>1, <1>2, <1>3, <1>4 DEF ValueNext, ValueDone

\* ValueArrives: of a value, nested as it may be, the two conversions and JSON between them make
\* what is expected of it, on the way there and on the way back, or the call raises: for every
\* set of values, and whatever text their keys have.
THEOREM ValuesArrive == ValueSpec => []ValueArrives
<1>1. ValueInit => ValueInv
    BY DEF ValueInit, ValueInv
<1>2. ValueInv => ValueArrives
    BY DEF ValueInv, ValueArrives, ValueOutcome
<1> QED BY <1>1, <1>2, ValueStep, PTL DEF ValueSpec
=============================================================================
