---------------------------- MODULE ListTheorems ----------------------------
(***************************************************************************)
(* Facts about the operators of Lists, for every sequence.  They are       *)
(* recursive, so what they return is shown by induction, in first-order    *)
(* form: a set of numbers that holds 0 and the successor of each of its    *)
(* members is Nat.                                                         *)
(***************************************************************************)
EXTENDS Lists, SequencesExt, SequenceTheorems, WellFoundedInduction, FiniteSetTheorems, TLAPS

-----------------------------------------------------------------------------
(* Induction over Nat                                                      *)

\* A set of natural numbers has a least member.
LEMMA Least ==
    ASSUME NEW S \in SUBSET Nat, S # {}
    PROVE  \E n \in S : \A m \in S : n <= m
<1> DEFINE R == {ss \in Nat \X Nat : ss[1] < ss[2]}
<1>1. IsWellFoundedOn(R, Nat)
    BY NatLessThanWellFounded, Zenon DEF OpToRel
<1>2. PICK x \in S : \A y \in S : ~ (<<y, x>> \in R)
    <2> HIDE DEF R
    <2> QED BY <1>1, WFMin
<1>3. ASSUME NEW y \in S PROVE x <= y
    <2>1. <<y, x>> \notin R
        BY <1>2
    <2>2. ~(y < x)
        BY <2>1
    <2> QED BY <2>2
<1> QED BY <1>3

\* Induction: a set of numbers that is closed under successor and holds 0 is Nat.
LEMMA Induct ==
    ASSUME NEW S \in SUBSET Nat, 0 \in S, \A n \in Nat : n \in S => n + 1 \in S
    PROVE  S = Nat
<1>1. SUFFICES ASSUME Nat \ S # {} PROVE FALSE
    OBVIOUS
<1>2. PICK n \in Nat \ S : \A m \in Nat \ S : n <= m
    BY <1>1, Least
<1>3. n - 1 \in Nat \ S
    BY <1>2
<1> QED BY <1>2, <1>3

\* A finite set of numbers has a greatest member.
LEMMA Greatest ==
    ASSUME NEW S \in SUBSET Nat, IsFiniteSet(S), S # {}
    PROVE  \E n \in S : \A m \in S : n >= m
<1> DEFINE Has(A) == \E n \in A : \A m \in A : n >= m
           C == {n \in Nat : \A A \in SUBSET Nat :
                    IsFiniteSet(A) /\ Cardinality(A) = n /\ A # {} => Has(A)}
<1>1. 0 \in C
    BY FS_EmptySet
<1>2. ASSUME NEW n \in Nat, n \in C PROVE n + 1 \in C
    <2> SUFFICES ASSUME NEW A \in SUBSET Nat, IsFiniteSet(A), Cardinality(A) = n + 1
                 PROVE  Has(A)
        OBVIOUS
    <2>1. PICK x \in A : TRUE
        <3>1. A # {}
            BY FS_EmptySet
        <3> QED BY <3>1
    <2> DEFINE B == A \ {x}
    <2>2. IsFiniteSet(B) /\ Cardinality(B) = n /\ B \in SUBSET Nat
        <3>1. IsFiniteSet(B) /\ Cardinality(B) = Cardinality(A) - 1
            BY FS_RemoveElement
        <3> QED BY <3>1
    <2>3. CASE B = {}
        BY <2>3
    <2>4. CASE B # {}
        <3> HIDE DEF B
        <3>1. PICK y \in B : \A m \in B : y >= m
            BY <1>2, <2>2, <2>4
        <3> DEFINE z == IF x >= y THEN x ELSE y
        <3>2. z \in A /\ \A m \in A : z >= m
            BY <3>1 DEF B
        <3> QED BY <3>2
    <2> QED BY <2>3, <2>4
<1> HIDE DEF C
<1>3. C = Nat
    <2>1. C \in SUBSET Nat
        BY DEF C
    <2> QED BY <1>1, <1>2, <2>1, Induct
<1>4. Cardinality(S) \in C
    BY <1>3, FS_CardinalityType
<1> QED BY <1>4 DEF C

\* f is defined by recursion on 0..N.
Recurs(f, V, base, N, G) ==
    f \in [0..N -> V] /\ f[0] = base /\ \A n \in 1..N : f[n] = G[n][f[n - 1]]

\* A recursive definition on 0..N has a value.
LEMMA Recursion ==
    ASSUME NEW V, NEW base, NEW N, NEW G, base \in V, N \in Nat, G \in [1..N -> [V -> V]]
    PROVE  \E f : Recurs(f, V, base, N, G)
<1> DEFINE S == {n \in Nat : n <= N => \E f : Recurs(f, V, base, n, G)}
<1>1. 0 \in S
    <2>1. Recurs([i \in 0..0 |-> base], V, base, 0, G)
        BY DEF Recurs
    <2> QED BY <2>1
<1>2. ASSUME NEW n \in Nat, n \in S, n + 1 <= N PROVE n + 1 \in S
    <2>1. PICK f : Recurs(f, V, base, n, G)
        BY <1>2
    <2> DEFINE g == [i \in 0..(n + 1) |-> IF i <= n THEN f[i] ELSE G[n + 1][f[n]]]
    <2>2. g \in [0..(n + 1) -> V]
        <3>1. G[n + 1][f[n]] \in V
            BY <1>2, <2>1 DEF Recurs
        <3> QED BY <2>1, <3>1 DEF Recurs
    <2>3. ASSUME NEW i \in 1..(n + 1) PROVE g[i] = G[i][g[i - 1]]
        <3>1. CASE i <= n
            BY <2>1, <3>1 DEF Recurs
        <3>2. CASE i = n + 1
            BY <3>2
        <3> QED BY <3>1, <3>2
    <2>4. g[0] = base
        BY <2>1 DEF Recurs
    <2> HIDE DEF g
    <2>5. Recurs(g, V, base, n + 1, G)
        BY <2>2, <2>3, <2>4 DEF Recurs
    <2> QED BY <2>5
<1> HIDE DEF S
<1>3. S = Nat
    <2>1. S \in SUBSET Nat /\ \A n \in Nat : n \in S /\ ~(n + 1 <= N) => n + 1 \in S
        BY DEF S
    <2> QED BY <1>1, <1>2, <2>1, Induct
<1>4. N \in S
    BY <1>3
<1>5. N <= N
    OBVIOUS
<1> QED BY <1>4, <1>5 DEF S

\* A sequence over a set is one over a larger set.
LEMMA SeqWider ==
    ASSUME NEW S, NEW T, NEW s \in Seq(S), S \subseteq T
    PROVE  s \in Seq(T)
OBVIOUS

-----------------------------------------------------------------------------
(* SubList                                                                 *)

Steps(s, K, f) ==
    /\ f[0] = <<>>
    /\ \A n \in 1..Len(s) : f[n] = IF n \in K THEN Append(f[n - 1], s[n]) ELSE f[n - 1]

\* SubList is the last of its partial lists.
LEMMA SubListSteps ==
    ASSUME NEW T, NEW s \in Seq(T), NEW K
    PROVE  \E f : Steps(s, K, f) /\ SubList(s, K) = f[Len(s)]
<1> DEFINE Fits(f) == f = [n \in 0..Len(s) |->
                        IF n = 0 THEN <<>>
                        ELSE IF n \in K THEN Append(f[n - 1], s[n]) ELSE f[n - 1]]
           F == CHOOSE f : Fits(f)
           G == [n \in 1..Len(s) |-> [t \in Seq(T) |->
                    IF n \in K THEN Append(t, s[n]) ELSE t]]
<1>1. SubList(s, K) = F[Len(s)]
    BY DEF SubList
<1>2. \E f : Fits(f)
    <2>1. G \in [1..Len(s) -> [Seq(T) -> Seq(T)]]
        OBVIOUS
    <2>2. <<>> \in Seq(T) /\ Len(s) \in Nat
        OBVIOUS
    <2>3. PICK f : Recurs(f, Seq(T), <<>>, Len(s), G)
        BY <2>1, <2>2, Recursion
    <2>4. ASSUME NEW n \in 0..Len(s)
          PROVE  f[n] = IF n = 0 THEN <<>>
                        ELSE IF n \in K THEN Append(f[n - 1], s[n]) ELSE f[n - 1]
        <3>1. CASE n = 0
            BY <2>3, <3>1 DEF Recurs
        <3>2. CASE n \in 1..Len(s)
            <4> HIDE DEF G
            <4>1. f[n] = G[n][f[n - 1]]
                BY <2>3, <3>2 DEF Recurs
            <4>2. f[n - 1] \in Seq(T)
                BY <2>3, <3>2 DEF Recurs
            <4> QED BY <3>2, <4>1, <4>2 DEF G
        <3> QED BY <3>1, <3>2
    <2>5. f = [n \in 0..Len(s) |-> f[n]]
        BY <2>3 DEF Recurs
    <2> HIDE DEF G
    <2>6. Fits(f)
        BY <2>4, <2>5
    <2> HIDE DEF Fits
    <2> QED BY <2>6
<1>3. Fits(F)
    <2> HIDE DEF Fits
    <2> QED BY <1>2
<1> HIDE DEF F
<1>4. Steps(s, K, F)
    <2>1. \A n \in 0..Len(s) : F[n] =
                        IF n = 0 THEN <<>>
                        ELSE IF n \in K THEN Append(F[n - 1], s[n]) ELSE F[n - 1]
        BY <1>3
    <2> QED BY <2>1 DEF Steps
<1> QED BY <1>1, <1>4

\* pos tells where the members of t come from: from the positions in K up to n, each
\* once and in their order.
Picks(pos, t, s, K, n) ==
    /\ pos \in [1..Len(t) -> K \cap (1..n)]
    /\ \A i \in 1..Len(t) : t[i] = s[pos[i]]
    /\ \A i, j \in 1..Len(t) : i < j => pos[i] < pos[j]
    /\ \A k \in K \cap (1..n) : \E i \in 1..Len(t) : pos[i] = k

\* SubList returns the members at the positions in K, each once and in their order.
LEMMA SubListPicks ==
    ASSUME NEW T, NEW s \in Seq(T), NEW K
    PROVE  /\ SubList(s, K) \in Seq(T)
           /\ \E pos : Picks(pos, SubList(s, K), s, K, Len(s))
<1>1. PICK f : Steps(s, K, f) /\ SubList(s, K) = f[Len(s)]
    BY SubListSteps
<1> DEFINE S == {n \in Nat : n <= Len(s) =>
                    f[n] \in Seq(T) /\ \E pos : Picks(pos, f[n], s, K, n)}
<1>2. 0 \in S
    <2>1. f[0] = <<>>
        BY <1>1 DEF Steps
    <2>2. Picks(<<>>, <<>>, s, K, 0)
        BY DEF Picks
    <2>3. f[0] \in Seq(T) /\ Picks(<<>>, f[0], s, K, 0)
        BY <2>1, <2>2
    <2> QED BY <2>3
<1>3. ASSUME NEW n \in Nat, n \in S, n + 1 <= Len(s) PROVE n + 1 \in S
    <2>1. f[n] \in Seq(T)
        BY <1>3
    <2>2. PICK pos : Picks(pos, f[n], s, K, n)
        BY <1>3
    <2>3. f[n + 1] = IF n + 1 \in K THEN Append(f[n], s[n + 1]) ELSE f[n]
        BY <1>1, <1>3 DEF Steps
    <2>4. CASE n + 1 \in K
        <3> DEFINE t == Append(f[n], s[n + 1])
                   m == Len(f[n])
                   new == [i \in 1..(m + 1) |-> IF i <= m THEN pos[i] ELSE n + 1]
        <3>1. /\ t \in Seq(T) /\ Len(t) = m + 1 /\ m \in Nat
              /\ t[m + 1] = s[n + 1] /\ \A i \in 1..m : t[i] = f[n][i]
            BY <2>1, <1>3
        <3>2. /\ pos \in [1..m -> K \cap (1..n)]
              /\ \A i \in 1..m : f[n][i] = s[pos[i]]
              /\ \A i, j \in 1..m : i < j => pos[i] < pos[j]
              /\ \A k \in K \cap (1..n) : \E i \in 1..m : pos[i] = k
            BY <2>2 DEF Picks
        <3> HIDE DEF t, m
        <3>3. new \in [1..Len(t) -> K \cap (1..(n + 1))]
            BY <2>4, <3>1, <3>2
        <3>4. ASSUME NEW i \in 1..Len(t) PROVE t[i] = s[new[i]]
            BY <3>1, <3>2
        <3>5. ASSUME NEW i \in 1..Len(t), NEW j \in 1..Len(t), i < j PROVE new[i] < new[j]
            BY <3>1, <3>2, <3>5
        <3>6. ASSUME NEW k \in K \cap (1..(n + 1)) PROVE \E i \in 1..Len(t) : new[i] = k
            <4>1. CASE k = n + 1
                BY <3>1, <4>1
            <4>2. CASE k \in 1..n
                <5>1. PICK i \in 1..m : pos[i] = k
                    BY <3>2, <4>2
                <5> QED BY <3>1, <5>1
            <4> QED BY <4>1, <4>2
        <3> HIDE DEF new
        <3>7. Picks(new, t, s, K, n + 1)
            BY <3>3, <3>4, <3>5, <3>6 DEF Picks
        <3>8. f[n + 1] = t
            BY <2>3, <2>4 DEF t
        <3> QED BY <3>1, <3>7, <3>8
    <2>5. CASE n + 1 \notin K
        <3>1. K \cap (1..(n + 1)) = K \cap (1..n)
            BY <2>5
        <3>2. Picks(pos, f[n], s, K, n + 1)
            BY <2>2, <3>1 DEF Picks
        <3> QED BY <2>1, <2>3, <2>5, <3>2
    <2> QED BY <2>4, <2>5
<1> HIDE DEF S
<1>4. S = Nat
    <2>1. S \in SUBSET Nat /\ \A n \in Nat : n \in S /\ ~(n + 1 <= Len(s)) => n + 1 \in S
        BY DEF S
    <2> QED BY <1>2, <1>3, <2>1, Induct
<1>5. Len(s) \in S
    BY <1>4
<1>6. Len(s) <= Len(s)
    OBVIOUS
<1> QED BY <1>1, <1>5, <1>6 DEF S

\* The same without positions: which values a sublist has.
LEMMA SubListMembers ==
    ASSUME NEW T, NEW s \in Seq(T), NEW K
    PROVE  /\ SubList(s, K) \in Seq(T)
           /\ \A i \in 1..Len(SubList(s, K)) : \E k \in K \cap (1..Len(s)) : SubList(s, K)[i] = s[k]
           /\ \A k \in K \cap (1..Len(s)) : \E i \in 1..Len(SubList(s, K)) : SubList(s, K)[i] = s[k]
<1>1. PICK pos : Picks(pos, SubList(s, K), s, K, Len(s))
    BY SubListPicks
<1>2. SubList(s, K) \in Seq(T)
    BY SubListPicks
<1> DEFINE t == SubList(s, K)
<1> HIDE DEF t
<1>3. Picks(pos, t, s, K, Len(s))
    BY <1>1 DEF t
<1>4. \A i \in 1..Len(t) : \E k \in K \cap (1..Len(s)) : t[i] = s[k]
    <2> TAKE i \in 1..Len(t)
    <2>1. pos[i] \in K \cap (1..Len(s)) /\ t[i] = s[pos[i]]
        BY <1>3 DEF Picks
    <2> QED BY <2>1
<1>5. \A k \in K \cap (1..Len(s)) : \E i \in 1..Len(t) : t[i] = s[k]
    <2> TAKE k \in K \cap (1..Len(s))
    <2>1. PICK i \in 1..Len(t) : pos[i] = k
        BY <1>3 DEF Picks
    <2>2. t[i] = s[pos[i]]
        BY <1>3 DEF Picks
    <2> QED BY <2>1, <2>2
<1> QED BY <1>2, <1>4, <1>5 DEF t

\* A sublist is a list of whatever its members are in.
LEMMA SubListType ==
    ASSUME NEW T, NEW s \in Seq(T), NEW K, NEW U, \A k \in K \cap (1..Len(s)) : s[k] \in U
    PROVE  SubList(s, K) \in Seq(U)
<1> DEFINE t == SubList(s, K)
<1>1. t \in Seq(T) /\ \A i \in 1..Len(t) : \E k \in K \cap (1..Len(s)) : t[i] = s[k]
    BY SubListMembers
<1> HIDE DEF t
<1>2. \A i \in 1..Len(t) : t[i] \in U
    BY <1>1
<1>3. t \in Seq(U)
    BY <1>1, <1>2
<1> QED BY <1>3 DEF t

\* No member is there twice if it was not.
LEMMA SubListOnce ==
    ASSUME NEW T, NEW s \in Seq(T), NEW K, NEW F,
           \A i, j \in 1..Len(s) : F[s[i]] = F[s[j]] => i = j
    PROVE  \A i, j \in 1..Len(SubList(s, K)) : F[SubList(s, K)[i]] = F[SubList(s, K)[j]] => i = j
<1> DEFINE t == SubList(s, K)
<1>1. PICK pos : Picks(pos, t, s, K, Len(s))
    BY SubListPicks
<1>2. Len(t) \in Nat
    BY SubListPicks
<1> HIDE DEF t
<1>3. ASSUME NEW i \in 1..Len(t), NEW j \in 1..Len(t), F[t[i]] = F[t[j]] PROVE i = j
    <2>1. pos[i] = pos[j] /\ pos[i] \in Int
        <3>1. /\ pos[i] \in 1..Len(s) /\ pos[j] \in 1..Len(s)
              /\ t[i] = s[pos[i]] /\ t[j] = s[pos[j]]
            BY <1>1 DEF Picks
        <3>2. F[s[pos[i]]] = F[s[pos[j]]]
            BY <1>3, <3>1
        <3> QED BY <3>1, <3>2
    <2>2. ~(i < j) /\ ~(j < i)
        BY <1>1, <2>1 DEF Picks
    <2> QED BY <1>2, <2>2
<1> QED BY <1>3 DEF t

\* A single position makes a list of one member.
LEMMA SubListOne ==
    ASSUME NEW T, NEW s \in Seq(T), NEW K, NEW n \in K \cap (1..Len(s)),
           \A k \in K \cap (1..Len(s)) : k = n
    PROVE  SubList(s, K) = Append(<<>>, s[n])
<1> DEFINE t == SubList(s, K)
<1>1. PICK pos : Picks(pos, t, s, K, Len(s))
    BY SubListPicks
<1>2. t \in Seq(T) /\ Len(t) \in Nat
    BY SubListPicks
<1> HIDE DEF t
<1>3. \A i \in 1..Len(t) : pos[i] = n /\ t[i] = s[n]
    BY <1>1 DEF Picks
<1>4. \E i \in 1..Len(t) : pos[i] = n
    BY <1>1 DEF Picks
<1>5. Len(t) = 1
    <2>1. ~(1 < Len(t))
        <3> SUFFICES ASSUME 1 < Len(t) PROVE FALSE
            OBVIOUS
        <3>1. 1 \in 1..Len(t) /\ 2 \in 1..Len(t)
            BY <1>2
        <3>2. pos[1] < pos[2] /\ pos[1] = n /\ pos[2] = n /\ n \in Int
            BY <1>1, <1>3, <3>1 DEF Picks
        <3> QED BY <3>2
    <2>2. Len(t) >= 1
        <3>1. PICK i \in 1..Len(t) : pos[i] = n
            BY <1>4
        <3> QED BY <1>2, <3>1
    <2>3. Len(t) \in Nat
        BY <1>2
    <2>4. \A l \in Nat : ~(1 < l) /\ l >= 1 => l = 1
        OBVIOUS
    <2> QED BY <2>1, <2>2, <2>3, <2>4, Zenon
<1>6. t = <<s[n]>>
    BY <1>2, <1>3, <1>5
<1> QED BY <1>6 DEF t

-----------------------------------------------------------------------------
(* Lists from which a member is removed                                    *)

\* RemoveAt moves what comes behind one place forward.
LEMMA RemoveAtMembers ==
    ASSUME NEW T, NEW s \in Seq(T), NEW j \in 1..Len(s)
    PROVE  /\ RemoveAt(s, j) \in Seq(T)
           /\ Len(RemoveAt(s, j)) = Len(s) - 1
           /\ \A i \in 1..(Len(s) - 1) : RemoveAt(s, j)[i] = IF i < j THEN s[i] ELSE s[i + 1]
<1> DEFINE u == SubSeq(s, 1, j - 1)
           v == SubSeq(s, j + 1, Len(s))
<1>1. /\ u \in Seq(T) /\ Len(u) = j - 1 /\ \A i \in 1..(j - 1) : u[i] = s[i]
    OBVIOUS
<1>2. /\ v \in Seq(T) /\ Len(v) = Len(s) - j /\ \A i \in 1..(Len(s) - j) : v[i] = s[i + j]
    OBVIOUS
<1>3. RemoveAt(s, j) = u \o v
    BY DEF RemoveAt
<1> HIDE DEF u, v
<1>4. u \o v \in Seq(T) /\ Len(u \o v) = Len(s) - 1
    BY <1>1, <1>2
<1>5. ASSUME NEW i \in 1..(Len(s) - 1) PROVE (u \o v)[i] = IF i < j THEN s[i] ELSE s[i + 1]
    <2>1. CASE i < j
        <3>1. i \in 1..Len(u)
            BY <1>1, <2>1
        <3>2. (u \o v)[i] = u[i]
            BY <1>1, <1>2, <3>1
        <3> QED BY <1>1, <2>1, <3>1, <3>2
    <2>2. CASE i >= j
        <3>1. (u \o v)[i] = v[i - (j - 1)]
            BY <1>1, <1>2, <2>2
        <3>2. i - (j - 1) \in 1..(Len(s) - j) /\ (i - (j - 1)) + j = i + 1
            BY <2>2
        <3>3. v[i - (j - 1)] = s[(i - (j - 1)) + j]
            BY <1>2, <3>2
        <3> QED BY <2>2, <3>1, <3>2, <3>3
    <2>3. i < j \/ i >= j
        OBVIOUS
    <2> QED BY <2>1, <2>2, <2>3
<1> QED BY <1>3, <1>4, <1>5

\* RemoveFirst takes one occurrence out, and leaves every other member.
LEMMA RemoveFirstAt ==
    ASSUME NEW T, NEW s \in Seq(T), NEW e, \E i \in 1..Len(s) : s[i] = e
    PROVE  \E j \in 1..Len(s) : s[j] = e /\ RemoveFirst(s, e) = RemoveAt(s, j)
<1> DEFINE I == {i \in 1..Len(s) : s[i] = e}
           j == CHOOSE x \in I : \A y \in I : x <= y
<1>1. RemoveFirst(s, e) = RemoveAt(s, j)
    BY DEF RemoveFirst, SelectInSeq, Min
<1>2. j \in I
    <2>1. I \in SUBSET Nat /\ I # {}
        OBVIOUS
    <2> HIDE DEF I
    <2>2. \E x \in I : \A y \in I : x <= y
        BY <2>1, Least
    <2> QED BY <2>2
<1> HIDE DEF j
<1> QED BY <1>1, <1>2

\* RemoveFirst shortens by one and keeps every other value.
LEMMA RemoveFirstMembers ==
    ASSUME NEW T, NEW s \in Seq(T), NEW e, \E i \in 1..Len(s) : s[i] = e
    PROVE  /\ RemoveFirst(s, e) \in Seq(T)
           /\ Len(RemoveFirst(s, e)) = Len(s) - 1
           /\ \A i \in 1..Len(s) : s[i] # e => \E n \in 1..(Len(s) - 1) : RemoveFirst(s, e)[n] = s[i]
<1>1. PICK j \in 1..Len(s) : s[j] = e /\ RemoveFirst(s, e) = RemoveAt(s, j)
    BY RemoveFirstAt
<1>2. /\ RemoveAt(s, j) \in Seq(T) /\ Len(RemoveAt(s, j)) = Len(s) - 1
      /\ \A i \in 1..(Len(s) - 1) : RemoveAt(s, j)[i] = IF i < j THEN s[i] ELSE s[i + 1]
    BY RemoveAtMembers
<1>3. ASSUME NEW i \in 1..Len(s), s[i] # e
      PROVE  \E n \in 1..(Len(s) - 1) : RemoveAt(s, j)[n] = s[i]
    <2>1. Len(s) \in Nat
        OBVIOUS
    <2>2. CASE i < j
        <3>1. i \in 1..(Len(s) - 1) /\ RemoveAt(s, j)[i] = s[i]
            BY <1>2, <2>1, <2>2
        <3> QED BY <3>1
    <2>3. CASE i > j
        <3>1. i - 1 \in 1..(Len(s) - 1) /\ ~(i - 1 < j) /\ (i - 1) + 1 = i
            BY <2>1, <2>3
        <3>2. RemoveAt(s, j)[i - 1] = s[(i - 1) + 1]
            BY <1>2, <3>1
        <3> QED BY <3>1, <3>2
    <2>4. i # j
        BY <1>1, <1>3
    <2> QED BY <2>1, <2>2, <2>3, <2>4
<1> QED BY <1>1, <1>2, <1>3

-----------------------------------------------------------------------------
(* How many members of a list are in a set                                 *)

Count(s, P) == Cardinality({i \in 1..Len(s) : s[i] \in P})

\* The positions of a list are finitely many, and as many as it is long.
LEMMA Positions ==
    ASSUME NEW n \in Nat
    PROVE  IsFiniteSet(1..n) /\ Cardinality(1..n) = n
<1>1. 1 \in Int /\ n \in Int
    OBVIOUS
<1>2. IsFiniteSet(1..n) /\ Cardinality(1..n) = IF 1 > n THEN 0 ELSE n - 1 + 1
    BY <1>1, FS_Interval
<1>3. (IF 1 > n THEN 0 ELSE n - 1 + 1) = n
    OBVIOUS
<1> QED BY <1>2, <1>3

\* A count is a number, and at most the length.
LEMMA CountNat ==
    ASSUME NEW s, Len(s) \in Nat, NEW P
    PROVE  /\ IsFiniteSet({i \in 1..Len(s) : s[i] \in P})
           /\ Count(s, P) \in Nat
           /\ Count(s, P) <= Len(s)
<1>1. IsFiniteSet(1..Len(s)) /\ Cardinality(1..Len(s)) = Len(s)
    BY Positions
<1>2. {i \in 1..Len(s) : s[i] \in P} \subseteq 1..Len(s)
    OBVIOUS
<1> QED BY <1>1, <1>2, FS_Subset, FS_CardinalityType DEF Count

\* When all members count, the count is the length.
LEMMA CountAll ==
    ASSUME NEW P, NEW s \in Seq(P)
    PROVE  Count(s, P) = Len(s)
<1>1. {i \in 1..Len(s) : s[i] \in P} = 1..Len(s)
    OBVIOUS
<1>2. Cardinality(1..Len(s)) = Len(s)
    <2>1. Len(s) \in Nat
        OBVIOUS
    <2> QED BY <2>1, Positions
<1> QED BY <1>1, <1>2 DEF Count

\* A member more counts if it is in the set.
LEMMA CountAppend ==
    ASSUME NEW T, NEW s \in Seq(T), NEW x \in T, NEW P
    PROVE  Count(Append(s, x), P) = Count(s, P) + (IF x \in P THEN 1 ELSE 0)
<1> DEFINE A == {i \in 1..Len(s) : s[i] \in P}
           B == {i \in 1..Len(Append(s, x)) : Append(s, x)[i] \in P}
<1>1. IsFiniteSet(A) /\ Cardinality(A) \in Nat
    <2>1. Len(s) \in Nat
        OBVIOUS
    <2> QED BY <2>1, CountNat DEF Count
<1>2. CASE x \in P
    <2>1. B = A \cup {Len(s) + 1} /\ Len(s) + 1 \notin A
        BY <1>2
    <2> QED BY <1>1, <1>2, <2>1, FS_AddElement DEF Count
<1>3. CASE x \notin P
    <2>1. B = A
        BY <1>3
    <2>2. Count(Append(s, x), P) = Count(s, P) /\ Count(s, P) \in Nat
        BY <1>1, <2>1 DEF Count
    <2> QED BY <1>3, <2>2
<1> QED BY <1>2, <1>3

\* A sublist has as many members in a set as the list has at the positions kept.
LEMMA SubListCount ==
    ASSUME NEW T, NEW s \in Seq(T), NEW K, NEW P
    PROVE  Count(SubList(s, K), P) = Cardinality({k \in K \cap (1..Len(s)) : s[k] \in P})
<1> DEFINE t == SubList(s, K)
           A == {i \in 1..Len(t) : t[i] \in P}
           B == {k \in K \cap (1..Len(s)) : s[k] \in P}
<1>1. PICK pos : Picks(pos, t, s, K, Len(s))
    BY SubListPicks
<1>2. Len(t) \in Nat
    BY SubListPicks
<1> HIDE DEF t
<1> DEFINE g == [i \in A |-> pos[i]]
<1>3. g \in Bijection(A, B)
    <2>1. \A i \in A : pos[i] \in B
        BY <1>1 DEF Picks
    <2>2. \A i, j \in A : pos[i] = pos[j] => i = j
        <3>1. \A i, j \in 1..Len(t) : i < j \/ j < i \/ i = j
            BY <1>2
        <3>2. \A i \in 1..Len(t) : pos[i] \in Int
            BY <1>1 DEF Picks
        <3> QED BY <1>1, <3>1, <3>2 DEF Picks
    <2>3. \A k \in B : \E i \in A : pos[i] = k
        BY <1>1 DEF Picks
    <2> QED BY <2>1, <2>2, <2>3 DEF Bijection, Injection, Surjection, IsInjective
<1>4. IsFiniteSet(A)
    BY <1>2, CountNat
<1>5. Cardinality(A) = Cardinality(B)
    <2> HIDE DEF A, B
    <2>1. ExistsBijection(A, B)
        BY <1>3 DEF ExistsBijection
    <2> QED BY <1>4, <2>1, FS_Bijection
<1> QED BY <1>5 DEF Count, t

-----------------------------------------------------------------------------
(* SumSeq                                                                  *)

Sums(s, f) == f[0] = 0 /\ \A n \in 1..Len(s) : f[n] = f[n - 1] + s[n]

\* SumSeq is the last of its partial sums, which are numbers.
LEMMA SumSteps ==
    ASSUME NEW s \in Seq(Nat)
    PROVE  \E f : /\ Sums(s, f) /\ SumSeq(s) = f[Len(s)]
                  /\ f \in [0..Len(s) -> Nat]
<1> DEFINE Fits(f) == f = [n \in 0..Len(s) |-> IF n = 0 THEN 0 ELSE f[n - 1] + s[n]]
           F == CHOOSE f : Fits(f)
           G == [n \in 1..Len(s) |-> [t \in Nat |-> t + s[n]]]
<1>1. SumSeq(s) = F[Len(s)]
    BY DEF SumSeq
<1>2. \E f : Fits(f)
    <2>1. G \in [1..Len(s) -> [Nat -> Nat]]
        OBVIOUS
    <2>2. 0 \in Nat /\ Len(s) \in Nat
        OBVIOUS
    <2>3. PICK f : Recurs(f, Nat, 0, Len(s), G)
        BY <2>1, <2>2, Recursion
    <2>4. ASSUME NEW n \in 0..Len(s)
          PROVE  f[n] = IF n = 0 THEN 0 ELSE f[n - 1] + s[n]
        <3>1. CASE n = 0
            BY <2>3, <3>1 DEF Recurs
        <3>2. CASE n \in 1..Len(s)
            <4>1. G[n][f[n - 1]] = f[n - 1] + s[n]
                <5>1. n - 1 \in 0..Len(s) /\ f \in [0..Len(s) -> Nat]
                    BY <2>3, <3>2 DEF Recurs
                <5>2. f[n - 1] \in Nat
                    BY <5>1
                <5> QED BY <3>2, <5>2
            <4> HIDE DEF G
            <4>2. f[n] = G[n][f[n - 1]]
                BY <2>3, <3>2 DEF Recurs
            <4> QED BY <3>2, <4>1, <4>2
        <3> QED BY <3>1, <3>2
    <2>5. f = [n \in 0..Len(s) |-> f[n]]
        BY <2>3 DEF Recurs
    <2> HIDE DEF G
    <2>6. Fits(f)
        BY <2>4, <2>5
    <2> HIDE DEF Fits
    <2> QED BY <2>6
<1>3. Fits(F)
    <2> HIDE DEF Fits
    <2> QED BY <1>2
<1> HIDE DEF F
<1>4. Sums(s, F) /\ DOMAIN F = 0..Len(s) /\ F = [n \in 0..Len(s) |-> F[n]]
    <2>1. \A n \in 0..Len(s) : F[n] = IF n = 0 THEN 0 ELSE F[n - 1] + s[n]
        BY <1>3
    <2> QED BY <1>3, <2>1 DEF Sums
<1> DEFINE S == {n \in Nat : n <= Len(s) => F[n] \in Nat}
<1>5. 0 \in S
    BY <1>4 DEF Sums
<1>6. ASSUME NEW n \in Nat, n \in S PROVE n + 1 \in S
    <2>1. CASE n + 1 <= Len(s)
        <3>1. F[n] \in Nat /\ s[n + 1] \in Nat
            BY <1>6, <2>1
        <3>2. n + 1 \in 1..Len(s) /\ (n + 1) - 1 = n
            BY <2>1
        <3> HIDE DEF G, S
        <3>3. F[n + 1] = F[(n + 1) - 1] + s[n + 1]
            BY <1>4, <3>2 DEF Sums
        <3>4. F[n + 1] \in Nat
            BY <3>1, <3>2, <3>3
        <3> QED BY <3>4 DEF S
    <2>2. CASE ~(n + 1 <= Len(s))
        BY <2>2
    <2> QED BY <2>1, <2>2
<1> HIDE DEF S
<1>7. S = Nat
    <2>1. S \in SUBSET Nat
        BY DEF S
    <2> QED BY <1>5, <1>6, <2>1, Induct
<1>8. F \in [0..Len(s) -> Nat]
    <2>1. \A n \in 0..Len(s) : n \in S /\ n <= Len(s)
        BY <1>7
    <2> QED BY <1>4, <2>1 DEF S
<1> QED BY <1>1, <1>4, <1>8

SamePrefix(s, t, m) ==
    /\ m \in Nat /\ m <= Len(s) /\ m <= Len(t)
    /\ \A i \in 1..m : s[i] = t[i]

\* Lists that agree on their first m members have the same m-th partial sum.
LEMMA SumPrefix ==
    ASSUME NEW s \in Seq(Nat), NEW t \in Seq(Nat), NEW f, NEW g, Sums(s, f), Sums(t, g),
           NEW m, SamePrefix(s, t, m)
    PROVE  f[m] = g[m]
<1> DEFINE S == {n \in Nat : n <= m => f[n] = g[n]}
<1>1. 0 \in S
    BY DEF Sums
<1>2. ASSUME NEW n \in Nat, n \in S PROVE n + 1 \in S
    <2>1. CASE n + 1 <= m
        <3>1. f[n] = g[n] /\ f[n + 1] = f[n] + s[n + 1] /\ g[n + 1] = g[n] + t[n + 1]
            BY <1>2, <2>1 DEF Sums, SamePrefix
        <3>2. s[n + 1] = t[n + 1]
            BY <2>1 DEF SamePrefix
        <3> QED BY <3>1, <3>2
    <2>2. CASE ~(n + 1 <= m)
        BY <2>2
    <2> QED BY <2>1, <2>2
<1> HIDE DEF S
<1>3. S = Nat
    <2>1. S \in SUBSET Nat
        BY DEF S
    <2> QED BY <1>1, <1>2, <2>1, Induct
<1>4. m \in S /\ m <= m
    BY <1>3 DEF SamePrefix
<1> QED BY <1>4 DEF S

\* A sum of numbers is a number.
LEMMA SumNat ==
    ASSUME NEW s \in Seq(Nat)
    PROVE  SumSeq(s) \in Nat
<1>1. PICK f : SumSeq(s) = f[Len(s)] /\ f \in [0..Len(s) -> Nat]
    BY SumSteps
<1>2. Len(s) \in 0..Len(s)
    OBVIOUS
<1> QED BY <1>1, <1>2

LEMMA SumEmpty == SumSeq(<<>>) = 0
<1>1. <<>> \in Seq(Nat) /\ Len(<<>>) = 0
    OBVIOUS
<1> QED BY <1>1, SumSteps DEF Sums

\* A sum grows by what is appended.
LEMMA SumAppend ==
    ASSUME NEW s \in Seq(Nat), NEW x \in Nat
    PROVE  SumSeq(s) \in Nat /\ SumSeq(Append(s, x)) = SumSeq(s) + x
<1>1. PICK f : Sums(s, f) /\ SumSeq(s) = f[Len(s)] /\ f \in [0..Len(s) -> Nat]
    BY SumSteps
<1> DEFINE t == Append(s, x)
<1>2. /\ t \in Seq(Nat) /\ Len(t) = Len(s) + 1 /\ t[Len(s) + 1] = x /\ Len(s) \in Nat
      /\ \A i \in 1..Len(s) : s[i] = t[i]
    OBVIOUS
<1> HIDE DEF t
<1>3. PICK g : Sums(t, g) /\ SumSeq(t) = g[Len(t)]
    BY <1>2, SumSteps
<1>4. f[Len(s)] = g[Len(s)]
    <2>1. SamePrefix(s, t, Len(s))
        BY <1>2 DEF SamePrefix
    <2> QED BY <1>1, <1>2, <1>3, <2>1, SumPrefix
<1>5. g[Len(s) + 1] = g[Len(s)] + t[Len(s) + 1]
    BY <1>2, <1>3 DEF Sums
<1> QED BY <1>1, <1>2, <1>3, <1>4, <1>5 DEF t

\* The weights of the members of a list, and what they add up to.
Weights(s, W) == [i \in 1..Len(s) |-> W[s[i]]]
Weight(s, W)  == SumSeq(Weights(s, W))

\* So does a sum of weights.
LEMMA WeightAppend ==
    ASSUME NEW T, NEW W \in [T -> Nat], NEW s \in Seq(T), NEW x \in T
    PROVE  /\ Weight(<<>>, W) = 0
           /\ Weight(s, W) \in Nat
           /\ Weight(Append(s, x), W) = Weight(s, W) + W[x]
<1>1. Weights(s, W) \in Seq(Nat)
    BY DEF Weights
<1>2. Weights(<<>>, W) = <<>>
    BY DEF Weights
<1>3. Weights(Append(s, x), W) = Append(Weights(s, W), W[x])
    <2> DEFINE u == Weights(Append(s, x), W)
               v == Append(Weights(s, W), W[x])
    <2>1. u = [i \in 1..(Len(s) + 1) |-> u[i]] /\ v = [i \in 1..(Len(s) + 1) |-> v[i]]
        BY DEF Weights
    <2>2. \A i \in 1..(Len(s) + 1) : u[i] = v[i]
        BY DEF Weights
    <2> HIDE DEF u, v
    <2>3. u = v
        BY <2>1, <2>2
    <2> QED BY <2>3 DEF u, v
<1>4. W[x] \in Nat
    OBVIOUS
<1> QED BY <1>1, <1>2, <1>3, <1>4, SumEmpty, SumAppend DEF Weight

\* A list weighs as much as the members at the positions in K and the others together.
LEMMA WeightSplit ==
    ASSUME NEW T, NEW W \in [T -> Nat], NEW s \in Seq(T), NEW K, NEW L,
           \A n \in 1..Len(s) : n \in K <=> n \notin L
    PROVE  Weight(SubList(s, K), W) + Weight(SubList(s, L), W) = Weight(s, W)
<1>1. PICK f : Steps(s, K, f) /\ SubList(s, K) = f[Len(s)]
    BY SubListSteps
<1>2. PICK g : Steps(s, L, g) /\ SubList(s, L) = g[Len(s)]
    BY SubListSteps
<1>3. Weights(s, W) \in Seq(Nat) /\ Len(Weights(s, W)) = Len(s)
      /\ \A n \in 1..Len(s) : Weights(s, W)[n] = W[s[n]]
    BY DEF Weights
<1>4. PICK h : /\ Sums(Weights(s, W), h) /\ Weight(s, W) = h[Len(s)]
               /\ h \in [0..Len(s) -> Nat]
    BY <1>3, SumSteps DEF Weight
<1> DEFINE S == {n \in Nat : n <= Len(s) =>
                    /\ f[n] \in Seq(T) /\ g[n] \in Seq(T)
                    /\ Weight(f[n], W) + Weight(g[n], W) = h[n]}
<1>5. 0 \in S
    <2>1. f[0] = <<>> /\ g[0] = <<>> /\ h[0] = 0
        BY <1>1, <1>2, <1>4 DEF Steps, Sums
    <2>2. <<>> \in Seq(T) /\ Weight(<<>>, W) = 0
        <3>1. Weights(<<>>, W) = <<>>
            BY DEF Weights
        <3> QED BY <3>1, SumEmpty DEF Weight
    <2>3. /\ f[0] \in Seq(T) /\ g[0] \in Seq(T)
          /\ Weight(f[0], W) + Weight(g[0], W) = h[0]
        BY <2>1, <2>2
    <2> QED BY <2>3
<1>6. ASSUME NEW n \in Nat, n \in S, n + 1 <= Len(s) PROVE n + 1 \in S
    <2>1. /\ f[n] \in Seq(T) /\ g[n] \in Seq(T)
          /\ Weight(f[n], W) + Weight(g[n], W) = h[n]
        BY <1>6
    <2>2. /\ n + 1 \in 1..Len(s) /\ (n + 1) - 1 = n /\ s[n + 1] \in T
          /\ W[s[n + 1]] \in Nat
        BY <1>6
    <2>3. h[n + 1] = h[n] + W[s[n + 1]]
        BY <1>3, <1>4, <2>2 DEF Sums
    <2>4. /\ f[n + 1] = IF n + 1 \in K THEN Append(f[n], s[n + 1]) ELSE f[n]
          /\ g[n + 1] = IF n + 1 \in L THEN Append(g[n], s[n + 1]) ELSE g[n]
        BY <1>1, <1>2, <2>2 DEF Steps
    <2>5. /\ Weight(f[n], W) \in Nat /\ Weight(g[n], W) \in Nat
          /\ Weight(Append(f[n], s[n + 1]), W) = Weight(f[n], W) + W[s[n + 1]]
          /\ Weight(Append(g[n], s[n + 1]), W) = Weight(g[n], W) + W[s[n + 1]]
        <3>1. /\ Weight(f[n], W) \in Nat
              /\ Weight(Append(f[n], s[n + 1]), W) = Weight(f[n], W) + W[s[n + 1]]
            BY <2>1, <2>2, WeightAppend
        <3>2. /\ Weight(g[n], W) \in Nat
              /\ Weight(Append(g[n], s[n + 1]), W) = Weight(g[n], W) + W[s[n + 1]]
            BY <2>1, <2>2, WeightAppend
        <3> QED BY <3>1, <3>2
    <2>6. Append(f[n], s[n + 1]) \in Seq(T) /\ Append(g[n], s[n + 1]) \in Seq(T)
        BY <2>1, <2>2
    <2>7. CASE n + 1 \in K
        <3>1. f[n + 1] = Append(f[n], s[n + 1]) /\ g[n + 1] = g[n]
            BY <2>2, <2>4, <2>7
        <3>2. f[n + 1] \in Seq(T) /\ g[n + 1] \in Seq(T)
            BY <2>1, <2>6, <3>1
        <3>3. Weight(f[n + 1], W) + Weight(g[n + 1], W) = h[n + 1]
            BY <2>1, <2>2, <2>3, <2>5, <3>1
        <3> QED BY <3>2, <3>3
    <2>8. CASE n + 1 \notin K
        <3>1. f[n + 1] = f[n] /\ g[n + 1] = Append(g[n], s[n + 1])
            BY <2>2, <2>4, <2>8
        <3>2. f[n + 1] \in Seq(T) /\ g[n + 1] \in Seq(T)
            BY <2>1, <2>6, <3>1
        <3>3. Weight(f[n + 1], W) + Weight(g[n + 1], W) = h[n + 1]
            BY <2>1, <2>2, <2>3, <2>5, <3>1
        <3> QED BY <3>2, <3>3
    <2> QED BY <2>7, <2>8
<1> HIDE DEF S
<1>7. S = Nat
    <2>1. S \in SUBSET Nat /\ \A n \in Nat : n \in S /\ ~(n + 1 <= Len(s)) => n + 1 \in S
        BY DEF S
    <2> QED BY <1>5, <1>6, <2>1, Induct
<1>8. Len(s) \in S /\ Len(s) <= Len(s)
    BY <1>7
<1> QED BY <1>1, <1>2, <1>4, <1>8 DEF S
=============================================================================
