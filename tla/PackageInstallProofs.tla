------------------------ MODULE PackageInstallProofs ------------------------
(***************************************************************************)
(* Proofs about cpip install and the wheel cache, for any number of        *)
(* processes that share it, any wheels and any limit.                      *)
(***************************************************************************)
EXTENDS PackageInstall, ListTheorems

-----------------------------------------------------------------------------
(* What the cache's operators do to an index                               *)

\* An index all of whose entries are in U, with one for each key.
Index(idx, U) ==
    /\ idx \in Seq(U)
    /\ \A i, n \in DOMAIN idx : idx[i].key = idx[n].key => i = n

SizeFcn == [e \in Entries |-> e.size]

\* What it means to be an index, spelled out for the provers.
LEMMA IndexDomain ==
    ASSUME NEW U, NEW idx, Index(idx, U)
    PROVE  /\ idx \in Seq(U) /\ DOMAIN idx = 1..Len(idx) /\ Len(idx) \in Nat
           /\ \A i \in 1..Len(idx) : idx[i] \in U
           /\ \A i, n \in 1..Len(idx) : idx[i].key = idx[n].key => i = n
BY DEF Index

\* Total is the weight of the entries.
LEMMA TotalWeight ==
    ASSUME NEW idx \in Seq(Entries)
    PROVE  Total(idx) = Weight(idx, SizeFcn)
<1>1. DOMAIN idx = 1..Len(idx) /\ \A i \in 1..Len(idx) : idx[i] \in Entries
    OBVIOUS
<1>2. [i \in DOMAIN idx |-> idx[i].size] = [i \in 1..Len(idx) |-> SizeFcn[idx[i]]]
    BY <1>1 DEF SizeFcn
<1> QED BY <1>2 DEF Total, Weight, Weights

\* Every entry has a size.
LEMMA SizeFcnType == SizeFcn \in [Entries -> Nat]
BY DEF SizeFcn, Entries

\* A list of some of the entries of an index is one, and no heavier.
LEMMA SubIndex ==
    ASSUME NEW U \in SUBSET Entries, NEW idx, Index(idx, U), NEW K
    PROVE  /\ Index(SubList(idx, K), U)
           /\ Total(SubList(idx, K)) \in Nat /\ Total(SubList(idx, K)) <= Total(idx)
<1> DEFINE F == [e \in Entries |-> e.key]
           t == SubList(idx, K)
           u == SubList(idx, (1..Len(idx)) \ K)
<1>1. /\ idx \in Seq(U) /\ idx \in Seq(Entries)
      /\ \A i, n \in 1..Len(idx) : F[idx[i]] = F[idx[n]] => i = n
    <2>1. idx \in Seq(U) /\ \A i \in 1..Len(idx) : idx[i] \in Entries
        BY IndexDomain
    <2>2. idx \in Seq(Entries)
        BY <2>1, SeqWider
    <2> QED BY <2>1, <2>2, IndexDomain
<1> HIDE DEF F
<1>2. t \in Seq(U) /\ t \in Seq(Entries)
    <2>1. t \in Seq(U)
        BY <1>1, SubListMembers
    <2> HIDE DEF t
    <2> QED BY <2>1, SeqWider
<1>3. \A i, n \in 1..Len(t) : F[t[i]] = F[t[n]] => i = n
    BY <1>1, SubListOnce
<1>4. Index(t, U)
    <2> HIDE DEF t
    <2>1. DOMAIN t = 1..Len(t) /\ \A i \in 1..Len(t) : t[i] \in Entries
        BY <1>2
    <2> QED BY <1>2, <1>3, <2>1 DEF F, Index
<1>5. Weight(t, SizeFcn) + Weight(u, SizeFcn) = Weight(idx, SizeFcn)
    <2>1. \A n \in 1..Len(idx) : n \in K <=> n \notin (1..Len(idx)) \ K
        OBVIOUS
    <2> QED BY <1>1, <2>1, SizeFcnType, WeightSplit
<1>6. u \in Seq(Entries)
    BY <1>1, SubListMembers
<1> HIDE DEF t, u
<1>7. Weight(t, SizeFcn) \in Nat /\ Weight(u, SizeFcn) \in Nat
    <2>1. \A s \in Seq(Entries) : Weights(s, SizeFcn) \in Seq(Nat)
        BY SizeFcnType DEF Weights
    <2> QED BY <1>2, <1>6, <2>1, SumNat DEF Weight
<1>8. Total(t) \in Nat /\ Total(t) <= Total(idx)
    BY <1>1, <1>2, <1>5, <1>7, TotalWeight
<1> QED BY <1>4, <1>8 DEF t

\* The cache's size is a number.
LEMMA TotalNat ==
    ASSUME NEW idx \in Seq(Entries)
    PROVE  Total(idx) \in Nat
<1>1. Weights(idx, SizeFcn) \in Seq(Nat)
    BY SizeFcnType DEF Weights
<1> QED BY <1>1, SumNat, TotalWeight DEF Weight

\* The empty index is one, of size zero.
LEMMA EmptyIndex ==
    ASSUME NEW U
    PROVE  Index(<<>>, U) /\ Total(<<>>) = 0
<1>1. [i \in DOMAIN <<>> |-> <<>>[i].size] = <<>>
    OBVIOUS
<1> QED BY <1>1, SumEmpty DEF Index, Total

\* Without drops the entry of the key.
LEMMA WithoutIndex ==
    ASSUME NEW U \in SUBSET Entries, NEW idx, Index(idx, U), NEW k
    PROVE  /\ Index(Without(idx, k), U)
           /\ \A i \in DOMAIN Without(idx, k) : Without(idx, k)[i].key # k
           /\ Total(Without(idx, k)) \in Nat /\ Total(Without(idx, k)) <= Total(idx)
<1> DEFINE K == {i \in DOMAIN idx : idx[i].key # k}
           t == SubList(idx, K)
<1>1. Without(idx, k) = t
    BY DEF Without
<1>2. Index(t, U) /\ Total(t) \in Nat /\ Total(t) <= Total(idx)
    BY SubIndex
<1>3. \A i \in 1..Len(t) : \E n \in K \cap (1..Len(idx)) : t[i] = idx[n]
    <2> HIDE DEF K
    <2> QED BY IndexDomain, SubListMembers
<1>4. DOMAIN t = 1..Len(t)
    BY <1>2, IndexDomain
<1> HIDE DEF t
<1> QED BY <1>1, <1>2, <1>3, <1>4

\* An entry for a key that has none is added at the end.
LEMMA AddIndex ==
    ASSUME NEW U \in SUBSET Entries, NEW idx, Index(idx, U), NEW e \in U,
           \A i \in DOMAIN idx : idx[i].key # e.key
    PROVE  Index(Append(idx, e), U) /\ Total(Append(idx, e)) = Total(idx) + e.size
<1>1. /\ idx \in Seq(U) /\ DOMAIN idx = 1..Len(idx) /\ Len(idx) \in Nat
      /\ \A i, n \in 1..Len(idx) : idx[i].key = idx[n].key => i = n
    BY IndexDomain
<1>2. Index(Append(idx, e), U)
    <2>1. /\ Append(idx, e) \in Seq(U) /\ DOMAIN Append(idx, e) = 1..(Len(idx) + 1)
          /\ Append(idx, e)[Len(idx) + 1] = e
          /\ \A i \in 1..Len(idx) : Append(idx, e)[i] = idx[i]
        BY <1>1
    <2>2. \A i \in 1..(Len(idx) + 1) : i \in 1..Len(idx) \/ i = Len(idx) + 1
        BY <1>1
    <2> QED BY <1>1, <2>1, <2>2 DEF Index
<1>3. idx \in Seq(Entries) /\ e \in Entries /\ Append(idx, e) \in Seq(Entries)
    <2>1. idx \in Seq(Entries)
        BY <1>1, SeqWider
    <2> QED BY <2>1
<1>4. Weight(Append(idx, e), SizeFcn) = Weight(idx, SizeFcn) + SizeFcn[e]
    BY <1>3, SizeFcnType, WeightAppend
<1> QED BY <1>2, <1>3, <1>4, TotalWeight DEF SizeFcn

\* The end of an index from a position on is an index.
LEMMA SuffixIndex ==
    ASSUME NEW U \in SUBSET Entries, NEW idx, Index(idx, U), NEW n \in 0..Len(idx)
    PROVE  Index(SubSeq(idx, n + 1, Len(idx)), U)
<1> DEFINE t == SubSeq(idx, n + 1, Len(idx))
<1>1. /\ idx \in Seq(U) /\ Len(idx) \in Nat
      /\ \A i, m \in 1..Len(idx) : idx[i].key = idx[m].key => i = m
    BY IndexDomain
<1>2. /\ t \in Seq(U) /\ Len(t) = Len(idx) - n /\ DOMAIN t = 1..(Len(idx) - n)
      /\ \A i \in 1..(Len(idx) - n) : t[i] = idx[i + n]
    BY <1>1
<1>3. \A i \in 1..(Len(idx) - n) : i + n \in 1..Len(idx)
    BY <1>1
<1> HIDE DEF t
<1>4. ASSUME NEW i \in 1..(Len(idx) - n), NEW m \in 1..(Len(idx) - n), t[i].key = t[m].key
      PROVE  i = m
    <2>1. idx[i + n].key = idx[m + n].key
        BY <1>2, <1>4
    <2>2. i + n = m + n
        BY <1>1, <1>3, <2>1
    <2> QED BY <1>1, <2>2
<1> QED BY <1>2, <1>4 DEF Index, t

\* There is a number of entries to remove that brings the total down to the limit: all
\* of them, if need be.  So what is kept is within it.
LEMMA KeptIndex ==
    ASSUME NEW U \in SUBSET Entries, NEW idx, Index(idx, U)
    PROVE  Index(Kept(idx), U) /\ Total(Kept(idx)) \in Nat /\ Total(Kept(idx)) <= Limit
<1> DEFINE Rest(n) == Total(SubSeq(idx, n + 1, Len(idx)))
           S == {n \in 0..Len(idx) : Rest(n) <= Limit}
<1>1. idx \in Seq(U) /\ Len(idx) \in Nat /\ Limit \in Nat
    BY IndexDomain, CacheAssumption
<1>2. \A n \in 0..Len(idx) : Rest(n) \in Nat
    <2> TAKE n \in 0..Len(idx)
    <2>1. SubSeq(idx, n + 1, Len(idx)) \in Seq(Entries)
        BY SuffixIndex, SeqWider DEF Index
    <2> QED BY <2>1, TotalNat
<1>3. Len(idx) \in S
    <2>1. SubSeq(idx, Len(idx) + 1, Len(idx)) = <<>>
        BY <1>1
    <2>2. Rest(Len(idx)) = 0
        BY <2>1, EmptyIndex
    <2>3. Len(idx) \in 0..Len(idx) /\ 0 <= Limit
        BY <1>1
    <2> HIDE DEF Rest
    <2> QED BY <2>2, <2>3
<1>4. \E n \in 0..Len(idx) : Rest(n) <= Limit /\ \A m \in 0..(n - 1) : Rest(m) > Limit
    <2>1. S \in SUBSET Nat
        BY <1>1
    <2>2. PICK n \in S : \A m \in S : n <= m
        <3> HIDE DEF S
        <3> QED BY <1>3, <2>1, Least
    <2>3. ASSUME NEW m \in 0..(n - 1) PROVE Rest(m) > Limit
        <3>0. n \in 0..Len(idx)
            OBVIOUS
        <3>1. m \notin S /\ m \in 0..Len(idx)
            <4> HIDE DEF S
            <4> QED BY <1>1, <2>2, <3>0
        <3>2. Rest(m) \in Nat /\ ~(Rest(m) <= Limit)
            BY <1>2, <3>1
        <3> HIDE DEF Rest
        <3> QED BY <1>1, <3>2
    <2> QED BY <2>2, <2>3
<1>5. Evicted(idx) \in 0..Len(idx) /\ Rest(Evicted(idx)) <= Limit
    BY <1>4 DEF Evicted
<1> QED BY <1>2, <1>5, SuffixIndex DEF Kept

\* No wheel is larger than MaxSize.
LEMMA SizeBound ==
    /\ MaxSize \in Nat
    /\ \A k \in Keys, body \in Bodies :
           Size(FileOf[k], body) \in Nat /\ Size(FileOf[k], body) <= MaxSize
<1> DEFINE S == {SizeOf[f] : f \in Files}
<1>1. /\ S \in SUBSET Nat /\ S # {} /\ \A n \in S : n >= 1
      /\ \A k \in Keys : SizeOf[FileOf[k]] \in S
    BY CacheAssumption
<1>2. IsFiniteSet(S)
    <2> DEFINE g == [f \in Files |-> SizeOf[f]]
    <2>1. g \in Surjection(Files, S)
        BY DEF Surjection
    <2> HIDE DEF g, S
    <2> QED BY <2>1, FS_Surjection, CacheAssumption
<1>3. MaxSize = CHOOSE x \in S : \A y \in S : x >= y
    BY DEF MaxSize, Max
<1> HIDE DEF S
<1>4. \E x \in S : \A y \in S : x >= y
    BY <1>1, <1>2, Greatest
<1>5. MaxSize \in S /\ \A y \in S : MaxSize >= y
    BY <1>3, <1>4
<1> QED BY <1>1, <1>5 DEF Size

\* The entry that is found for a key.
LEMMA FoundEntry ==
    ASSUME NEW U \in SUBSET Entries, NEW idx, Index(idx, U), NEW k, Has(idx, k)
    PROVE  /\ EntryOf(idx, k) \in U /\ EntryOf(idx, k).key = k
           /\ Total(Without(idx, k)) + EntryOf(idx, k).size = Total(idx)
<1> DEFINE j == CHOOSE i \in DOMAIN idx : idx[i].key = k
           K == {i \in DOMAIN idx : idx[i].key # k}
           L == {i \in DOMAIN idx : idx[i].key = k}
<1>1. /\ idx \in Seq(U) /\ DOMAIN idx = 1..Len(idx) /\ Len(idx) \in Nat
      /\ \A i \in 1..Len(idx) : idx[i] \in U
      /\ \A i, n \in 1..Len(idx) : idx[i].key = idx[n].key => i = n
    BY IndexDomain
<1>2. EntryOf(idx, k) = idx[j] /\ j \in DOMAIN idx /\ idx[j].key = k
    BY DEF EntryOf, Has
<1>3. j \in L \cap (1..Len(idx)) /\ \A i \in L \cap (1..Len(idx)) : i = j
    BY <1>1, <1>2
<1>4. idx \in Seq(Entries) /\ idx[j] \in Entries
    BY <1>1, <1>2, SeqWider
<1>5. \A n \in 1..Len(idx) : n \in K <=> n \notin L
    BY <1>1
<1>6. Without(idx, k) = SubList(idx, K)
    BY DEF Without
<1> HIDE DEF j, K, L
<1>7. SubList(idx, L) = Append(<<>>, idx[j])
    BY <1>1, <1>3, SubListOne
<1>8. Weight(SubList(idx, K), SizeFcn) + Weight(SubList(idx, L), SizeFcn) = Weight(idx, SizeFcn)
    BY <1>4, <1>5, SizeFcnType, WeightSplit
<1>9. Weight(Append(<<>>, idx[j]), SizeFcn) = idx[j].size
    <2>1. <<>> \in Seq(Entries) /\ Weight(<<>>, SizeFcn) = 0
        BY <1>4, SizeFcnType, WeightAppend
    <2>2. Weight(Append(<<>>, idx[j]), SizeFcn) = 0 + SizeFcn[idx[j]]
        BY <1>4, <2>1, SizeFcnType, WeightAppend
    <2>3. SizeFcn[idx[j]] = idx[j].size /\ idx[j].size \in Nat
        BY <1>4 DEF SizeFcn, Entries
    <2> QED BY <2>2, <2>3
<1>10. Total(Without(idx, k)) = Weight(SubList(idx, K), SizeFcn)
       /\ Total(idx) = Weight(idx, SizeFcn)
    <2>1. SubList(idx, K) \in Seq(Entries)
        BY <1>4, SubListMembers
    <2> QED BY <1>4, <1>6, <2>1, TotalWeight
<1> QED BY <1>1, <1>2, <1>7, <1>8, <1>9, <1>10

-----------------------------------------------------------------------------
(* What the operations do to the indexes                                   *)

\* An index within the bound, all of whose entries are in U.
Sound(idx, U) == Index(idx, U) /\ Total(idx) <= Limit + MaxSize

CacheOK(U) ==
    /\ index = [p \in Processes |-> index[p]]
    /\ \A p \in Processes : Sound(index[p], U)
    /\ Sound(disk, U)

LEMMA EmptySound == ASSUME NEW U PROVE Sound(<<>>, U)
BY EmptyIndex, SizeBound, CacheAssumption DEF Sound

\* A process that saves a sound index leaves memory and disk sound.
LEMMA SaveKeeps ==
    ASSUME NEW U, CacheOK(U), NEW p \in Processes, NEW idx, Sound(idx, U), Save(p, idx)
    PROVE  CacheOK(U)'
<1>1. \A q \in Processes : index'[q] = IF q = p THEN idx ELSE index[q]
    BY DEF Save, CacheOK
<1>2. index' = [q \in Processes |-> index'[q]]
    BY DEF Save, CacheOK
<1>3. \A q \in Processes : Sound(index'[q], U)
    BY <1>1 DEF CacheOK
<1>4. disk' = idx \/ disk' = <<>>
    BY DEF Save
<1>5. Sound(disk', U)
    BY <1>4, EmptySound
<1> QED BY <1>2, <1>3, <1>5 DEF CacheOK, Sound, Index

LEMMA SameKeeps == ASSUME NEW U, CacheOK(U), UNCHANGED <<index, disk>> PROVE CacheOK(U)'
BY DEF CacheOK, Sound, Index

LEMMA LoadKeeps ==
    ASSUME NEW U, CacheOK(U), NEW p \in Processes, Load(p)
    PROVE  CacheOK(U)'
<1>1. index' = [q \in Processes |-> index'[q]] /\ disk' = disk
      /\ \A q \in Processes : index'[q] \in {index[q], disk}
    BY DEF Load, CacheOK
<1> QED BY <1>1 DEF CacheOK, Sound, Index

LEMMA GetKeeps ==
    ASSUME NEW U \in SUBSET Entries, CacheOK(U), NEW p \in Processes, NEW k, GetWheel(p, k)
    PROVE  CacheOK(U)'
<1> DEFINE idx == index[p]
<1>1. Index(idx, U) /\ Total(idx) <= Limit + MaxSize
    BY DEF CacheOK, Sound
<1>2. Limit + MaxSize \in Nat /\ Total(idx) \in Nat
    <2>1. idx \in Seq(Entries)
        BY <1>1, IndexDomain, SeqWider
    <2> QED BY <2>1, TotalNat, SizeBound, CacheAssumption
<1> HIDE DEF idx
<1>3. CASE UNCHANGED cacheVars
    BY <1>3, SameKeeps DEF cacheVars
<1>4. CASE Has(idx, k) /\ Save(p, Append(Without(idx, k), EntryOf(idx, k)))
    <2>1. /\ EntryOf(idx, k) \in U /\ EntryOf(idx, k).key = k
          /\ Total(Without(idx, k)) + EntryOf(idx, k).size = Total(idx)
        BY <1>1, <1>4, FoundEntry
    <2>2. /\ Index(Without(idx, k), U)
          /\ \A i \in DOMAIN Without(idx, k) : Without(idx, k)[i].key # k
        BY <1>1, WithoutIndex
    <2>3. Sound(Append(Without(idx, k), EntryOf(idx, k)), U)
        BY <1>1, <2>1, <2>2, AddIndex DEF Sound
    <2> QED BY <1>4, <2>3, SaveKeeps
<1>5. CASE Save(p, Without(idx, k))
    <2>1. Sound(Without(idx, k), U)
        BY <1>1, <1>2, WithoutIndex DEF Sound
    <2> QED BY <1>5, <2>1, SaveKeeps
<1> QED BY <1>3, <1>4, <1>5 DEF GetWheel, Hit, idx

LEMMA VerifyKeeps ==
    ASSUME NEW U \in SUBSET Entries, CacheOK(U), NEW p \in Processes, Verify(p)
    PROVE  CacheOK(U)'
<1>1. Index(index[p], U) /\ Total(index[p]) <= Limit + MaxSize
    BY DEF CacheOK, Sound
<1>2. Limit + MaxSize \in Nat /\ Total(index[p]) \in Nat
    <2>1. index[p] \in Seq(Entries)
        BY <1>1, IndexDomain, SeqWider
    <2> QED BY <2>1, TotalNat, SizeBound, CacheAssumption
<1>3. UNCHANGED <<index, disk>> \/ \E K : Save(p, SubList(index[p], K))
    BY DEF Verify
<1>4. ASSUME NEW K, Save(p, SubList(index[p], K)) PROVE CacheOK(U)'
    <2>1. Sound(SubList(index[p], K), U)
        BY <1>1, <1>2, SubIndex DEF Sound
    <2> QED BY <1>4, <2>1, SaveKeeps
<1> QED BY <1>3, <1>4, SameKeeps

LEMMA ClearKeeps ==
    ASSUME NEW U, CacheOK(U), NEW p \in Processes, Clear(p)
    PROVE  CacheOK(U)'
BY EmptySound, SaveKeeps DEF Clear

\* The entry that store_wheel makes.
NewEntry(k, sha) ==
    Entry(k, IF sha = None THEN files[FileOf[k]] ELSE sha, Size(FileOf[k], files[FileOf[k]]))

LEMMA StoreKeeps ==
    ASSUME NEW U \in SUBSET Entries, CacheOK(U), NEW p \in Processes, NEW k \in Keys, NEW sha,
           files[FileOf[k]] \in Bodies, NewEntry(k, sha) \in U, StoreWheel(p, k, sha)
    PROVE  CacheOK(U)'
<1> DEFINE kept == Kept(index[p])
           rest == Without(kept, k)
           e == NewEntry(k, sha)
<1>1. Index(kept, U) /\ Total(kept) \in Nat /\ Total(kept) <= Limit
    BY KeptIndex DEF CacheOK, Sound
<1> HIDE DEF kept
<1>2. /\ Index(rest, U) /\ \A i \in DOMAIN rest : rest[i].key # k
      /\ Total(rest) \in Nat /\ Total(rest) <= Total(kept)
    BY <1>1, WithoutIndex
<1> HIDE DEF rest
<1>3. e \in U /\ e.key = k /\ e.size = Size(FileOf[k], files[FileOf[k]])
    BY DEF NewEntry, Entry
<1>4. e.size \in Nat /\ e.size <= MaxSize /\ MaxSize \in Nat /\ Limit \in Nat
    BY <1>3, SizeBound, CacheAssumption
<1> HIDE DEF e
<1>5. Sound(Append(rest, e), U)
    BY <1>1, <1>2, <1>3, <1>4, AddIndex DEF Sound
<1>6. Save(p, Append(rest, e))
    BY DEF StoreWheel, NewEntry, rest, kept, e
<1> QED BY <1>5, <1>6, SaveKeeps

LEMMA StoreFailsKeeps ==
    ASSUME NEW U \in SUBSET Entries, CacheOK(U), NEW p \in Processes, NEW k, StoreFails(p, k)
    PROVE  CacheOK(U)'
<1>1. Index(Kept(index[p]), U) /\ Total(Kept(index[p])) \in Nat /\ Total(Kept(index[p])) <= Limit
    BY KeptIndex DEF CacheOK, Sound
<1>2. Sound(Kept(index[p]), U)
    BY <1>1, SizeBound, CacheAssumption DEF Sound
<1> QED BY <1>2, SaveKeeps DEF StoreFails

\* The hash that Store gives to store_wheel.
HashOf(p) == IF plan[p][1] = "wheel" /\ hash[p] THEN "wheel" ELSE None

\* A step keeps the indexes if an entry that is stored is of the right kind.
LEMMA CacheStep ==
    ASSUME NEW U \in SUBSET Entries, CacheOK(U), [Next]_vars,
           \A p \in Processes : Store(p) =>
               /\ key[p] \in Keys /\ files[Wheel(p)] \in Bodies
               /\ NewEntry(key[p], HashOf(p)) \in U
    PROVE  CacheOK(U)'
<1>1. CASE UNCHANGED cacheVars
    BY <1>1, SameKeeps DEF cacheVars
<1>2. ASSUME NEW p \in Processes, NEW k \in Keys, Begin(p, k) PROVE CacheOK(U)'
    BY <1>1, <1>2, LoadKeeps DEF Begin
<1>3. ASSUME NEW p \in Processes, Step(p) PROVE CacheOK(U)'
    <2>1. CASE ResolveCached(p) \/ InstallLocal(p)
        BY <2>1, GetKeeps DEF ResolveCached, InstallLocal
    <2>2. CASE Fetch(p) \/ Downloaded(p)
        BY <1>1, <2>2, SameKeeps DEF Fetch, Downloaded
    <2>3. CASE Store(p)
        BY <2>3, StoreKeeps DEF Store, HashOf, Wheel
    <2>4. CASE StoreRaises(p)
        BY <2>4, StoreFailsKeeps DEF StoreRaises
    <2> QED BY <1>1, <1>3, <2>1, <2>2, <2>3, <2>4
            DEF Step, ResolveInstalled, QueryAnswered, QueryFailed, Exhausted, InstallTermux,
                SetupExec, DownloadFails, PipSucceeds, PipFails
<1>4. ASSUME NEW p \in Processes, Maintain(p) PROVE CacheOK(U)'
    BY <1>4, VerifyKeeps, ClearKeeps DEF Maintain
<1> QED BY <1>1, <1>2, <1>3, <1>4 DEF Next, Crash, Uninstall, vars

-----------------------------------------------------------------------------
(* Types                                                                   *)

\* A process that is not idle has a package, and one that fetches, stores or installs a
\* wheel is at a strategy that does.
PlacesOK ==
    \A p \in Processes :
        /\ pc[p] # "idle" => key[p] \in Keys
        /\ pc[p] \in {"download", "store"} => plan[p] # <<>> /\ plan[p][1] \in {"wheel", "build"}
        /\ pc[p] \in {"built", "pip"} => plan[p] # <<>> /\ plan[p][1] \in {"local", "wheel", "build"}

\* The types of all but the indexes.
RestOK ==
    /\ files \in [Files -> Bodies \cup {None}]
    /\ installed \subseteq {PackageOf[k] : k \in Keys}
    /\ pc \in [Processes -> {"idle", "resolve", "query", "try", "download", "store",
                             "built", "pip"}]
    /\ key \in [Processes -> Keys \cup {None}]
    /\ plan \in [Processes -> Seq(Strategies)]
    /\ polls \in [Processes -> 0..MaxPolls]
    /\ hash \in [Processes -> BOOLEAN]
    /\ source \in [Processes -> {"file", "index", None}]
    /\ PlacesOK

\* The types of the run's invariant follow from the two inductive parts.
LEMMA TypesAre == CacheOK(Entries) /\ RestOK => TypeOK
<1>1. \A idx : Index(idx, Entries) => idx \in Indexes
    BY DEF Index, Indexes
<1> QED BY <1>1 DEF CacheOK, Sound, RestOK, TypeOK

\* The steps by which a strategy is tried, left or ended.
LEMMA TryRest ==
    ASSUME RestOK, NEW p \in Processes, pc[p] \in {"resolve", "query"},
           NEW strategies \in Seq(Strategies), NEW h \in BOOLEAN, Try(p, strategies, h),
           UNCHANGED files
    PROVE  RestOK'
BY DEF RestOK, PlacesOK, Try, Goto

\* An install that ends is idle, without key and plan.
LEMMA EndRest ==
    ASSUME RestOK, NEW p \in Processes, End(p), files' \in [Files -> Bodies \cup {None}],
           installed' \subseteq {PackageOf[k] : k \in Keys}
    PROVE  RestOK'
<1>1. <<>> \in Seq(Strategies) /\ MaxPolls \in 0..MaxPolls
    BY InstallAssumption
<1> QED BY <1>1 DEF RestOK, PlacesOK, End, Goto

\* The installer goes on with the rest of its plan, or ends.
LEMMA NextStrategyRest ==
    ASSUME RestOK, NEW p \in Processes, pc[p] # "idle", plan[p] # <<>>, NextStrategy(p),
           files' \in [Files -> Bodies \cup {None}]
    PROVE  RestOK'
<1>1. Tail(plan[p]) \in Seq(Strategies)
    BY DEF RestOK
<1> QED BY <1>1 DEF RestOK, PlacesOK, NextStrategy, Goto

\* The other operations leave files whose bodies are known.
LEMMA FilesType ==
    ASSUME RestOK, NEW p \in Processes
    PROVE  /\ \A k \in Keys : GetWheel(p, k) => files' \in [Files -> Bodies \cup {None}]
           /\ Evict(p) => /\ files' \in [Files -> Bodies \cup {None}]
                          /\ \A f \in Files : files'[f] # None => files[f] \in Bodies
           /\ Verify(p) \/ Clear(p) => files' \in [Files -> Bodies \cup {None}]
<1>1. \A k \in Keys : FileOf[k] \in Files
    BY CacheAssumption
<1>2. \A k \in Keys : GetWheel(p, k) => files' \in [Files -> Bodies \cup {None}]
    BY <1>1 DEF GetWheel, cacheVars, RestOK
<1>3. Evict(p) => /\ files' \in [Files -> Bodies \cup {None}]
                  /\ \A f \in Files : files'[f] # None => files[f] \in Bodies
    BY DEF Evict, RestOK
<1>4. Clear(p) => files' \in [Files -> Bodies \cup {None}]
    BY DEF Clear, RestOK
<1>5. Verify(p) => files' \in [Files -> Bodies \cup {None}]
    <2>1. Verify(p) => \E R : files' = [f \in Files |-> IF f \in R THEN None ELSE files[f]]
        BY DEF Verify
    <2> QED BY <2>1 DEF RestOK
<1> QED BY <1>2, <1>3, <1>4, <1>5

\* A process goes to another place with the plan it has.
LEMMA GotoRest ==
    ASSUME RestOK, NEW p \in Processes, NEW l, Goto(p, l), pc[p] # "idle",
           l \in {"query", "try", "download", "store", "built", "pip"},
           l \in {"download", "store"} => plan[p] # <<>> /\ plan[p][1] \in {"wheel", "build"},
           l \in {"built", "pip"} => plan[p] # <<>> /\ plan[p][1] \in {"local", "wheel", "build"},
           files' \in [Files -> Bodies \cup {None}],
           polls' \in [Processes -> 0..MaxPolls],
           source' \in [Processes -> {"file", "index", None}],
           UNCHANGED <<installed, key, plan, hash>>
    PROVE  RestOK'
BY DEF RestOK, PlacesOK, Goto

\* The plans that the resolver makes are lists of strategies.
LEMMA PlansType ==
    /\ <<"local">> \in Seq(Strategies) /\ <<"termux">> \in Seq(Strategies)
    /\ <<"exec", "build">> \in Seq(Strategies)
    /\ <<"local", "wheel", "build", "exec">> \in Seq(Strategies)
    /\ \A s \in Strategies :
           <<s>> \o (IF s = "exec" THEN <<"build">>
                     ELSE IF s = "build" THEN <<"exec">>
                     ELSE <<"exec", "build">>) \in Seq(Strategies)
BY DEF Strategies

LEMMA StepRest ==
    ASSUME RestOK, NEW p \in Processes, Step(p)
    PROVE  RestOK'
<1>1. CASE ResolveInstalled(p)
    <2>1. CASE End(p) /\ UNCHANGED installed
        BY <1>1, <2>1, EndRest DEF ResolveInstalled, RestOK, cacheVars
    <2>2. CASE Try(p, <<"local">>, FALSE)
        BY <1>1, <2>2, TryRest, PlansType DEF ResolveInstalled, cacheVars
    <2> QED BY <1>1, <2>1, <2>2 DEF ResolveInstalled
<1>2. CASE ResolveCached(p)
    <2>1. files' \in [Files -> Bodies \cup {None}] /\ key[p] \in Keys
        BY <1>2, FilesType DEF ResolveCached, RestOK, PlacesOK
    <2>2. CASE Hit(p, key[p]) /\ Try(p, <<"local">>, FALSE)
        <3>1. UNCHANGED files
            BY <1>2, <2>2 DEF ResolveCached, GetWheel, cacheVars
        <3> QED BY <1>2, <2>2, <3>1, TryRest, PlansType DEF ResolveCached
    <2>3. CASE Goto(p, "query") /\ UNCHANGED <<installed, key, plan, polls, hash, source>>
        <3>1. /\ pc[p] # "idle" /\ polls' \in [Processes -> 0..MaxPolls]
              /\ source' \in [Processes -> {"file", "index", None}]
            BY <1>2, <2>3 DEF ResolveCached, RestOK
        <3> QED BY <2>1, <2>3, <3>1, GotoRest
    <2> QED BY <1>2, <2>2, <2>3 DEF ResolveCached
<1>3. CASE QueryAnswered(p) \/ QueryFailed(p)
    BY <1>3, TryRest, PlansType DEF QueryAnswered, QueryFailed, cacheVars
<1>4. CASE Exhausted(p)
    BY <1>4, EndRest DEF Exhausted, RestOK, cacheVars
<1>5. CASE InstallLocal(p)
    <2>1. /\ pc[p] # "idle" /\ plan[p] # <<>> /\ plan[p][1] \in {"local", "wheel", "build"}
          /\ key[p] \in Keys
        BY <1>5 DEF InstallLocal, Trying, RestOK, PlacesOK
    <2>2. files' \in [Files -> Bodies \cup {None}]
        BY <1>5, <2>1, FilesType DEF InstallLocal
    <2>3. /\ source' \in [Processes -> {"file", "index", None}]
          /\ polls' \in [Processes -> 0..MaxPolls]
        BY <1>5 DEF InstallLocal, RestOK
    <2> QED BY <1>5, <2>1, <2>2, <2>3, GotoRest DEF InstallLocal
<1>6. CASE InstallTermux(p)
    <2>1. pc[p] # "idle" /\ plan[p] # <<>> /\ key[p] \in Keys
          /\ files' \in [Files -> Bodies \cup {None}]
        BY <1>6 DEF InstallTermux, Trying, RestOK, PlacesOK, cacheVars
    <2>2. CASE installed' = installed \cup {PackageOf[key[p]]} /\ End(p)
        BY <2>1, <2>2, EndRest DEF RestOK
    <2>3. CASE NextStrategy(p)
        BY <2>1, <2>3, NextStrategyRest
    <2> QED BY <1>6, <2>2, <2>3 DEF InstallTermux
<1>7. CASE SetupExec(p)
    BY <1>7, EndRest DEF SetupExec, RestOK, cacheVars
<1>8. CASE Fetch(p)
    <2>1. /\ pc[p] # "idle" /\ plan[p] # <<>> /\ plan[p][1] \in {"wheel", "build"}
          /\ key[p] \in Keys
        BY <1>8 DEF Fetch, Trying, RestOK, PlacesOK
    <2>2. CASE Goto(p, "download") /\ files' = [files EXCEPT ![Wheel(p)] = "part"]
               /\ UNCHANGED <<index, disk, installed, key, plan, polls, hash, source>>
        <3>1. files' \in [Files -> Bodies \cup {None}]
            BY <2>2 DEF RestOK, Bodies
        <3> QED BY <2>1, <2>2, <3>1, GotoRest DEF RestOK
    <2>3. CASE NextStrategy(p) /\ UNCHANGED cacheVars
        BY <2>1, <2>3, NextStrategyRest DEF RestOK, cacheVars
    <2> QED BY <1>8, <2>2, <2>3 DEF Fetch
<1>9. CASE Downloaded(p)
    <2>1. plan[p] # <<>> /\ plan[p][1] \in {"wheel", "build"} /\ pc[p] # "idle"
        BY <1>9 DEF Downloaded, RestOK, PlacesOK
    <2>2. files' \in [Files -> Bodies \cup {None}]
        BY <1>9 DEF Downloaded, RestOK, Bodies
    <2> QED BY <1>9, <2>1, <2>2, GotoRest DEF Downloaded, RestOK
<1>10. CASE DownloadFails(p)
    <2>1. /\ plan[p] # <<>> /\ pc[p] # "idle" /\ files' \in [Files -> Bodies \cup {None}]
        BY <1>10 DEF DownloadFails, RestOK, PlacesOK, cacheVars
    <2>2. CASE NextStrategy(p)
        BY <2>1, <2>2, NextStrategyRest
    <2>3. CASE polls[p] > 0 /\ polls' = [polls EXCEPT ![p] = @ - 1] /\ Goto(p, "try")
               /\ UNCHANGED <<installed, key, plan, hash, source>>
        <3>1. polls' \in [Processes -> 0..MaxPolls]
            BY <2>3, InstallAssumption DEF RestOK
        <3>2. source' \in [Processes -> {"file", "index", None}]
            BY <2>3 DEF RestOK
        <3> QED BY <2>1, <2>3, <3>1, <3>2, GotoRest
    <2> QED BY <1>10, <2>2, <2>3 DEF DownloadFails
<1>11. CASE Store(p)
    <2>1. plan[p] # <<>> /\ plan[p][1] \in {"wheel", "build"} /\ pc[p] # "idle" /\ key[p] \in Keys
        BY <1>11 DEF Store, RestOK, PlacesOK
    <2>2. files' \in [Files -> Bodies \cup {None}]
        BY <1>11, <2>1, FilesType DEF Store, StoreWheel
    <2>3. CASE Goto(p, "pip") /\ source' = [source EXCEPT ![p] = "file"]
        BY <1>11, <2>1, <2>2, <2>3, GotoRest DEF Store, RestOK
    <2>4. CASE Goto(p, "built") /\ UNCHANGED source
        BY <1>11, <2>1, <2>2, <2>4, GotoRest DEF Store, RestOK
    <2> QED BY <1>11, <2>3, <2>4 DEF Store
<1>12. CASE StoreRaises(p)
    <2>1. plan[p] # <<>> /\ pc[p] # "idle" /\ key[p] \in Keys
        BY <1>12 DEF StoreRaises, RestOK, PlacesOK
    <2>2. files' \in [Files -> Bodies \cup {None}]
        BY <1>12, <2>1, FilesType DEF StoreRaises, StoreFails
    <2> QED BY <1>12, <2>1, <2>2, NextStrategyRest DEF StoreRaises
<1>13. CASE PipSucceeds(p)
    <2>1. key[p] \in Keys
        BY <1>13 DEF PipSucceeds, RestOK, PlacesOK
    <2> QED BY <1>13, <2>1, EndRest DEF PipSucceeds, RestOK, cacheVars
<1>14. CASE PipFails(p)
    <2>1. plan[p] # <<>> /\ pc[p] # "idle" /\ files' \in [Files -> Bodies \cup {None}]
        BY <1>14 DEF PipFails, RestOK, PlacesOK, cacheVars
    <2> QED BY <1>14, <2>1, NextStrategyRest DEF PipFails
<1> QED BY <1>1, <1>2, <1>3, <1>4, <1>5, <1>6, <1>7, <1>8, <1>9, <1>10, <1>11, <1>12,
           <1>13, <1>14 DEF Step

LEMMA NextRest == RestOK /\ [Next]_vars => RestOK'
<1> SUFFICES ASSUME RestOK, [Next]_vars PROVE RestOK'
    OBVIOUS
<1>1. ASSUME NEW p \in Processes, NEW k \in Keys, Begin(p, k) PROVE RestOK'
    <2>1. files' = files
        BY <1>1 DEF Begin, Load, cacheVars
    <2> QED BY <1>1, <2>1 DEF Begin, Goto, RestOK, PlacesOK
<1>2. ASSUME NEW p \in Processes, Crash(p) PROVE RestOK'
    BY <1>2, EndRest DEF Crash, RestOK, cacheVars
<1>3. ASSUME NEW p \in Processes, Maintain(p) PROVE RestOK'
    <2>1. files' \in [Files -> Bodies \cup {None}]
        BY <1>3, FilesType DEF Maintain
    <2> QED BY <1>3, <2>1 DEF Maintain, RestOK, PlacesOK, procVars
<1>4. ASSUME NEW k \in Keys, Uninstall(k) PROVE RestOK'
    BY <1>4 DEF Uninstall, RestOK, PlacesOK, procVars, cacheVars
<1>5. CASE UNCHANGED vars
    BY <1>5 DEF vars, cacheVars, procVars, RestOK, PlacesOK
<1> QED BY <1>1, <1>2, <1>3, <1>4, <1>5, StepRest DEF Next

InstallInv == CacheOK(Entries) /\ RestOK

LEMMA InstallStarts == Init => \A U : CacheOK(U) /\ RestOK
<1>1. <<>> \in Seq(Strategies) /\ MaxPolls \in 0..MaxPolls
    BY InstallAssumption
<1> QED BY <1>1, EmptySound DEF Init, CacheInit, CacheOK, RestOK, PlacesOK

\* The entry that is stored is one: the file it is made for is there.
LEMMA StoredIsEntry ==
    ASSUME RestOK, NEW p \in Processes, Store(p)
    PROVE  /\ key[p] \in Keys /\ files[Wheel(p)] \in Bodies
           /\ NewEntry(key[p], HashOf(p)) \in Entries
           /\ NewEntry(key[p], HashOf(p)).sha \in {"wheel", files[Wheel(p)]}
<1>1. key[p] \in Keys /\ FileOf[key[p]] \in Files
    BY CacheAssumption DEF Store, RestOK, PlacesOK
<1>2. Evict(p) /\ files'[Wheel(p)] # None
    BY DEF Store, StoreWheel, Wheel
<1>3. files[Wheel(p)] \in Bodies
    BY <1>1, <1>2, FilesType DEF Wheel
<1>4. Size(Wheel(p), files[Wheel(p)]) \in Nat
    BY <1>1, <1>3, SizeBound DEF Wheel
<1>5. HashOf(p) \in {None, "wheel"} /\ "wheel" \in Bodies
    BY DEF HashOf, Bodies
<1> QED BY <1>1, <1>3, <1>4, <1>5, CacheAssumption DEF NewEntry, Entry, Entries, Wheel

LEMMA InstallSteps == InstallInv /\ [Next]_vars => InstallInv'
BY CacheStep, NextRest, StoredIsEntry DEF InstallInv

LEMMA InstallHolds == Spec => []InstallInv
<1>1. Init => InstallInv
    BY InstallStarts DEF InstallInv
<1> QED BY <1>1, InstallSteps, PTL DEF Spec

\* Every index that is kept in memory or in cache.json is well-formed, with one entry
\* for a key, and what a process is at agrees with its plan: also after any interrupt
\* and any other process's writes.
THEOREM InstallTypeCorrect == Spec => []TypeOK
<1>1. InstallInv => TypeOK
    BY TypesAre DEF InstallInv
<1> QED BY <1>1, InstallHolds, PTL

\* Whatever processes do to the cache they share, no index counts more than one wheel
\* beyond the limit: store_wheel evicts enough before it adds, since removing every
\* entry always is, and nothing else adds to an index.
THEOREM CacheIsBounded == Spec => []CountedBound
<1>1. InstallInv => CountedBound
    BY DEF InstallInv, CacheOK, Sound, CountedBound
<1> QED BY <1>1, InstallHolds, PTL

-----------------------------------------------------------------------------
(* The plan                                                                *)

\* What CloudPlanEndsInExec says of one plan.
EndsInExec(pl) == Range(pl) \cap {"wheel", "build"} # {} => Range(pl) \cap {"exec", "hybrid"} # {}

\* A strategy that fails is not one that ends in the cloud, so that one is left.
LEMMA TailEnds ==
    ASSUME NEW pl \in Seq(Strategies), pl # <<>>, pl[1] \notin {"exec", "hybrid"}, EndsInExec(pl)
    PROVE  EndsInExec(Tail(pl))
<1>1. /\ Len(pl) \in Nat /\ Len(pl) >= 1 /\ DOMAIN pl = 1..Len(pl)
      /\ DOMAIN Tail(pl) = 1..(Len(pl) - 1)
      /\ \A i \in 1..(Len(pl) - 1) : Tail(pl)[i] = pl[i + 1]
    OBVIOUS
<1>2. \A i \in 2..Len(pl) : i - 1 \in 1..(Len(pl) - 1) /\ (i - 1) + 1 = i
    BY <1>1
<1>3. \A x : x \in Range(Tail(pl)) => x \in Range(pl)
    <2>1. \A i \in 1..(Len(pl) - 1) : i + 1 \in 1..Len(pl)
        BY <1>1
    <2> QED BY <1>1, <2>1 DEF Range
<1>4. \A x \in Range(pl) : x = pl[1] \/ x \in Range(Tail(pl))
    <2>1. \A i \in 1..Len(pl) : i = 1 \/ i \in 2..Len(pl)
        BY <1>1
    <2>2. \A i \in 2..Len(pl) : pl[i] = Tail(pl)[i - 1] /\ i - 1 \in DOMAIN Tail(pl)
        BY <1>1, <1>2
    <2>3. ASSUME NEW i \in 1..Len(pl) PROVE pl[i] = pl[1] \/ pl[i] \in Range(Tail(pl))
        <3>1. CASE i \in 2..Len(pl)
            BY <2>2, <3>1 DEF Range
        <3> QED BY <2>1, <3>1
    <2> QED BY <1>1, <2>3 DEF Range
<1> QED BY <1>3, <1>4 DEF EndsInExec

\* Every plan that the resolver makes has cloud execution behind its cloud wheel.
LEMMA PlansEnd ==
    /\ EndsInExec(<<>>) /\ EndsInExec(<<"local">>) /\ EndsInExec(<<"termux">>)
    /\ EndsInExec(<<"exec", "build">>) /\ EndsInExec(<<"local", "wheel", "build", "exec">>)
    /\ \A s \in Strategies :
           EndsInExec(<<s>> \o (IF s = "exec" THEN <<"build">>
                                ELSE IF s = "build" THEN <<"exec">>
                                ELSE <<"exec", "build">>))
<1>1. /\ EndsInExec(<<>>) /\ EndsInExec(<<"local">>) /\ EndsInExec(<<"termux">>)
      /\ EndsInExec(<<"exec", "build">>) /\ EndsInExec(<<"local", "wheel", "build", "exec">>)
    BY DEF EndsInExec, Range
<1>2. ASSUME NEW s \in Strategies PROVE EndsInExec(<<s>> \o <<"exec">>)
    <2>1. (<<s>> \o <<"exec">>)[2] = "exec" /\ 2 \in DOMAIN (<<s>> \o <<"exec">>)
        OBVIOUS
    <2> QED BY <2>1 DEF EndsInExec, Range
<1>3. ASSUME NEW s \in Strategies PROVE EndsInExec(<<s>> \o <<"exec", "build">>)
    <2>1. /\ (<<s>> \o <<"exec", "build">>)[2] = "exec"
          /\ 2 \in DOMAIN (<<s>> \o <<"exec", "build">>)
        OBVIOUS
    <2> QED BY <2>1 DEF EndsInExec, Range
<1>4. EndsInExec(<<"exec">> \o <<"build">>)
    <2>1. (<<"exec">> \o <<"build">>)[1] = "exec" /\ 1 \in DOMAIN (<<"exec">> \o <<"build">>)
        OBVIOUS
    <2> QED BY <2>1 DEF EndsInExec, Range
<1> QED BY <1>1, <1>2, <1>3, <1>4

LEMMA PlanStarts == Init => CloudPlanEndsInExec
BY PlansEnd DEF Init, CloudPlanEndsInExec, EndsInExec

LEMMA PlanSteps == RestOK /\ CloudPlanEndsInExec /\ [Next]_vars => CloudPlanEndsInExec'
<1> SUFFICES ASSUME RestOK, CloudPlanEndsInExec, [Next]_vars, NEW q \in Processes
             PROVE  EndsInExec(plan'[q])
    BY DEF CloudPlanEndsInExec, EndsInExec, Range
<1>1. EndsInExec(plan[q]) /\ plan[q] \in Seq(Strategies)
    BY DEF CloudPlanEndsInExec, EndsInExec, RestOK
<1>2. CASE UNCHANGED plan
    BY <1>1, <1>2
<1>3. ASSUME NEW p \in Processes, End(p) PROVE EndsInExec(plan'[q])
    BY <1>1, <1>3, PlansEnd DEF End, RestOK
<1>4. ASSUME NEW p \in Processes, NextStrategy(p), plan[p] # <<>>,
             plan[p][1] \notin {"exec", "hybrid"}
      PROVE  EndsInExec(plan'[q])
    BY <1>1, <1>4, TailEnds DEF NextStrategy, RestOK
<1>5. ASSUME NEW p \in Processes, NEW s, NEW h, Try(p, s, h), EndsInExec(s)
      PROVE  EndsInExec(plan'[q])
    BY <1>1, <1>5 DEF Try, RestOK
<1>6. ASSUME NEW p \in Processes, Step(p) PROVE EndsInExec(plan'[q])
    <2>1. CASE QueryAnswered(p) \/ QueryFailed(p) \/ ResolveInstalled(p) \/ ResolveCached(p)
        BY <1>2, <1>3, <1>5, <2>1, PlansEnd
           DEF QueryAnswered, QueryFailed, ResolveInstalled, ResolveCached
    <2>2. CASE Exhausted(p) \/ SetupExec(p) \/ PipSucceeds(p)
        BY <1>3, <2>2 DEF Exhausted, SetupExec, PipSucceeds
    <2>3. CASE InstallLocal(p) \/ Downloaded(p) \/ Store(p)
        BY <1>2, <2>3 DEF InstallLocal, Downloaded, Store
    <2>4. CASE InstallTermux(p) \/ Fetch(p)
        BY <1>2, <1>3, <1>4, <2>4 DEF InstallTermux, Fetch, Trying
    <2>5. CASE DownloadFails(p) \/ StoreRaises(p) \/ PipFails(p)
        BY <1>2, <1>4, <2>5 DEF DownloadFails, StoreRaises, PipFails, RestOK, PlacesOK
    <2> QED BY <1>6, <2>1, <2>2, <2>3, <2>4, <2>5 DEF Step
<1> QED BY <1>2, <1>3, <1>6 DEF Next, Begin, Crash, Maintain, Uninstall, procVars, vars

\* However the strategies of an install fail one after the other, a plan that still has
\* a wheel to get from the cloud has one that runs the package there: none of them is
\* given up before it is tried, and when it is tried the install ends.
THEOREM CloudIsLast == Spec => []CloudPlanEndsInExec
<1>1. InstallInv /\ CloudPlanEndsInExec /\ [Next]_vars => (InstallInv /\ CloudPlanEndsInExec)'
    BY InstallSteps, PlanSteps DEF InstallInv
<1>2. Init => InstallInv /\ CloudPlanEndsInExec
    BY InstallStarts, PlanStarts DEF InstallInv
<1> QED BY <1>1, <1>2, PTL DEF Spec

-----------------------------------------------------------------------------
(* Parts                                                                   *)

\* No two installs fetch one file at a time: between the opening of a file and the end
\* of store_wheel its name is one process's own.  With a single process it always holds.
NoOverlap ==
    \A p, q \in Processes :
        p # q => ~(/\ pc[p] \in {"download", "store"} /\ pc[q] \in {"download", "store"}
                   /\ Wheel(p) = Wheel(q))

\* The entries that were not made for a part.
WholeEntries == {e \in Entries : e.sha # "part"}

\* A body is stored when it is all there, so no index has an entry made for a part.
NoPartInv ==
    /\ InstallInv
    /\ CacheOK(WholeEntries)
    /\ \A p \in Processes : pc[p] = "store" => files[Wheel(p)] # "part"

\* What store_wheel enters, when no part is being stored, is the hash of a whole file.
LEMMA StoredIsWhole ==
    ASSUME NoPartInv, NEW p \in Processes, Store(p)
    PROVE  /\ key[p] \in Keys /\ files[Wheel(p)] \in Bodies
           /\ NewEntry(key[p], HashOf(p)) \in WholeEntries
BY StoredIsEntry DEF NoPartInv, InstallInv, WholeEntries, Store

\* A file becomes a part only when it is opened for a download.
LEMMA OthersMakeNoPart ==
    ASSUME RestOK, NEW p \in Processes, NEW f \in Files,
           \/ \E k \in Keys : GetWheel(p, k)
           \/ Evict(p) \/ Verify(p) \/ Clear(p) \/ UNCHANGED files
    PROVE  files'[f] \in {files[f], None}
<1>1. ASSUME NEW k \in Keys, GetWheel(p, k) PROVE files'[f] \in {files[f], None}
    BY <1>1 DEF GetWheel, cacheVars, RestOK
<1>2. Evict(p) => files'[f] \in {files[f], None}
    BY DEF Evict
<1>3. Verify(p) => files'[f] \in {files[f], None}
    <2>1. Verify(p) => \E R : files' = [g \in Files |-> IF g \in R THEN None ELSE files[g]]
        BY DEF Verify
    <2> QED BY <2>1
<1>4. Clear(p) => files'[f] \in {files[f], None}
    BY DEF Clear
<1> QED BY <1>1, <1>2, <1>3, <1>4

\* A process that is about to store, or becomes so, has a body that is all there.
LEMMA StoreHasBody ==
    ASSUME NoPartInv, NoOverlap, NoOverlap', [Next]_vars, NEW q \in Processes, pc'[q] = "store"
    PROVE  files'[Wheel(q)'] # "part"
<1>0. None # "part"
    BY CacheAssumption DEF Bodies
<1>1. RestOK /\ (pc[q] = "store" => files[Wheel(q)] # "part")
    BY DEF NoPartInv, InstallInv
<1>2. ASSUME NEW f \in Files, Wheel(q) = f, Wheel(q)' = f, pc[q] = "store",
             files'[f] \in {files[f], None}
      PROVE  files'[Wheel(q)'] # "part"
    BY <1>0, <1>1, <1>2
<1>3. pc[q] = "store" /\ key'[q] = key[q]
      => Wheel(q) \in Files /\ Wheel(q)' = Wheel(q)
    BY <1>1, CacheAssumption DEF Wheel, RestOK, PlacesOK
<1>4. ASSUME pc'[q] = pc[q], key'[q] = key[q], UNCHANGED files
      PROVE  files'[Wheel(q)'] # "part"
    BY <1>1, <1>3, <1>4
<1>5. ASSUME NEW p \in Processes, NEW k \in Keys, Begin(p, k) PROVE files'[Wheel(q)'] # "part"
    <2>1. files' = files /\ q # p
        BY <1>1, <1>5 DEF Begin, Load, cacheVars, Goto, RestOK
    <2> QED BY <1>1, <1>4, <1>5, <2>1 DEF Begin, Goto, RestOK
<1>6. ASSUME NEW p \in Processes, End(p) \/ NextStrategy(p),
             \A f \in Files : files'[f] \in {files[f], None}
      PROVE  files'[Wheel(q)'] # "part"
    <2>1. q # p /\ pc[q] = "store" /\ key'[q] = key[q]
        BY <1>1, <1>6 DEF End, NextStrategy, Goto, RestOK
    <2> QED BY <1>2, <1>3, <1>6, <2>1
<1>7. ASSUME NEW p \in Processes, NEW l, Goto(p, l), l # "store", UNCHANGED key,
             \A f \in Files : files'[f] \in {files[f], None}
      PROVE  files'[Wheel(q)'] # "part"
    <2>1. q # p /\ pc[q] = "store" /\ key'[q] = key[q]
        BY <1>1, <1>7 DEF Goto, RestOK
    <2> QED BY <1>2, <1>3, <1>7, <2>1
<1>8. ASSUME NEW p \in Processes, Step(p) PROVE files'[Wheel(q)'] # "part"
    <2>1. CASE ResolveInstalled(p) \/ QueryAnswered(p) \/ QueryFailed(p) \/ SetupExec(p)
               \/ Exhausted(p) \/ InstallTermux(p) \/ PipSucceeds(p) \/ PipFails(p)
               \/ DownloadFails(p)
        <3>1. \A f \in Files : files'[f] \in {files[f], None}
            BY <2>1 DEF ResolveInstalled, QueryAnswered, QueryFailed, SetupExec, Exhausted,
                        InstallTermux, PipSucceeds, PipFails, DownloadFails, cacheVars
        <3>2. \/ End(p) \/ NextStrategy(p)
              \/ \E l \in {"try"} : Goto(p, l) /\ UNCHANGED key
            BY <2>1 DEF ResolveInstalled, QueryAnswered, QueryFailed, SetupExec, Exhausted,
                        InstallTermux, PipSucceeds, PipFails, DownloadFails, Try
        <3> QED BY <1>6, <1>7, <3>1, <3>2
    <2>2. CASE ResolveCached(p) \/ InstallLocal(p)
        <3>1. key[p] \in Keys
            BY <2>2 DEF ResolveCached, InstallLocal, Trying, NoPartInv, InstallInv, RestOK, PlacesOK
        <3>2. \A f \in Files : files'[f] \in {files[f], None}
            BY <1>1, <2>2, <3>1, OthersMakeNoPart DEF ResolveCached, InstallLocal
        <3>3. \E l \in {"try", "query", "pip"} : Goto(p, l) /\ UNCHANGED key
            BY <2>2 DEF ResolveCached, InstallLocal, Try
        <3> QED BY <1>7, <3>2, <3>3
    <2>3. CASE Fetch(p)
        <3>1. CASE NextStrategy(p) /\ UNCHANGED cacheVars
            BY <1>6, <3>1 DEF cacheVars
        <3>2. CASE /\ files' = [files EXCEPT ![Wheel(p)] = "part"] /\ Goto(p, "download")
                   /\ UNCHANGED key
            <4>1. q # p /\ pc[q] = "store" /\ key'[q] = key[q] /\ pc'[p] = "download"
                  /\ Wheel(p)' = Wheel(p)
                BY <1>1, <3>2 DEF Goto, RestOK, Wheel
            <4>2. Wheel(p) # Wheel(q)
                BY <1>3, <4>1 DEF NoOverlap
            <4>3. files'[Wheel(q)] = files[Wheel(q)]
                BY <1>3, <3>2, <4>1, <4>2, <1>1 DEF RestOK
            <4> QED BY <1>1, <1>3, <4>1, <4>3
        <3> QED BY <2>3, <3>1, <3>2 DEF Fetch
    <2>4. CASE Downloaded(p)
        <3>1. key' = key /\ Wheel(q)' = Wheel(q) /\ Wheel(p)' = Wheel(p) /\ Wheel(p) \in Files
            BY <1>1, <2>4, CacheAssumption DEF Downloaded, Wheel, RestOK, PlacesOK
        <3>2. \/ UNCHANGED files /\ files[Wheel(p)] = None
              \/ \E body \in {"wheel", "error"} : files' = [files EXCEPT ![Wheel(p)] = body]
            BY <2>4 DEF Downloaded, NoOverlap
        <3>3. files'[Wheel(p)] # "part"
            BY <1>0, <1>1, <3>1, <3>2 DEF RestOK
        <3>4. CASE q = p
            BY <3>1, <3>3, <3>4
        <3>5. CASE q # p
            <4>1. pc[q] = "store" /\ Wheel(q) \in Files
                BY <1>1, <1>3, <2>4, <3>1, <3>5 DEF Downloaded, Goto, RestOK
            <4>2. files'[Wheel(q)] \in {files[Wheel(q)], files'[Wheel(p)]}
                BY <1>1, <3>1, <3>2, <4>1 DEF RestOK
            <4> QED BY <1>1, <3>1, <3>3, <4>1, <4>2
        <3> QED BY <3>4, <3>5
    <2>5. CASE Store(p)
        <3>1. \A f \in Files : files'[f] \in {files[f], None}
            BY <1>1, <2>5, OthersMakeNoPart DEF Store, StoreWheel
        <3>2. \E l \in {"pip", "built"} : Goto(p, l) /\ UNCHANGED key
            BY <2>5 DEF Store
        <3> QED BY <1>7, <3>1, <3>2
    <2>6. CASE StoreRaises(p)
        <3>1. \A f \in Files : files'[f] \in {files[f], None}
            BY <1>1, <2>6, OthersMakeNoPart DEF StoreRaises, StoreFails
        <3> QED BY <1>6, <2>6, <3>1 DEF StoreRaises
    <2> QED BY <1>8, <2>1, <2>2, <2>3, <2>4, <2>5, <2>6 DEF Step
<1>9. ASSUME NEW p \in Processes, Crash(p) PROVE files'[Wheel(q)'] # "part"
    BY <1>6, <1>9 DEF Crash, cacheVars
<1>10. ASSUME NEW p \in Processes, Maintain(p) PROVE files'[Wheel(q)'] # "part"
    <2>1. \A f \in Files : files'[f] \in {files[f], None}
        BY <1>1, <1>10, OthersMakeNoPart DEF Maintain
    <2> QED BY <1>2, <1>3, <1>10, <2>1 DEF Maintain, procVars
<1>11. ASSUME NEW k \in Keys, Uninstall(k) PROVE files'[Wheel(q)'] # "part"
    BY <1>4, <1>11 DEF Uninstall, cacheVars, procVars
<1>12. CASE UNCHANGED vars
    BY <1>4, <1>12 DEF vars, cacheVars, procVars
<1> QED BY <1>5, <1>8, <1>9, <1>10, <1>11, <1>12 DEF Next

LEMMA NoPartSteps == NoPartInv /\ NoOverlap /\ NoOverlap' /\ [Next]_vars => NoPartInv'
<1> SUFFICES ASSUME NoPartInv, NoOverlap, NoOverlap', [Next]_vars PROVE NoPartInv'
    OBVIOUS
<1>1. InstallInv'
    BY InstallSteps DEF NoPartInv
<1>2. CacheOK(WholeEntries)'
    <2>1. WholeEntries \in SUBSET Entries /\ CacheOK(WholeEntries)
        BY DEF WholeEntries, NoPartInv
    <2>2. \A p \in Processes : Store(p) =>
              /\ key[p] \in Keys /\ files[Wheel(p)] \in Bodies
              /\ NewEntry(key[p], HashOf(p)) \in WholeEntries
        BY StoredIsWhole
    <2> QED BY <2>1, <2>2, CacheStep
<1>3. \A q \in Processes : (pc[q] = "store" => files[Wheel(q)] # "part")'
    BY StoreHasBody
<1> QED BY <1>1, <1>2, <1>3 DEF NoPartInv

\* A download that breaks off never becomes a wheel that get_wheel finds valid, however
\* often installs are interrupted and the index is lost, and whatever names the wheels of
\* different keys share: an entry is made only for a file that was all there, and a hit
\* compares the hash.  Two installs that fetch one file at a time are left out, since one
\* can store what the other has just begun to write.
THEOREM PartsAreNotFound == Spec /\ []NoOverlap => []PartIsNoHit
<1>1. Init => NoPartInv
    BY InstallStarts DEF NoPartInv, InstallInv, Init
<1>2. NoPartInv => PartIsNoHit
    <2> SUFFICES ASSUME NoPartInv, NEW p \in Processes, NEW k \in Keys, Hit(p, k)
                 PROVE  files[FileOf[k]] # "part"
        BY DEF PartIsNoHit
    <2>1. Index(index[p], WholeEntries) /\ WholeEntries \in SUBSET Entries
        BY DEF NoPartInv, CacheOK, Sound, WholeEntries
    <2>2. EntryOf(index[p], k) \in WholeEntries
        BY <2>1, FoundEntry DEF Hit
    <2> QED BY <2>2 DEF Hit, WholeEntries
<1> QED BY <1>1, <1>2, NoPartSteps, PTL DEF Spec

-----------------------------------------------------------------------------
(* How long an install may go on: the safety half of InstallEnds.            *)

\* What an install has before it: five places for each strategy that is left and for each
\* question for a built wheel, after the two in which it resolves.
MaxRank == 5 * (4 + MaxPolls) + 3
Left(p) == 5 * (Len(plan[p]) + polls[p])
Rank(p) ==
    CASE pc[p] = "idle"     -> 0
      [] pc[p] = "resolve"  -> MaxRank
      [] pc[p] = "query"    -> MaxRank - 1
      [] pc[p] = "try"      -> Left(p) + 1
      [] pc[p] = "download" -> Left(p)
      [] pc[p] = "store"    -> Left(p) - 1
      [] pc[p] = "built"    -> Left(p) - 2
      [] pc[p] = "pip"      -> Left(p) - 3

LEMMA RankType ==
    ASSUME RestOK, NEW p \in Processes
    PROVE  /\ Len(plan[p]) \in Nat /\ polls[p] \in 0..MaxPolls /\ Left(p) \in Nat
           /\ plan[p] # <<>> => Len(plan[p]) >= 1
           /\ Rank(p) \in Nat /\ (Rank(p) = 0 <=> pc[p] = "idle")
<1>1. plan[p] \in Seq(Strategies) /\ polls[p] \in 0..MaxPolls /\ MaxPolls \in Nat
    BY InstallAssumption DEF RestOK
<1>2. Len(plan[p]) \in Nat /\ (plan[p] # <<>> => Len(plan[p]) >= 1)
    BY <1>1
<1>3. pc[p] \in {"idle", "resolve", "query", "try", "download", "store", "built", "pip"}
    BY DEF RestOK
<1>4. pc[p] \in {"download", "store", "built", "pip"} => plan[p] # <<>>
    BY DEF RestOK, PlacesOK
<1>5. Left(p) \in Nat /\ (plan[p] # <<>> => Left(p) >= 5)
    BY <1>1, <1>2 DEF Left
<1>6. MaxRank \in Nat /\ MaxRank > 1
    BY <1>1 DEF MaxRank
<1> QED BY <1>1, <1>2, <1>3, <1>4, <1>5, <1>6 DEF Rank

\* Nobody else changes what a process has before it.
LEMMA RankSame ==
    ASSUME NEW p \in Processes, pc'[p] = pc[p], plan'[p] = plan[p], polls'[p] = polls[p]
    PROVE  Rank(p)' = Rank(p)
BY DEF Rank, Left, MaxRank

LEMMA EndLowers ==
    ASSUME RestOK, NEW p \in Processes, pc[p] # "idle", End(p)
    PROVE  Rank(p)' < Rank(p)
<1>1. pc'[p] = "idle"
    BY DEF End, Goto, RestOK
<1>2. Rank(p)' = 0
    BY <1>1 DEF Rank
<1> QED BY <1>2, RankType

LEMMA NextLowers ==
    ASSUME RestOK, NEW p \in Processes, pc[p] \in {"try", "download", "store", "built", "pip"},
           plan[p] # <<>>, NextStrategy(p)
    PROVE  Rank(p)' < Rank(p)
<1>1. pc'[p] = "try" /\ plan'[p] = Tail(plan[p]) /\ polls'[p] = polls[p]
    BY DEF NextStrategy, Goto, RestOK
<1>2. plan[p] \in Seq(Strategies)
    BY DEF RestOK
<1>3. Len(plan'[p]) = Len(plan[p]) - 1
    BY <1>1, <1>2
<1>4. Left(p)' = Left(p) - 5 /\ Left(p) \in Nat
    BY <1>1, <1>3, RankType DEF Left
<1>5. Rank(p)' = Left(p) - 4
    BY <1>1, <1>4 DEF Rank
<1>6. Rank(p) >= Left(p) - 3
    BY <1>4 DEF Rank
<1> QED BY <1>4, <1>5, <1>6, RankType

\* A plan of the resolver has four strategies at most.
LEMMA TryLowers ==
    ASSUME RestOK, NEW p \in Processes, pc[p] \in {"resolve", "query"},
           NEW strategies \in Seq(Strategies), NEW h, Try(p, strategies, h), Len(strategies) <= 4
    PROVE  Rank(p)' < Rank(p)
<1>1. pc'[p] = "try" /\ plan'[p] = strategies /\ polls'[p] = polls[p]
    BY DEF Try, Goto, RestOK
<1>2. polls[p] \in 0..MaxPolls /\ MaxPolls \in Nat
    BY InstallAssumption DEF RestOK
<1>3. Len(strategies) \in Nat
    OBVIOUS
<1>4. Left(p)' <= 5 * (4 + MaxPolls) /\ Left(p)' \in Nat
    BY <1>1, <1>2, <1>3 DEF Left
<1>5. Rank(p)' = Left(p)' + 1
    BY <1>1 DEF Rank
<1>6. Rank(p) \in {MaxRank, MaxRank - 1}
    BY DEF Rank
<1> QED BY <1>2, <1>4, <1>5, <1>6 DEF MaxRank

\* Within a strategy.
LEMMA GotoLowers ==
    ASSUME RestOK, NEW p \in Processes, NEW l, Goto(p, l), plan'[p] = plan[p], polls'[p] = polls[p],
           \/ pc[p] = "resolve" /\ l = "query"
           \/ pc[p] = "try" /\ l \in {"download", "pip"}
           \/ pc[p] = "download" /\ l = "store"
           \/ pc[p] = "store" /\ l \in {"built", "pip"}
           \/ pc[p] = "built" /\ l = "pip"
    PROVE  Rank(p)' < Rank(p)
<1>1. pc'[p] = l
    BY DEF Goto, RestOK
<1>2. Left(p)' = Left(p) /\ Left(p) \in Nat /\ MaxRank \in Nat
    BY RankType, InstallAssumption DEF Left, MaxRank
<1>3. MaxRank' = MaxRank
    BY DEF MaxRank
<1> QED BY <1>1, <1>2, <1>3 DEF Rank

LEMMA StepLowers ==
    ASSUME RestOK, NEW p \in Processes, Step(p)
    PROVE  Rank(p)' < Rank(p)
<1>1. CASE ResolveInstalled(p)
    <2>1. Len(<<"local">>) <= 4 /\ <<"local">> \in Seq(Strategies)
        BY DEF Strategies
    <2> QED BY <1>1, <2>1, EndLowers, TryLowers DEF ResolveInstalled
<1>2. CASE ResolveCached(p)
    <2>1. Len(<<"local">>) <= 4 /\ <<"local">> \in Seq(Strategies)
        BY DEF Strategies
    <2> QED BY <1>2, <2>1, GotoLowers, TryLowers DEF ResolveCached
<1>3. CASE QueryAnswered(p)
    <2>1. PICK s \in Strategies, h \in BOOLEAN :
              Try(p, <<s>> \o (IF s = "exec" THEN <<"build">>
                               ELSE IF s = "build" THEN <<"exec">> ELSE <<"exec", "build">>), h)
        BY <1>3 DEF QueryAnswered
    <2>2. Len(<<s>> \o (IF s = "exec" THEN <<"build">>
                        ELSE IF s = "build" THEN <<"exec">> ELSE <<"exec", "build">>)) <= 4
        OBVIOUS
    <2> QED BY <1>3, <2>1, <2>2, PlansType, TryLowers DEF QueryAnswered
<1>4. CASE QueryFailed(p)
    <2>1. /\ Len(<<"termux">>) <= 4 /\ Len(<<"exec", "build">>) <= 4
          /\ Len(<<"local", "wheel", "build", "exec">>) <= 4
        OBVIOUS
    <2>2. \/ Try(p, <<"termux">>, FALSE) \/ Try(p, <<"exec", "build">>, FALSE)
          \/ Try(p, <<"local", "wheel", "build", "exec">>, FALSE)
        BY <1>4 DEF QueryFailed
    <2> QED BY <1>4, <2>1, <2>2, PlansType, TryLowers DEF QueryFailed
<1>5. CASE Exhausted(p) \/ SetupExec(p) \/ PipSucceeds(p)
    BY <1>5, EndLowers DEF Exhausted, SetupExec, PipSucceeds, Trying
<1>6. CASE InstallLocal(p)
    BY <1>6, GotoLowers DEF InstallLocal, Trying
<1>7. CASE InstallTermux(p)
    BY <1>7, EndLowers, NextLowers DEF InstallTermux, Trying
<1>8. CASE Fetch(p)
    BY <1>8, GotoLowers, NextLowers DEF Fetch, Trying
<1>9. CASE Downloaded(p)
    BY <1>9, GotoLowers DEF Downloaded
<1>10. CASE DownloadFails(p)
    <2>1. plan[p] # <<>> /\ pc[p] = "download"
        BY <1>10 DEF DownloadFails, RestOK, PlacesOK
    <2>2. CASE NextStrategy(p)
        BY <2>1, <2>2, NextLowers
    <2>3. CASE /\ polls' = [polls EXCEPT ![p] = @ - 1]
               /\ Goto(p, "try") /\ UNCHANGED plan
        <3>1. pc'[p] = "try" /\ polls'[p] = polls[p] - 1
            BY <2>3 DEF Goto, RestOK
        <3>2. Left(p)' = Left(p) - 5 /\ Left(p) \in Nat
            BY <2>3, <3>1, RankType DEF Left
        <3> QED BY <2>1, <3>1, <3>2 DEF Rank
    <2> QED BY <1>10, <2>2, <2>3 DEF DownloadFails
<1>11. CASE Store(p)
    BY <1>11, GotoLowers DEF Store
<1>12. CASE StoreRaises(p) \/ PipFails(p)
    <2>1. plan[p] # <<>> /\ pc[p] \in {"store", "pip"}
        BY <1>12 DEF StoreRaises, PipFails, RestOK, PlacesOK
    <2> QED BY <1>12, <2>1, NextLowers DEF StoreRaises, PipFails
<1> QED BY <1>1, <1>2, <1>3, <1>4, <1>5, <1>6, <1>7, <1>8, <1>9, <1>10, <1>11, <1>12 DEF Step

\* A step of one process does not touch the place, plan or questions of another.
LEMMA OthersStay ==
    ASSUME NEW p \in Processes, NEW q \in Processes, p # q, RestOK,
           Step(q) \/ Crash(q) \/ Maintain(q) \/ \E k \in Keys : Begin(q, k)
    PROVE  pc'[p] = pc[p] /\ plan'[p] = plan[p] /\ polls'[p] = polls[p]
<1>1. CASE Maintain(q) \/ \E k \in Keys : Begin(q, k)
    BY <1>1 DEF Maintain, procVars, Begin, Goto, RestOK
<1>2. \A x, h : Try(q, x, h) => pc'[p] = pc[p] /\ plan'[p] = plan[p] /\ polls'[p] = polls[p]
    BY DEF Try, Goto, RestOK
<1>3. End(q) \/ NextStrategy(q) => pc'[p] = pc[p] /\ plan'[p] = plan[p] /\ polls'[p] = polls[p]
    BY DEF End, NextStrategy, Goto, RestOK
<1>4. CASE Crash(q)
    BY <1>3, <1>4 DEF Crash
<1>5. ASSUME NEW l, Goto(q, l) PROVE pc'[p] = pc[p]
    BY <1>5 DEF Goto, RestOK
<1>6. CASE ResolveInstalled(q) \/ ResolveCached(q) \/ QueryAnswered(q) \/ QueryFailed(q)
    BY <1>2, <1>3, <1>5, <1>6 DEF ResolveInstalled, ResolveCached, QueryAnswered, QueryFailed
<1>7. CASE Exhausted(q) \/ SetupExec(q) \/ PipSucceeds(q) \/ InstallTermux(q) \/ StoreRaises(q) \/ PipFails(q)
    BY <1>3, <1>7 DEF Exhausted, SetupExec, PipSucceeds, InstallTermux, StoreRaises, PipFails
<1>8. CASE InstallLocal(q) \/ Fetch(q) \/ Downloaded(q) \/ Store(q)
    BY <1>3, <1>5, <1>8 DEF InstallLocal, Fetch, Downloaded, Store
<1>9. CASE DownloadFails(q)
    BY <1>3, <1>5, <1>9 DEF DownloadFails, RestOK
<1> QED BY <1>1, <1>4, <1>6, <1>7, <1>8, <1>9 DEF Step

RanksOK == \A p \in Processes : Rank(p) \in Nat /\ (Rank(p) = 0 <=> pc[p] = "idle")

\* How the rank of an install goes.
Ranked == \A p \in Processes : Rank(p) \in 0..MaxRank /\ (Rank(p) = 0 <=> pc[p] = "idle")

RankStep ==
    \A p \in Processes :
        /\ Step(p) => Rank(p)' < Rank(p)
        /\ pc[p] # "idle" => Rank(p)' <= Rank(p)

LEMMA RanksNext == RestOK' => RanksOK'
<1>1. RestOK => RanksOK
    BY RankType DEF RanksOK
<1> QED BY <1>1, PTL

LEMMA RanksFall ==
    ASSUME RestOK, Ranked, [Next]_vars
    PROVE  Ranked' /\ RankStep
<1>1. RestOK'
    BY NextRest
<1>2. \A p \in Processes : Rank(p) \in Nat /\ (Rank(p) = 0 <=> pc[p] = "idle")
    BY RankType
<1>3. \A p \in Processes : Rank(p)' \in Nat /\ (Rank(p)' = 0 <=> pc'[p] = "idle")
    BY <1>1, RanksNext DEF RanksOK
<1>4. ASSUME NEW p \in Processes
      PROVE  Rank(p)' <= Rank(p) \/ (pc[p] = "idle" /\ Rank(p)' = MaxRank)
    <2>1. Rank(p) \in Nat /\ Rank(p)' \in Nat
        BY <1>2, <1>3
    <2>2. ASSUME pc'[p] = pc[p], plan'[p] = plan[p], polls'[p] = polls[p]
          PROVE  Rank(p)' <= Rank(p)
        BY <2>1, <2>2, RankSame
    <2>3. CASE Step(p) \/ Crash(p)
        <3>1. Rank(p)' < Rank(p)
            BY <2>3, StepLowers, EndLowers DEF Crash
        <3> QED BY <2>1, <3>1
    <2>4. CASE Maintain(p)
        BY <2>2, <2>4 DEF Maintain, procVars
    <2>5. CASE \E k \in Keys : Begin(p, k)
        <3>1. pc[p] = "idle" /\ pc'[p] = "resolve"
            BY <2>5 DEF Begin, Goto, RestOK
        <3> QED BY <3>1 DEF Rank
    <2>6. ASSUME NEW q \in Processes, p # q, Step(q) \/ Crash(q) \/ Maintain(q) \/ \E k \in Keys : Begin(q, k)
          PROVE  Rank(p)' <= Rank(p)
        BY <2>2, <2>6, OthersStay
    <2>7. CASE (\E k \in Keys : Uninstall(k)) \/ UNCHANGED vars
        BY <2>2, <2>7 DEF Uninstall, vars, procVars
    <2> QED BY <2>3, <2>4, <2>5, <2>6, <2>7 DEF Next
<1>5. RankStep
    BY <1>2, <1>3, <1>4, StepLowers DEF RankStep
<1>6. MaxRank \in Nat
    BY InstallAssumption DEF MaxRank
<1>7. ASSUME NEW p \in Processes PROVE Rank(p)' \in 0..MaxRank
    <2>1. Rank(p)' \in Nat /\ Rank(p) \in 0..MaxRank
        BY <1>3 DEF Ranked
    <2> QED BY <1>4, <1>6, <2>1
<1>8. Ranked'
    BY <1>3, <1>7 DEF Ranked, MaxRank
<1> QED BY <1>5, <1>8

\* Every step of an install brings it nearer to its end, and nothing that other processes do to
\* the cache sends it back: whatever the registry, the downloads and pip answer, the resolver
\* and the chain of strategies make 5 * (4 + MaxPolls) + 3 steps at most, for any number of
\* processes.
THEOREM InstallsGetOn == Spec => []Ranked /\ [][RankStep]_vars
<1>1. Init => Ranked
    <2> SUFFICES ASSUME Init PROVE Ranked
        OBVIOUS
    <2>1. \A p \in Processes : Rank(p) = 0 /\ pc[p] = "idle"
        BY DEF Init, Rank
    <2>2. MaxRank \in Nat
        BY InstallAssumption DEF MaxRank
    <2> QED BY <2>1, <2>2 DEF Ranked
<1>2. RestOK /\ Ranked /\ [Next]_vars => Ranked' /\ [RankStep]_vars
    BY RanksFall
<1>3. Spec => []RestOK
    BY InstallHolds, PTL DEF InstallInv
<1> QED BY <1>1, <1>2, <1>3, PTL DEF Spec
=============================================================================
