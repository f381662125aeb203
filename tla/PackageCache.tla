---------------------------- MODULE PackageCache ----------------------------
(***************************************************************************)
(* The client's wheel cache (client/cache.py).  The commands of cpip and   *)
(* its daemon are processes that share a directory of wheels and the file  *)
(* cache.json; each has the index it read from that file when it started,  *)
(* changes its own copy and writes all of it back.                         *)
(*                                                                         *)
(* An index is the list of its entries, the least recently used first.  A  *)
(* file holds the wheel it is named for, another body that the server sent *)
(* in its place, or a part; its hash stands for its content.               *)
(***************************************************************************)
EXTENDS Integers, Sequences, FiniteSets, SequencesExt, Lists

CONSTANTS
    Processes,
    Keys,      \* package:version
    Files,     \* names in the directory of wheels
    FileOf,    \* the name of a key's wheel: keys may share one
    SizeOf,    \* the size of the wheel of each name
    Limit,     \* 90% of max_size_mb
    None

Bodies == {"wheel", "error", "part"}

ASSUME CacheAssumption ==
    /\ IsFiniteSet(Files) /\ Files # {}
    /\ FileOf \in [Keys -> Files]
    /\ SizeOf \in [Files -> Nat \ {0}]
    /\ Limit \in Nat
    /\ None \notin Bodies

Size(f, body) == IF body = "wheel" THEN SizeOf[f] ELSE 1

MaxSize == Max({SizeOf[f] : f \in Files})

VARIABLES
    index,   \* _index of each process
    disk,    \* the index in cache.json; a file that cannot be read is <<>>
    files    \* the directory of wheels: name -> body or None

cacheVars == <<index, disk, files>>

CacheInit ==
    /\ index = [p \in Processes |-> <<>>]
    /\ disk = <<>>
    /\ files = [f \in Files |-> None]

Entry(key, sha, size) == [key |-> key, sha |-> sha, size |-> size]
Has(idx, k)     == \E i \in DOMAIN idx : idx[i].key = k
EntryOf(idx, k) == idx[CHOOSE i \in DOMAIN idx : idx[i].key = k]
Without(idx, k) == SubList(idx, {i \in DOMAIN idx : idx[i].key # k})
Total(idx)      == SumSeq([i \in DOMAIN idx |-> idx[i].size])

\* The index becomes idx in memory, and is written out.  Writing begins by emptying
\* the file, and an error is ignored: it may be left cut short.
Save(p, idx) ==
    /\ index' = [index EXCEPT ![p] = idx]
    /\ disk' \in {idx, <<>>}

\* A process starts on what it can read of cache.json.
Load(p) ==
    /\ index' = [index EXCEPT ![p] = disk]
    /\ UNCHANGED <<disk, files>>

\* get_wheel finds the file with the content the entry was made for.
Hit(p, k) ==
    /\ Has(index[p], k)
    /\ files[FileOf[k]] = EntryOf(index[p], k).sha

\* The effect of get_wheel: a hit becomes the most recently used; an entry that
\* misses its file is dropped, and a file with another content is removed.
GetWheel(p, k) ==
    \/ ~Has(index[p], k) /\ UNCHANGED cacheVars
    \/ /\ Hit(p, k)
       /\ Save(p, Append(Without(index[p], k), EntryOf(index[p], k)))
       /\ UNCHANGED files
    \/ /\ Has(index[p], k)
       /\ ~Hit(p, k)
       /\ files' = [files EXCEPT ![FileOf[k]] = None]
       /\ Save(p, Without(index[p], k))

\* _maybe_evict removes the least recently used entries, as few as bring the total
\* down to the limit.
Evicted(idx) ==
    CHOOSE n \in 0..Len(idx) :
        /\ Total(SubSeq(idx, n + 1, Len(idx))) <= Limit
        /\ \A m \in 0..(n - 1) : Total(SubSeq(idx, m + 1, Len(idx))) > Limit

EvictedFiles(idx) == {FileOf[idx[i].key] : i \in 1..Evicted(idx)}

\* Mutant: the cache is never evicted.
KeptAll(idx) == idx

Kept(idx) == SubSeq(idx, Evicted(idx) + 1, Len(idx))

\* store_wheel of a file that is in the directory already: evict, then look at the
\* file.  The eviction may have removed it, for another key of the same name.
Evict(p) ==
    files' = [f \in Files |-> IF f \in EvictedFiles(index[p]) THEN None ELSE files[f]]

\* sha is the hash the caller gives, or None.
StoreWheel(p, k, sha) ==
    LET f    == FileOf[k]
        body == files[f]
        hash == IF sha = None THEN body ELSE sha
    IN  /\ Evict(p)
        /\ files'[f] # None
        /\ Save(p, Append(Without(Kept(index[p]), k), Entry(k, hash, Size(f, body))))

StoreFails(p, k) ==
    /\ Evict(p)
    /\ files'[FileOf[k]] = None
    /\ Save(p, Kept(index[p]))

\* cpip doctor: verify_integrity drops the entries that miss their file or find
\* another content in it, and removes such a file.  Of two entries that share one,
\* the sound one is kept if it is looked at first.
Verify(p) ==
    LET Sound(e)   == files[FileOf[e.key]] = e.sha
        Removed    == {FileOf[index[p][i].key] : i \in {i \in DOMAIN index[p] : ~Sound(index[p][i])}}
        Shared     == {index[p][i].key : i \in {i \in DOMAIN index[p] :
                          Sound(index[p][i]) /\ FileOf[index[p][i].key] \in Removed}}
    IN  \E late \in SUBSET Shared :
          /\ files' = [f \in Files |-> IF f \in Removed THEN None ELSE files[f]]
          /\ IF \A i \in DOMAIN index[p] : Sound(index[p][i])
             THEN UNCHANGED <<index, disk>>
             ELSE Save(p, SubList(index[p], {i \in DOMAIN index[p] :
                              Sound(index[p][i]) /\ index[p][i].key \notin late}))

Clear(p) ==
    /\ files' = [f \in Files |-> None]
    /\ Save(p, <<>>)
=============================================================================
