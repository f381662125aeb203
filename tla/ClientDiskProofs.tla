-------------------------- MODULE ClientDiskProofs --------------------------
(***************************************************************************)
(* Proofs about what the client keeps on disk: virtual packages, the       *)
(* infrastructure configurations and the settings, for any packages,       *)
(* layers, managers and commands.                                          *)
(***************************************************************************)
EXTENDS ClientDisk, PackageInstallProofs

-----------------------------------------------------------------------------
(* Virtual packages                                                        *)

\* The package that is being composed has a manifest and an unfinished tree, and is not
\* mounted.
ComposingOK ==
    \A n \in composing :
        /\ composing = {n}
        /\ manifests[n] # NoLayers /\ mounts[n] = NoLayers
        /\ trees[manifests[n]] # NoLayers

LayersInv == LayersTypeOK /\ ComposingOK

\* What is copied for a list is of its layers.
LEMMA CopiedType ==
    ASSUME LayersTypeOK, NEW q \in Lists
    PROVE  /\ Copied(q) \subseteq ToSet(q) \X Data
           /\ ToSet(q) \subseteq Layers /\ ToSet(q) \X Data \subseteq Layers \X Data
<1>1. q \in Seq(Layers) /\ ToSet(q) \subseteq Layers
    <2>1. q \in Seq(Layers)
        BY LayerAssumption
    <2> QED BY <2>1 DEF ToSet
<1>2. \A l \in Layers : l \in Data /\ inside[l] \in Data
    BY DEF LayersTypeOK, Data
<1> QED BY <1>1, <1>2 DEF Copied

\* A tree is composed, or has begun to be.
LEMMA TreeChanges ==
    ASSUME LayersTypeOK, NEW q \in Lists, NEW T \in SUBSET Copied(q),
           trees' = [trees EXCEPT ![q] = T]
    PROVE  /\ trees' \in [Lists -> {NoLayers} \cup SUBSET (Layers \X Data)]
           /\ \A r \in Lists : trees'[r] # NoLayers => trees'[r] \subseteq ToSet(r) \X Data
           /\ trees'[q] = T /\ T # NoLayers
           /\ \A r \in Lists : r # q => trees'[r] = trees[r]
<1>1. T \in SUBSET (Layers \X Data) /\ T \subseteq ToSet(q) \X Data
    BY CopiedType
<1>2. T # NoLayers
    BY <1>1, LayerAssumption
<1>3. trees'[q] = T /\ \A r \in Lists : r # q => trees'[r] = trees[r]
    BY DEF LayersTypeOK
<1>4. trees' \in [Lists -> {NoLayers} \cup SUBSET (Layers \X Data)]
    BY <1>1 DEF LayersTypeOK
<1> QED BY <1>1, <1>2, <1>3, <1>4 DEF LayersTypeOK

\* A tree that is written again is still there.
LEMMA TreesKeepMounts ==
    ASSUME LayersTypeOK, NEW q \in Lists, NEW T \in SUBSET Copied(q),
           trees' = [trees EXCEPT ![q] = T]
    PROVE  \A r \in Lists : trees[r] # NoLayers => trees'[r] # NoLayers
BY TreeChanges

\* Directories and downloads.
DirsOK ==
    /\ dirs \in [Data -> {"absent", "part", "whole"}] /\ inside \in [Data -> Data]
    /\ busy \in [Data -> {"me", "other", "nobody"}]
    /\ \A d \in Data : busy[d] # "nobody" => dirs[d] = "part"

\* Trees and what is mounted.
TreesOK ==
    /\ trees \in [Lists -> {NoLayers} \cup SUBSET (Layers \X Data)]
    /\ \A q \in Lists : trees[q] # NoLayers => trees[q] \subseteq ToSet(q) \X Data
    /\ composing \subseteq Packages
    /\ manifests \in [Packages -> Lists \cup {NoLayers}]
    /\ mounts \in [Packages -> Lists \cup {NoLayers}]
    /\ \A n \in Packages : mounts[n] # NoLayers => trees[mounts[n]] # NoLayers
    /\ path \in Seq(Lists)
    /\ modules \in [LazyPackages -> {"absent", "lazy", "real", "empty"}]
    /\ ComposingOK

\* The type of the layers in three parts, which different steps disturb.
LEMMA LayersParts == LayersInv <=> DirsOK /\ TreesOK /\ held \in {<<>>} \cup (Layers \X Data)
BY DEF LayersInv, LayersTypeOK, DirsOK, TreesOK

\* Extracting writes into the directory of one layer.
LEMMA ExtractType ==
    ASSUME DirsOK, NEW d \in Data, NEW data \in Data, NEW who \in {"me", "other"},
           Extract(d, data, who)
    PROVE  DirsOK'
BY DEF DirsOK, Extract, dirVars

\* Mounting a tree that is there changes the mounts and the path within their types.
LEMMA MountTreeType ==
    ASSUME TreesOK, NEW n \in Packages, NEW q \in Lists, MountTree(n, q), composing' = {},
           trees' \in [Lists -> {NoLayers} \cup SUBSET (Layers \X Data)],
           \A r \in Lists : trees'[r] # NoLayers => trees'[r] \subseteq ToSet(r) \X Data,
           \A r \in Lists : trees[r] # NoLayers => trees'[r] # NoLayers,
           trees[q] # NoLayers
    PROVE  TreesOK'
<1>1. <<q>> \o path \in Seq(Lists) /\ path' \in Seq(Lists)
    BY DEF TreesOK, MountTree
<1>2. \A m \in Packages : mounts'[m] = IF m = n THEN q ELSE mounts[m]
    BY DEF TreesOK, MountTree
<1>3. mounts' \in [Packages -> Lists \cup {NoLayers}]
    BY DEF TreesOK, MountTree
<1>4. \A m \in Packages : mounts'[m] # NoLayers => trees'[mounts'[m]] # NoLayers
    BY <1>2 DEF TreesOK
<1> QED BY <1>1, <1>3, <1>4 DEF TreesOK, MountTree, ComposingOK

\* list.remove leaves a list of the same things.
LEMMA RemovedType ==
    ASSUME NEW T, NEW s \in Seq(T), NEW e
    PROVE  RemoveFirst(s, e) \in Seq(T)
<1>1. CASE \E i \in 1..Len(s) : s[i] = e
    BY <1>1, RemoveFirstMembers
<1>2. CASE ~ \E i \in 1..Len(s) : s[i] = e
    BY <1>2 DEF RemoveFirst
<1> QED BY <1>1, <1>2

LEMMA LayersInvStarts == LayersInit => LayersInv
BY DEF LayersInit, LayersInv, LayersTypeOK, ComposingOK

LEMMA DirsSteps ==
    ASSUME LayersInv, LayersNext
    PROVE  DirsOK' /\ held' \in {<<>>} \cup (Layers \X Data)
<1>1. DirsOK /\ held \in {<<>>} \cup (Layers \X Data)
    BY LayersParts
<1>2. UNCHANGED dirVars => DirsOK'
    BY <1>1 DEF DirsOK, dirVars
<1>3. ASSUME NEW l \in Layers, NEW data \in {l, Stray}, NEW checked \in BOOLEAN,
             Download(l, data, checked)
      PROVE  DirsOK' /\ held' \in {<<>>} \cup (Layers \X Data)
    <2>1. l \in Layers /\ data \in Data /\ held' = <<l, data>>
        BY <1>3 DEF Download, Data
    <2>2. UNCHANGED dirVars
        BY <1>3 DEF Download
    <2> QED BY <1>2, <2>1, <2>2
<1>4. ASSUME NEW l \in Layers, OtherStores(l)
      PROVE  DirsOK' /\ held' \in {<<>>} \cup (Layers \X Data)
    BY <1>1, <1>4, ExtractType DEF OtherStores, Data
<1>5. ASSUME NEW d \in Data, NEW ok \in BOOLEAN, Extracted(d, ok)
      PROVE  DirsOK' /\ held' \in {<<>>} \cup (Layers \X Data)
    BY <1>1, <1>5 DEF Extracted, DirsOK
<1>6. CASE StoreLayer
    <2>1. held[2] \in Data
        BY <1>1, <1>6 DEF StoreLayer
    <2> QED BY <1>1, <1>6, <2>1, ExtractType DEF StoreLayer
<1>7. ASSUME NEW active \in SUBSET Layers, CleanUp(active)
      PROVE  DirsOK' /\ held' \in {<<>>} \cup (Layers \X Data)
    BY <1>1, <1>7 DEF CleanUp, DirsOK
<1>8. CASE held' = held /\ UNCHANGED dirVars
    BY <1>1, <1>2, <1>8
<1> QED BY <1>3, <1>4, <1>5, <1>6, <1>7, <1>8
        DEF LayersNext, OtherComposes, StoreManifest, Mount, Composed, ComposeFails, Unmount,
            ImportLazy, FirstUse, mountVars

LEMMA TreesSteps ==
    ASSUME LayersInv, LayersNext
    PROVE  TreesOK'
<1>1. TreesOK /\ LayersTypeOK /\ ComposingOK
    BY LayersParts DEF LayersInv
<1>2. CASE UNCHANGED <<trees, composing, mountVars>>
    BY <1>1, <1>2 DEF TreesOK, ComposingOK, mountVars
<1>3. ASSUME NEW q \in Lists, NEW some \in SUBSET Copied(q), OtherComposes(q, some)
      PROVE  TreesOK'
    <2>1. trees' = [trees EXCEPT ![q] = some] /\ UNCHANGED <<composing, mountVars>>
        BY <1>3 DEF OtherComposes
    <2>2. \A r \in Lists : trees[r] # NoLayers => trees'[r] # NoLayers
        BY <1>1, <2>1, TreesKeepMounts
    <2>3. /\ trees' \in [Lists -> {NoLayers} \cup SUBSET (Layers \X Data)]
          /\ \A r \in Lists : trees'[r] # NoLayers => trees'[r] \subseteq ToSet(r) \X Data
        BY <1>1, <2>1, TreeChanges
    <2> QED BY <1>1, <2>1, <2>2, <2>3 DEF TreesOK, ComposingOK, mountVars
<1>4. ASSUME NEW n \in Packages, NEW q \in Lists \cup {NoLayers}, StoreManifest(n, q)
      PROVE  TreesOK'
    <2>1. composing = {} /\ UNCHANGED <<trees, composing, mounts, path, modules>>
          /\ manifests' = [manifests EXCEPT ![n] = q]
        BY <1>4 DEF StoreManifest, Free
    <2> QED BY <1>1, <2>1 DEF TreesOK, ComposingOK
<1>5. ASSUME NEW n \in Packages, Mount(n) PROVE TreesOK'
    <2> DEFINE q == manifests[n]
    <2>1. q \in Lists /\ mounts[n] = NoLayers /\ composing = {}
        BY <1>1, <1>5 DEF Mount, TreesOK, Free
    <2>2. CASE /\ trees' = [trees EXCEPT ![q] = {}] /\ composing' = {n}
               /\ UNCHANGED mountVars
        <3>1. {} \in SUBSET Copied(q)
            OBVIOUS
        <3> HIDE DEF q
        <3>2. /\ trees' \in [Lists -> {NoLayers} \cup SUBSET (Layers \X Data)]
              /\ \A r \in Lists : trees'[r] # NoLayers => trees'[r] \subseteq ToSet(r) \X Data
              /\ trees'[q] # NoLayers
            BY <1>1, <2>1, <2>2, <3>1, TreeChanges
        <3>3. \A r \in Lists : trees[r] # NoLayers => trees'[r] # NoLayers
            BY <1>1, <2>1, <2>2, <3>1, TreesKeepMounts
        <3> QED BY <1>1, <2>1, <2>2, <3>2, <3>3, LayerAssumption
                DEF TreesOK, ComposingOK, mountVars, q
    <2>3. CASE /\ trees[q] # NoLayers /\ MountTree(n, q) /\ UNCHANGED <<trees, composing>>
        <3> HIDE DEF q
        <3>1. /\ trees' \in [Lists -> {NoLayers} \cup SUBSET (Layers \X Data)]
              /\ \A r \in Lists : trees'[r] # NoLayers => trees'[r] \subseteq ToSet(r) \X Data
              /\ \A r \in Lists : trees[r] # NoLayers => trees'[r] # NoLayers
              /\ composing' = {}
            BY <1>1, <2>1, <2>3 DEF TreesOK
        <3> QED BY <1>1, <2>1, <2>3, <3>1, MountTreeType
    <2> QED BY <1>5, <2>2, <2>3 DEF Mount
<1>6. ASSUME NEW n \in Packages, Composed(n) PROVE TreesOK'
    <2> DEFINE q == manifests[n]
    <2>1. q \in Lists /\ trees[q] # NoLayers /\ Copied(q) \in SUBSET Copied(q)
        BY <1>1, <1>6 DEF Composed, TreesOK, ComposingOK
    <2>2. trees' = [trees EXCEPT ![q] = Copied(q)] /\ MountTree(n, q) /\ composing' = {}
        BY <1>6 DEF Composed
    <2> HIDE DEF q
    <2>3. /\ trees' \in [Lists -> {NoLayers} \cup SUBSET (Layers \X Data)]
          /\ \A r \in Lists : trees'[r] # NoLayers => trees'[r] \subseteq ToSet(r) \X Data
        BY <1>1, <2>1, <2>2, TreeChanges
    <2>4. \A r \in Lists : trees[r] # NoLayers => trees'[r] # NoLayers
        BY <1>1, <2>1, <2>2, TreesKeepMounts
    <2> QED BY <1>1, <2>1, <2>2, <2>3, <2>4, MountTreeType
<1>7. ASSUME NEW n \in Packages, ComposeFails(n) PROVE TreesOK'
    <2> DEFINE q == manifests[n]
    <2>1. q \in Lists
        BY <1>1, <1>7 DEF ComposeFails, TreesOK, ComposingOK
    <2>2. PICK some \in SUBSET Copied(q) : trees' = [trees EXCEPT ![q] = some]
        BY <1>7 DEF ComposeFails
    <2>3. composing' = {} /\ UNCHANGED mountVars
        BY <1>7 DEF ComposeFails
    <2> HIDE DEF q
    <2>4. /\ trees' \in [Lists -> {NoLayers} \cup SUBSET (Layers \X Data)]
          /\ \A r \in Lists : trees'[r] # NoLayers => trees'[r] \subseteq ToSet(r) \X Data
        BY <1>1, <2>1, <2>2, TreeChanges
    <2>5. \A r \in Lists : trees[r] # NoLayers => trees'[r] # NoLayers
        BY <1>1, <2>1, <2>2, TreesKeepMounts
    <2> QED BY <1>1, <2>3, <2>4, <2>5 DEF TreesOK, ComposingOK, mountVars
<1>8. ASSUME NEW n \in Packages, Unmount(n) PROVE TreesOK'
    <2>1. path' \in Seq(Lists)
        BY <1>1, <1>8, RemovedType DEF Unmount, TreesOK
    <2>2. composing = {} /\ UNCHANGED <<trees, composing, manifests>>
        BY <1>8 DEF Unmount, Free
    <2>3. /\ mounts' \in [Packages -> Lists \cup {NoLayers}]
          /\ \A m \in Packages : mounts'[m] = IF m = n THEN NoLayers ELSE mounts[m]
        BY <1>1, <1>8 DEF Unmount, TreesOK
    <2>4. modules' \in [LazyPackages -> {"absent", "lazy", "real", "empty"}]
        BY <1>1, <1>8 DEF Unmount, TreesOK
    <2> QED BY <1>1, <2>1, <2>2, <2>3, <2>4 DEF TreesOK, ComposingOK
<1>9. ASSUME NEW n \in LazyPackages, ImportLazy(n) \/ FirstUse(n) PROVE TreesOK'
    <2>1. modules' \in [LazyPackages -> {"absent", "lazy", "real", "empty"}]
        BY <1>1, <1>9 DEF ImportLazy, FirstUse, TreesOK
    <2> QED BY <1>1, <1>9, <2>1 DEF ImportLazy, FirstUse, TreesOK, ComposingOK
<1> QED BY <1>2, <1>3, <1>4, <1>5, <1>6, <1>7, <1>8, <1>9
        DEF LayersNext, Download, OtherStores, Extracted, StoreLayer, CleanUp

LEMMA LayersInvSteps == LayersInv /\ [LayersNext]_layerVars => LayersInv'
<1>1. LayersInv /\ LayersNext => LayersInv'
    BY DirsSteps, TreesSteps DEF LayersInv, LayersTypeOK, DirsOK, TreesOK
<1>2. LayersInv /\ UNCHANGED layerVars => LayersInv'
    BY DEF LayersInv, LayersTypeOK, ComposingOK, layerVars
<1> QED BY <1>1, <1>2

\* Whatever other programs store, compose and clean up meanwhile, a directory into which
\* somebody extracts is a part, and a package counts as mounted only when its tree is there.
THEOREM LayersTypeCorrect == LayersSpec => []LayersTypeOK
<1>1. LayersInv => LayersTypeOK
    BY DEF LayersInv
<1> QED BY <1>1, LayersInvStarts, LayersInvSteps, PTL DEF LayersSpec

\* What a path without repetitions is after a tree is put in front of it or taken away.
LEMMA PathGrows ==
    ASSUME NEW s \in Seq(Lists), IsInjective(s), NEW q, q \in Lists, ~Contains(s, q)
    PROVE  /\ IsInjective(<<q>> \o s)
           /\ \A i \in DOMAIN (<<q>> \o s) :
                  (<<q>> \o s)[i] = q \/ \E n \in DOMAIN s : (<<q>> \o s)[i] = s[n]
<1> DEFINE t == <<q>> \o s
<1>1. /\ DOMAIN s = 1..Len(s) /\ Len(s) \in Nat
      /\ DOMAIN t = 1..(Len(s) + 1) /\ t[1] = q
      /\ \A i \in 2..(Len(s) + 1) : t[i] = s[i - 1] /\ i - 1 \in 1..Len(s)
    OBVIOUS
<1>2. \A i \in 1..(Len(s) + 1) : i = 1 \/ i \in 2..(Len(s) + 1)
    BY <1>1
<1>3. \A i \in 1..Len(s) : s[i] # q
    BY DEF Contains
<1> HIDE DEF t
<1>4. ASSUME NEW i \in DOMAIN t, NEW n \in DOMAIN t, t[i] = t[n] PROVE i = n
    <2>1. CASE i = 1 \/ n = 1
        BY <1>1, <1>2, <1>3, <1>4, <2>1
    <2>2. CASE i \in 2..(Len(s) + 1) /\ n \in 2..(Len(s) + 1)
        <3>1. s[i - 1] = s[n - 1] /\ i - 1 \in DOMAIN s /\ n - 1 \in DOMAIN s
            BY <1>1, <1>4, <2>2
        <3>2. i - 1 = n - 1
            BY <3>1 DEF IsInjective
        <3> QED BY <1>1, <2>2, <3>2
    <2> QED BY <1>1, <1>2, <2>1, <2>2
<1> QED BY <1>1, <1>2, <1>4 DEF IsInjective, t

\* list.remove of a path without repetitions takes out the only occurrence.
LEMMA PathShrinks ==
    ASSUME NEW s \in Seq(Lists), IsInjective(s), NEW e
    PROVE  /\ IsInjective(RemoveFirst(s, e))
           /\ \A i \in DOMAIN RemoveFirst(s, e) :
                  /\ RemoveFirst(s, e)[i] # e
                  /\ \E n \in DOMAIN s : RemoveFirst(s, e)[i] = s[n]
<1>1. DOMAIN s = 1..Len(s) /\ Len(s) \in Nat
    OBVIOUS
<1>2. CASE \E i \in 1..Len(s) : s[i] = e
    <2>1. PICK j \in 1..Len(s) : s[j] = e /\ RemoveFirst(s, e) = RemoveAt(s, j)
        BY <1>2, RemoveFirstAt
    <2> DEFINE t == RemoveAt(s, j)
    <2>2. /\ t \in Seq(Lists) /\ Len(t) = Len(s) - 1
          /\ \A i \in 1..(Len(s) - 1) : t[i] = IF i < j THEN s[i] ELSE s[i + 1]
        BY RemoveAtMembers
    <2> HIDE DEF t
    <2>3. DOMAIN t = 1..(Len(s) - 1)
        BY <2>2
    <2> DEFINE Was(i) == IF i < j THEN i ELSE i + 1
    <2>4. \A i \in 1..(Len(s) - 1) : Was(i) \in 1..Len(s) /\ Was(i) # j /\ t[i] = s[Was(i)]
        BY <1>1, <2>2
    <2>5. \A i, n \in 1..(Len(s) - 1) : Was(i) = Was(n) => i = n
        BY <1>1
    <2> HIDE DEF Was
    <2>6. IsInjective(t)
        BY <1>1, <2>3, <2>4, <2>5 DEF IsInjective
    <2>7. \A i \in 1..(Len(s) - 1) : t[i] # e /\ \E n \in DOMAIN s : t[i] = s[n]
        BY <1>1, <2>1, <2>4 DEF IsInjective
    <2> QED BY <2>1, <2>3, <2>6, <2>7 DEF t
<1>3. CASE ~ \E i \in 1..Len(s) : s[i] = e
    <2>1. RemoveFirst(s, e) = s
        BY <1>3 DEF RemoveFirst
    <2> QED BY <1>1, <1>3, <2>1
<1> QED BY <1>2, <1>3

\* Mounting puts a tree on the path that is there only for packages mounted on it.
LEMMA MountTreeOnPath ==
    ASSUME LayersInv, PathsAreMounts, NEW n \in Packages, NEW q \in Lists,
           mounts[n] = NoLayers, MountTree(n, q)
    PROVE  PathsAreMounts'
<1>1. path \in Seq(Lists) /\ mounts \in [Packages -> Lists \cup {NoLayers}]
    BY DEF LayersInv, LayersTypeOK
<1>2. mounts'[n] = q /\ \A m \in Packages : m # n => mounts'[m] = mounts[m]
    BY <1>1 DEF MountTree
<1>3. \A i \in DOMAIN path : \E m \in Packages : mounts'[m] = path[i]
    <2>1. \A i \in DOMAIN path : path[i] # NoLayers
        BY <1>1, LayerAssumption
    <2> QED BY <1>2, <2>1 DEF PathsAreMounts
<1>4. CASE Contains(path, q)
    BY <1>3, <1>4 DEF PathsAreMounts, MountTree
<1>5. CASE ~Contains(path, q)
    <2>1. /\ IsInjective(path') /\ path' = <<q>> \o path
          /\ \A i \in DOMAIN path' : path'[i] = q \/ \E m \in DOMAIN path : path'[i] = path[m]
        BY <1>1, <1>5, PathGrows DEF PathsAreMounts, MountTree
    <2> QED BY <1>2, <1>3, <2>1 DEF PathsAreMounts
<1> QED BY <1>4, <1>5

LEMMA PathSteps == LayersInv /\ PathsAreMounts /\ [LayersNext]_layerVars => PathsAreMounts'
<1> SUFFICES ASSUME LayersInv, PathsAreMounts, [LayersNext]_layerVars PROVE PathsAreMounts'
    OBVIOUS
<1>1. UNCHANGED <<mounts, path>> => PathsAreMounts'
    BY DEF PathsAreMounts
<1>2. ASSUME NEW n \in Packages, NEW q \in Lists, mounts[n] = NoLayers, MountTree(n, q)
      PROVE  PathsAreMounts'
    BY <1>2, MountTreeOnPath
<1>3. ASSUME NEW n \in Packages, Mount(n) PROVE PathsAreMounts'
    <2>1. manifests[n] \in Lists /\ mounts[n] = NoLayers
        BY <1>3 DEF Mount, LayersInv, LayersTypeOK
    <2> QED BY <1>1, <1>2, <1>3, <2>1 DEF Mount, mountVars
<1>4. ASSUME NEW n \in Packages, Composed(n) PROVE PathsAreMounts'
    <2>1. manifests[n] \in Lists /\ mounts[n] = NoLayers
        BY <1>4 DEF Composed, LayersInv, LayersTypeOK, ComposingOK
    <2> QED BY <1>2, <1>4, <2>1 DEF Composed
<1>5. ASSUME NEW n \in Packages, Unmount(n) PROVE PathsAreMounts'
    <2>1. path \in Seq(Lists) /\ mounts \in [Packages -> Lists \cup {NoLayers}]
        BY DEF LayersInv, LayersTypeOK
    <2>2. /\ IsInjective(path')
          /\ \A i \in DOMAIN path' : path'[i] # mounts[n] /\ \E m \in DOMAIN path : path'[i] = path[m]
        BY <1>5, <2>1, PathShrinks DEF Unmount, PathsAreMounts
    <2>3. \A m \in Packages : m # n => mounts'[m] = mounts[m]
        BY <1>5, <2>1 DEF Unmount
    <2> QED BY <2>2, <2>3 DEF PathsAreMounts
<1> QED BY <1>1, <1>3, <1>4, <1>5
        DEF LayersNext, Download, OtherStores, Extracted, StoreLayer, CleanUp, OtherComposes,
            StoreManifest, ComposeFails, ImportLazy, FirstUse, mountVars, layerVars

\* Whatever order packages get new manifests, share trees, are mounted and unmounted in, a
\* tree is on the import path once, and for a package that is mounted on it: list.remove
\* takes out the only occurrence, and insert looks first.
THEOREM NoPathIsLeft == LayersSpec => []PathsAreMounts
<1>1. LayersInit => LayersInv /\ PathsAreMounts
    BY LayersInvStarts DEF LayersInit, PathsAreMounts, IsInjective
<1>2. LayersInv /\ PathsAreMounts /\ [LayersNext]_layerVars => (LayersInv /\ PathsAreMounts)'
    BY LayersInvSteps, PathSteps
<1> QED BY <1>1, <1>2, PTL DEF LayersSpec

\* The directory of a hash has the data with that hash, and a tree has copies of such
\* directories only.
ContentOK ==
    /\ \A d \in Data : inside[d] = d
    /\ \A q \in Lists : trees[q] # NoLayers => \A copy \in trees[q] : copy[1] = copy[2]

\* Copies of layers whose content is right are right.
LEMMA CopiedContent ==
    ASSUME LayersInv, ContentOK, NEW q \in Lists
    PROVE  \A copy \in Copied(q) : copy[1] = copy[2]
<1>1. ToSet(q) \subseteq Data
    BY CopiedType DEF LayersInv, Data
<1> QED BY <1>1 DEF ContentOK, Copied

LEMMA ContentSteps == LayersInv /\ ContentOK /\ [LayersNext]_layerVars => ContentOK'
<1> SUFFICES ASSUME LayersInv, ContentOK, [LayersNext]_layerVars PROVE ContentOK'
    OBVIOUS
<1>1. LayersTypeOK /\ inside \in [Data -> Data]
    BY DEF LayersInv, LayersTypeOK
<1>2. UNCHANGED <<inside, trees>> => ContentOK'
    BY DEF ContentOK
<1>3. ASSUME NEW d \in Data, NEW who, Extract(d, d, who), UNCHANGED trees PROVE ContentOK'
    BY <1>1, <1>3 DEF ContentOK, Extract, dirVars
<1>4. ASSUME NEW q \in Lists, NEW T \in SUBSET Copied(q), trees' = [trees EXCEPT ![q] = T],
             UNCHANGED inside
      PROVE  ContentOK'
    <2>1. trees'[q] = T /\ \A r \in Lists : r # q => trees'[r] = trees[r]
        BY <1>1, <1>4, TreeChanges
    <2>2. \A copy \in T : copy[1] = copy[2]
        BY CopiedContent
    <2> QED BY <1>4, <2>1, <2>2 DEF ContentOK
<1>5. ASSUME NEW n \in Packages, manifests[n] # NoLayers PROVE manifests[n] \in Lists
    BY <1>5, <1>1 DEF LayersTypeOK
<1>6. CASE StoreLayer
    <2>1. held[2] \in Data
        BY <1>1, <1>6 DEF StoreLayer, LayersTypeOK
    <2> QED BY <1>3, <1>6, <2>1 DEF StoreLayer
<1>7. ASSUME NEW l \in Layers, OtherStores(l) PROVE ContentOK'
    BY <1>3, <1>7 DEF OtherStores, Data
<1>8. ASSUME NEW q \in Lists, NEW some \in SUBSET Copied(q), OtherComposes(q, some)
      PROVE  ContentOK'
    BY <1>4, <1>8 DEF OtherComposes, dirVars
<1>9. ASSUME NEW n \in Packages, Mount(n) PROVE ContentOK'
    <2>1. {} \in SUBSET Copied(manifests[n])
        OBVIOUS
    <2> QED BY <1>2, <1>4, <1>5, <1>9, <2>1 DEF Mount, dirVars
<1>10. ASSUME NEW n \in Packages, Composed(n) \/ ComposeFails(n) PROVE ContentOK'
    <2>1. manifests[n] \in Lists /\ Copied(manifests[n]) \in SUBSET Copied(manifests[n])
        BY <1>5, <1>10 DEF Composed, ComposeFails, LayersInv, ComposingOK
    <2> QED BY <1>4, <1>10, <2>1 DEF Composed, ComposeFails, dirVars
<1> QED BY <1>2, <1>6, <1>7, <1>8, <1>9, <1>10
        DEF LayersNext, Download, Extracted, CleanUp, StoreManifest, Unmount, ImportLazy, FirstUse,
            dirVars, layerVars

\* What is imported under the name of a layer is that layer, although the program believes
\* what a download brings, takes a directory that is there for extracted and a tree that
\* is there for composed, and shares them with programs that change them meanwhile: the
\* content is named by its own hash, so a stray download is never found under a layer's.
THEOREM ContentIsRight == LayersSpec => []RightContent
<1>1. LayersInit => LayersInv /\ PathsAreMounts /\ ContentOK
    BY LayersInvStarts DEF LayersInit, PathsAreMounts, IsInjective, ContentOK
<1>2. LayersInv /\ PathsAreMounts /\ ContentOK /\ [LayersNext]_layerVars
      => (LayersInv /\ PathsAreMounts /\ ContentOK)'
    BY LayersInvSteps, PathSteps, ContentSteps
<1>3. LayersInv /\ PathsAreMounts /\ ContentOK => RightContent
    <2> SUFFICES ASSUME LayersInv, PathsAreMounts, ContentOK, NEW i \in DOMAIN path
                 PROVE  \A copy \in trees[path[i]] : copy[1] = copy[2]
        BY DEF RightContent
    <2>1. PICK n \in Packages : mounts[n] = path[i]
        BY DEF PathsAreMounts
    <2>2. path[i] \in Lists
        BY DEF LayersInv, LayersTypeOK
    <2>3. trees[path[i]] # NoLayers
        BY <2>1, <2>2, LayerAssumption DEF LayersInv, LayersTypeOK
    <2> QED BY <2>2, <2>3 DEF ContentOK
<1> QED BY <1>1, <1>2, <1>3, PTL DEF LayersSpec

-----------------------------------------------------------------------------
(* Infrastructure configurations                                           *)

\* A configuration is read back as it was written, and is not taken for a file that is
\* missing or torn.
LEMMA ReadBack ==
    ASSUME NEW c \in Config
    PROVE  /\ Deserialize(Serialize(c)) = c
           /\ Serialize(c) \notin {NoConfig, TornConfig}
           /\ Loaded(Serialize(c)) = c /\ c # NoConfig
<1> DEFINE d == Serialize(c)
<1>1. c = [type |-> c.type, provider |-> c.provider, gpus |-> c.gpus,
           watched |-> c.watched, figures |-> c.figures]
      /\ c.type \in Types /\ c.provider \in Providers /\ c.gpus \in SUBSET GPUs
    BY DEF Config
<1>2. d = [type |-> Value(c.type), provider |-> Value(c.provider),
           gpus |-> {Value(g) : g \in c.gpus}, watched |-> c.watched, figures |-> c.figures]
    BY DEF Serialize
<1> HIDE DEF d
<1>3. \A x, y : Value(x) = Value(y) => x = y
    BY DEF Value
<1>4. (CHOOSE t \in Types : Value(t) = Value(c.type)) = c.type
    BY <1>1, <1>3
<1>5. (CHOOSE p \in Providers : Value(p) = Value(c.provider)) = c.provider
    BY <1>1, <1>3
<1>6. {g \in GPUs : Value(g) \in {Value(h) : h \in c.gpus}} = c.gpus
    BY <1>1, <1>3
<1>7. Deserialize(d) = [type |-> CHOOSE t \in Types : Value(t) = d.type,
                        provider |-> CHOOSE p \in Providers : Value(p) = d.provider,
                        gpus |-> {g \in GPUs : Value(g) \in d.gpus},
                        watched |-> d.watched, figures |-> d.figures]
    BY DEF Deserialize
<1>8. Deserialize(d) = c
    BY <1>1, <1>2, <1>4, <1>5, <1>6, <1>7
<1>9. d \notin {NoConfig, TornConfig} /\ c # NoConfig
    BY ConfigAssumption DEF d
<1> QED BY <1>8, <1>9 DEF d, Loaded

\* The files and the managers' copies.
FilesOK ==
    /\ configs \in [Managers -> [Names -> Offered \cup {NoConfig}]]
    /\ configFiles \in [Names -> {Serialize(c) : c \in Offered} \cup {NoConfig, TornConfig}]
    /\ saving \in [Managers -> Writing \cup {NoConfig}]
    /\ abandoned \in [Managers -> SUBSET Names]

\* Who is doing what.
WritersOK ==
    /\ running \subseteq Managers /\ stale \subseteq running
    /\ \A m \in Managers : saving[m] # NoConfig => m \in running /\ saving[m].config \in Offered

\* What interactive_create can build is read back from its file as it was written.
LEMMA OfferedConfigs ==
    /\ Offered \subseteq Config
    /\ \A c \in Offered : /\ Deserialize(Serialize(c)) = c /\ Loaded(Serialize(c)) = c
                          /\ Serialize(c) \notin {NoConfig, TornConfig} /\ c # NoConfig
    /\ NoConfig # TornConfig /\ NoConfig \notin Writing
    /\ Loaded(NoConfig) = NoConfig /\ Loaded(TornConfig) = NoConfig
<1>1. Offered \subseteq Config
    BY DEF Offered
<1>2. NoConfig # TornConfig /\ NoConfig \notin Writing
    BY ConfigAssumption
<1> QED BY <1>1, <1>2, ReadBack DEF Loaded

\* A whole file is loaded as a configuration that was offered.
LEMMA LoadedType ==
    ASSUME FilesOK, NEW n \in Names
    PROVE  /\ Loaded(configFiles[n]) \in Offered \cup {NoConfig}
           /\ Whole(configFiles[n]) => Loaded(configFiles[n]) # NoConfig
<1>1. configFiles[n] \in {Serialize(c) : c \in Offered} \cup {NoConfig, TornConfig}
    BY DEF FilesOK
<1>2. CASE configFiles[n] \in {NoConfig, TornConfig}
    BY <1>2, OfferedConfigs DEF Whole
<1>3. ASSUME NEW c \in Offered, configFiles[n] = Serialize(c)
      PROVE  /\ Loaded(configFiles[n]) \in Offered
             /\ Loaded(configFiles[n]) # NoConfig
    BY <1>3, OfferedConfigs
<1> QED BY <1>1, <1>2, <1>3

\* What a dialogue may change of a configuration leaves it one that could be offered.
LEMMA ModifiedOffered ==
    ASSUME NEW c \in Offered
    PROVE  /\ \A w \in BOOLEAN : [c EXCEPT !.watched = w] \in Offered
           /\ \A f \in Figures : [c EXCEPT !.figures = f] \in Offered
<1>1. c \in Config
    BY OfferedConfigs
<1>2. ASSUME NEW w \in BOOLEAN PROVE [c EXCEPT !.watched = w] \in Offered
    <2> DEFINE e == [c EXCEPT !.watched = w]
    <2>1. e \in Config /\ e.type = c.type /\ e.provider = c.provider /\ e.gpus = c.gpus
        BY <1>1 DEF Config
    <2> HIDE DEF e
    <2> QED BY <2>1 DEF Offered, e
<1>3. ASSUME NEW f \in Figures PROVE [c EXCEPT !.figures = f] \in Offered
    <2> DEFINE e == [c EXCEPT !.figures = f]
    <2>1. e \in Config /\ e.type = c.type /\ e.provider = c.provider /\ e.gpus = c.gpus
        BY <1>1 DEF Config
    <2> HIDE DEF e
    <2> QED BY <2>1 DEF Offered, e
<1> QED BY <1>2, <1>3

\* How a save begins.
LEMMA Opened ==
    ASSUME FilesOK, WritersOK, NEW m \in Managers, NEW n \in Names, NEW c \in Offered,
           NEW asked \in BOOLEAN, m \in running, Open(m, n, c, asked)
    PROVE  /\ configFiles' \in [Names -> {Serialize(e) : e \in Offered} \cup {NoConfig, TornConfig}]
           /\ saving' \in [Managers -> Writing \cup {NoConfig}]
           /\ WritersOK'
           /\ saving'[m] # NoConfig /\ saving'[m].name = n /\ saving'[m].asked = asked
           /\ configFiles'[n] = TornConfig
           /\ \A k \in Managers : k # m => saving'[k] = saving[k]
           /\ \A k \in Names : k # n => configFiles'[k] = configFiles[k]
           /\ \A k \in running' \ stale' : k = m /\ k \in running \ stale
<1> DEFINE s == [name |-> n, config |-> c, asked |-> asked]
<1>1. s \in Writing /\ s # NoConfig /\ s.config = c /\ s.name = n /\ s.asked = asked
    BY OfferedConfigs DEF Writing
<1> HIDE DEF s
<1>2. saving' = [saving EXCEPT ![m] = s]
    BY DEF Open, s
<1>3. /\ saving'[m] = s /\ \A k \in Managers : k # m => saving'[k] = saving[k]
      /\ saving' \in [Managers -> Writing \cup {NoConfig}]
    BY <1>1, <1>2 DEF FilesOK
<1>4. /\ configFiles' \in [Names -> {Serialize(e) : e \in Offered} \cup {NoConfig, TornConfig}]
      /\ configFiles'[n] = TornConfig
      /\ \A k \in Names : k # n => configFiles'[k] = configFiles[k]
    BY DEF FilesOK, Open
<1>5. running' = running /\ stale' = stale \cup (running \ {m})
    BY DEF Open
<1>6. WritersOK'
    BY <1>1, <1>3, <1>5 DEF WritersOK
<1> QED BY <1>1, <1>3, <1>4, <1>5, <1>6

\* What a manager knows that nobody has written beside: the file that it writes is empty,
\* and of the others it has what is in them, but for what it has abandoned.
Knows(m) ==
    /\ saving[m] # NoConfig => configFiles[saving[m].name] = TornConfig
    /\ \A n \in Names : saving[m] = NoConfig \/ saving[m].name # n =>
           /\ n \notin abandoned[m] => configs[m][n] = Loaded(configFiles[n])
           /\ Whole(configFiles[n]) => configs[m][n] # NoConfig

ConfigInv ==
    /\ FilesOK /\ WritersOK
    /\ \A m \in running \ stale : Knows(m)

LEMMA CreateKeeps ==
    ASSUME ConfigInv, NEW m \in Managers, NEW n \in Names, Create(m, n)
    PROVE  ConfigInv'
<1>1. PICK c \in Offered : Open(m, n, c, configs[m][n] # NoConfig)
    BY DEF Create
<1>2. FilesOK /\ WritersOK /\ m \in running /\ UNCHANGED <<configs, abandoned>>
    BY DEF Create, ConfigInv, Ready
<1>3. /\ configFiles' \in [Names -> {Serialize(e) : e \in Offered} \cup {NoConfig, TornConfig}]
      /\ saving' \in [Managers -> Writing \cup {NoConfig}]
      /\ WritersOK'
      /\ saving'[m] # NoConfig /\ saving'[m].name = n
      /\ configFiles'[n] = TornConfig
      /\ \A k \in Names : k # n => configFiles'[k] = configFiles[k]
      /\ \A k \in running' \ stale' : k = m /\ k \in running \ stale
    <2> DEFINE asked == configs[m][n] # NoConfig
    <2>1. asked \in BOOLEAN /\ Open(m, n, c, asked)
        BY <1>1
    <2> HIDE DEF asked
    <2> QED BY <1>2, <2>1, Opened
<1>4. saving[m] = NoConfig
    BY DEF Create, Ready
<1>5. ASSUME NEW k \in running' \ stale' PROVE Knows(k)'
    BY <1>2, <1>3, <1>4, <1>5 DEF Knows, ConfigInv
<1>6. FilesOK'
    BY <1>2, <1>3 DEF FilesOK
<1> QED BY <1>3, <1>5, <1>6 DEF ConfigInv

LEMMA ModifyKeeps ==
    ASSUME ConfigInv, NEW m \in Managers, NEW n \in Names, Modify(m, n)
    PROVE  ConfigInv'
<1>1. FilesOK /\ WritersOK /\ m \in running /\ saving[m] = NoConfig /\ configs[m][n] \in Offered
    BY DEF Modify, ConfigInv, Ready, FilesOK
<1>2. PICK new \in {[configs[m][n] EXCEPT !.watched = w] : w \in BOOLEAN}
                   \cup {[configs[m][n] EXCEPT !.figures = f] : f \in Figures} :
          /\ configs' = [configs EXCEPT ![m][n] = new]
          /\ \/ Open(m, n, new, TRUE) /\ UNCHANGED abandoned
             \/ /\ abandoned' = [abandoned EXCEPT ![m] = @ \cup {n}]
                /\ UNCHANGED <<running, configFiles, saving, stale>>
    BY DEF Modify
<1>3. new \in Offered /\ new # NoConfig
    BY <1>1, <1>2, ModifiedOffered, OfferedConfigs
<1>4. /\ configs' \in [Managers -> [Names -> Offered \cup {NoConfig}]]
      /\ configs'[m][n] = new
      /\ \A k \in Managers : k # m => configs'[k] = configs[k]
      /\ \A x \in Names : x # n => configs'[m][x] = configs[m][x]
    BY <1>1, <1>2, <1>3 DEF FilesOK
<1>5. CASE Open(m, n, new, TRUE) /\ UNCHANGED abandoned
    <2>1. /\ configFiles' \in [Names -> {Serialize(e) : e \in Offered} \cup {NoConfig, TornConfig}]
          /\ saving' \in [Managers -> Writing \cup {NoConfig}]
          /\ WritersOK'
          /\ saving'[m] # NoConfig /\ saving'[m].name = n
          /\ configFiles'[n] = TornConfig
          /\ \A k \in Names : k # n => configFiles'[k] = configFiles[k]
          /\ \A k \in running' \ stale' : k = m /\ k \in running \ stale
        BY <1>1, <1>3, <1>5, Opened
    <2>2. ASSUME NEW k \in running' \ stale' PROVE Knows(k)'
        BY <1>1, <1>4, <1>5, <2>1, <2>2 DEF Knows, ConfigInv
    <2>3. FilesOK'
        BY <1>1, <1>4, <1>5, <2>1 DEF FilesOK
    <2> QED BY <2>1, <2>2, <2>3 DEF ConfigInv
<1>6. CASE /\ abandoned' = [abandoned EXCEPT ![m] = @ \cup {n}]
           /\ UNCHANGED <<running, configFiles, saving, stale>>
    <2>1. /\ abandoned' \in [Managers -> SUBSET Names]
          /\ abandoned'[m] = abandoned[m] \cup {n}
          /\ \A k \in Managers : k # m => abandoned'[k] = abandoned[k]
        BY <1>1, <1>6 DEF FilesOK
    <2>2. FilesOK' /\ WritersOK'
        BY <1>1, <1>4, <1>6, <2>1 DEF FilesOK, WritersOK
    <2>3. ASSUME NEW k \in running \ stale PROVE Knows(k)'
        <3>1. k \in Managers /\ Knows(k)
            BY <1>1 DEF ConfigInv, WritersOK
        <3>2. CASE k = m
            BY <1>3, <1>4, <1>6, <2>1, <3>1, <3>2 DEF Knows
        <3>3. CASE k # m
            BY <1>4, <1>6, <2>1, <3>1, <3>3 DEF Knows
        <3> QED BY <3>2, <3>3
    <2> QED BY <1>6, <2>2, <2>3 DEF ConfigInv
<1> QED BY <1>2, <1>5, <1>6

LEMMA FinishKeeps ==
    ASSUME ConfigInv, NEW m \in Managers, FinishSave(m)
    PROVE  ConfigInv'
<1> DEFINE n == saving[m].name
           c == saving[m].config
<1>1. /\ FilesOK /\ WritersOK /\ m \in running /\ saving[m] \in Writing /\ n \in Names
      /\ c \in Offered
    BY DEF FinishSave, ConfigInv, FilesOK, WritersOK, Writing
<1>2. PICK f \in CASE configFiles[n] = NoConfig   -> {NoConfig}
                   [] configFiles[n] = TornConfig -> {Serialize(c)}
                   [] OTHER                       -> {Serialize(c), TornConfig} :
          configFiles' = [configFiles EXCEPT ![n] = f]
    BY DEF FinishSave
<1>3. /\ saving' = [saving EXCEPT ![m] = NoConfig]
      /\ configs' = [configs EXCEPT ![m][n] = c]
      /\ abandoned' = [abandoned EXCEPT ![m] = @ \ {n}]
      /\ running' = running /\ stale' = stale \cup (running \ {m})
    BY DEF FinishSave
<1> HIDE DEF n, c
<1>4. f \in {NoConfig, Serialize(c), TornConfig} /\ (configFiles[n] = TornConfig => f = Serialize(c))
    BY <1>2, OfferedConfigs
<1>5. /\ configFiles' \in [Names -> {Serialize(e) : e \in Offered} \cup {NoConfig, TornConfig}]
      /\ configFiles'[n] = f
      /\ \A k \in Names : k # n => configFiles'[k] = configFiles[k]
    BY <1>1, <1>2, <1>4 DEF FilesOK
<1>6. /\ configs' \in [Managers -> [Names -> Offered \cup {NoConfig}]]
      /\ configs'[m][n] = c
      /\ \A x \in Names : x # n => configs'[m][x] = configs[m][x]
    BY <1>1, <1>3 DEF FilesOK
<1>7. /\ saving' \in [Managers -> Writing \cup {NoConfig}] /\ saving'[m] = NoConfig
      /\ \A k \in Managers : k # m => saving'[k] = saving[k]
      /\ abandoned' \in [Managers -> SUBSET Names] /\ abandoned'[m] = abandoned[m] \ {n}
    BY <1>1, <1>3 DEF FilesOK
<1>8. FilesOK' /\ WritersOK'
    BY <1>1, <1>3, <1>5, <1>6, <1>7 DEF FilesOK, WritersOK
<1>9. ASSUME NEW k \in running' \ stale' PROVE Knows(k)'
    <2>1. k = m /\ Knows(m) /\ saving[m] # NoConfig
        BY <1>3, <1>9 DEF ConfigInv, FinishSave
    <2>2. f = Serialize(c)
        BY <1>4, <2>1 DEF Knows, n
    <2>3. Loaded(f) = c /\ c # NoConfig
        BY <1>1, <2>2, OfferedConfigs
    <2> QED BY <1>5, <1>6, <1>7, <2>1, <2>3 DEF Knows, n
<1> QED BY <1>8, <1>9 DEF ConfigInv

LEMMA DeleteKeeps ==
    ASSUME ConfigInv, NEW m \in Managers, NEW n \in Names, Delete(m, n)
    PROVE  ConfigInv'
<1>1. FilesOK /\ WritersOK /\ m \in running /\ saving[m] = NoConfig
    BY DEF Delete, ConfigInv, Ready
<1>2. /\ configFiles' \in [Names -> {Serialize(e) : e \in Offered} \cup {NoConfig, TornConfig}]
      /\ configFiles'[n] = NoConfig
      /\ \A k \in Names : k # n => configFiles'[k] = configFiles[k]
    BY <1>1 DEF Delete, FilesOK
<1>3. /\ configs' \in [Managers -> [Names -> Offered \cup {NoConfig}]]
      /\ configs'[m][n] = NoConfig
      /\ \A x \in Names : x # n => configs'[m][x] = configs[m][x]
    BY <1>1 DEF Delete, FilesOK
<1>4. FilesOK' /\ WritersOK'
    BY <1>1, <1>2, <1>3 DEF Delete, FilesOK, WritersOK
<1>5. ASSUME NEW k \in running' \ stale' PROVE Knows(k)'
    <2>1. k = m /\ Knows(m) /\ UNCHANGED <<saving, abandoned>>
        BY <1>5 DEF ConfigInv, Delete
    <2> QED BY <1>1, <1>2, <1>3, <2>1, OfferedConfigs DEF Knows, Whole
<1> QED BY <1>4, <1>5 DEF ConfigInv

LEMMA LoadAllKeeps ==
    ASSUME ConfigInv, NEW m \in Managers, LoadAll(m)
    PROVE  ConfigInv'
<1>1. FilesOK /\ WritersOK /\ saving[m] = NoConfig
    BY DEF LoadAll, ConfigInv, WritersOK
<1>2. UNCHANGED <<configFiles, saving, stale, abandoned>> /\ running' = running \cup {m}
    BY DEF LoadAll
<1>3. /\ configs' \in [Managers -> [Names -> Offered \cup {NoConfig}]]
      /\ \A n \in Names : configs'[m][n] = Loaded(configFiles[n])
      /\ \A k \in Managers : k # m => configs'[k] = configs[k]
    BY <1>1, LoadedType DEF LoadAll, FilesOK
<1>4. FilesOK' /\ WritersOK'
    BY <1>1, <1>2, <1>3 DEF FilesOK, WritersOK
<1>5. ASSUME NEW k \in running' \ stale' PROVE Knows(k)'
    <2>1. CASE k = m
        BY <1>1, <1>2, <1>3, <2>1, LoadedType DEF Knows
    <2>2. CASE k # m
        <3>1. k \in Managers /\ k \in running \ stale
            BY <1>1, <1>2, <2>2 DEF WritersOK
        <3> QED BY <1>2, <1>3, <2>2, <3>1 DEF Knows, ConfigInv
    <2> QED BY <2>1, <2>2
<1> QED BY <1>4, <1>5 DEF ConfigInv

LEMMA QuitKeeps ==
    ASSUME ConfigInv, NEW m \in Managers, Quit(m)
    PROVE  ConfigInv'
<1>1. FilesOK /\ WritersOK
    BY DEF ConfigInv
<1>2. FilesOK'
    BY <1>1 DEF Quit, FilesOK
<1>3. WritersOK'
    BY <1>1 DEF Quit, FilesOK, WritersOK
<1>4. ASSUME NEW k \in running' \ stale' PROVE Knows(k)'
    <2>1. k # m /\ k \in Managers /\ k \in running \ stale
        BY <1>1 DEF Quit, WritersOK
    <2>2. /\ configs'[k] = configs[k] /\ saving'[k] = saving[k] /\ abandoned'[k] = abandoned[k]
          /\ configFiles' = configFiles
        BY <1>1, <2>1 DEF Quit, FilesOK
    <2> QED BY <2>1, <2>2 DEF Knows, ConfigInv
<1> QED BY <1>2, <1>3, <1>4 DEF ConfigInv

LEMMA ConfigStarts == ConfigInit => ConfigInv
BY DEF ConfigInit, ConfigInv, FilesOK, WritersOK

LEMMA ConfigSteps == ConfigInv /\ [ConfigNext]_configVars => ConfigInv'
<1>1. ConfigInv /\ UNCHANGED configVars => ConfigInv'
    BY DEF ConfigInv, FilesOK, WritersOK, Knows, configVars
<1> QED BY <1>1, CreateKeeps, ModifyKeeps, FinishKeeps, DeleteKeeps, LoadAllKeeps, QuitKeeps
        DEF ConfigNext

\* However managers of one directory write over each other's files, delete them while they
\* are open or are killed in the middle of a write, what one has in memory and what the
\* files hold are configurations that the questions can lead to, or nothing.
THEOREM ConfigTypeCorrect == ConfigSpec => []ConfigTypeOK
<1>1. ConfigInv => ConfigTypeOK
    BY DEF ConfigInv, FilesOK, WritersOK, ConfigTypeOK
<1> QED BY <1>1, ConfigStarts, ConfigSteps, PTL DEF ConfigSpec

\* While nobody else writes, a manager's copies are what another one would load: the file
\* that it opened is still empty when it ends its save, so it holds what was written, and
\* that is read back as it was.
THEOREM MemoryAgreesWithDisk == ConfigSpec => []MemoryIsDisk
<1>1. ConfigInv => MemoryIsDisk
    BY DEF ConfigInv, Knows, MemoryIsDisk
<1> QED BY <1>1, ConfigStarts, ConfigSteps, PTL DEF ConfigSpec

\* While nobody else writes, no whole configuration is overwritten unasked, also by a
\* manager that has abandoned a change of it: whatever is in a whole file is in its memory,
\* where interactive_create looks the name up.
THEOREM NoneOverwrittenUnasked == ConfigSpec => OverwriteAsked
<1> DEFINE Asked ==
        \A m \in running \ stale, n \in Names :
            /\ saving[m] = NoConfig /\ saving'[m] # NoConfig /\ saving'[m].name = n
            /\ Whole(configFiles[n])
            => saving'[m].asked
<1>1. ConfigInv /\ [ConfigNext]_configVars => [Asked]_configVars
    <2> SUFFICES ASSUME ConfigInv, ConfigNext, NEW m \in running \ stale, NEW n \in Names,
                        saving[m] = NoConfig, saving'[m] # NoConfig, saving'[m].name = n,
                        Whole(configFiles[n])
                 PROVE  saving'[m].asked
        OBVIOUS
    <2>1. FilesOK /\ WritersOK /\ m \in Managers /\ Knows(m)
        BY DEF ConfigInv, WritersOK
    <2>2. ASSUME NEW k \in Managers, NEW x \in Names, NEW c \in Offered, NEW asked \in BOOLEAN,
                 k \in running, Open(k, x, c, asked)
          PROVE  k = m /\ x = n /\ saving'[m].asked = asked
        BY <2>1, <2>2, Opened
    <2>3. ASSUME NEW k \in Managers, NEW x \in Names, Create(k, x) PROVE saving'[m].asked
        <3>1. PICK c \in Offered : Open(k, x, c, configs[k][x] # NoConfig)
            BY <2>3 DEF Create
        <3>2. k \in running /\ (configs[k][x] # NoConfig) \in BOOLEAN
            BY <2>3 DEF Create, Ready
        <3>3. k = m /\ x = n /\ saving'[m].asked = (configs[k][x] # NoConfig)
            BY <2>2, <3>1, <3>2
        <3>4. configs[m][n] # NoConfig
            BY <2>1 DEF Knows
        <3> QED BY <3>3, <3>4
    <2>4. ASSUME NEW k \in Managers, NEW x \in Names, Modify(k, x) PROVE saving'[m].asked
        <3>1. k \in running /\ configs[k][x] \in Offered
            BY <2>1, <2>4 DEF Modify, Ready, FilesOK
        <3>2. PICK c \in Offered : Open(k, x, c, TRUE) \/ UNCHANGED saving
            BY <2>4, <3>1, ModifiedOffered DEF Modify
        <3>3. Open(k, x, c, TRUE)
            BY <3>2
        <3> QED BY <2>2, <3>1, <3>3
    <2>5. ASSUME NEW k \in Managers, FinishSave(k) \/ Quit(k) \/ LoadAll(k) \/
                     \E x \in Names : Delete(k, x)
          PROVE  FALSE
        BY <2>1, <2>5 DEF FinishSave, Quit, LoadAll, Delete, FilesOK
    <2> QED BY <2>3, <2>4, <2>5 DEF ConfigNext
<1> QED BY <1>1, ConfigStarts, ConfigSteps, PTL DEF ConfigSpec, OverwriteAsked

-----------------------------------------------------------------------------
(* Settings                                                                *)

\* What a command that is started now loads for a setting that the environment leaves.
Stored(s) == IF s = "token" THEN auth ELSE IF s \in Loads(toml) THEN toml[s] ELSE 0

\* The sets of settings, by their members.
LEMMA SettingSets ==
    /\ Saved \subseteq Settings /\ Settings = Saved \cup {"token"} /\ "token" \notin Saved
    /\ Lasting \subseteq Settings /\ Lasting = Loadable \cup {"token"} /\ Loadable \subseteq Saved
    /\ FromEnv \subseteq Loadable /\ ByCommand \subseteq Loadable /\ "token" \in Lasting
    /\ Settings \ Lasting = Saved \ Loadable
BY DEF Saved, Settings, Lasting, Loadable, FromEnv, ByCommand

\* What users and environments give is a value, and no string is left unescaped by it.
LEMMA ValuesGiven ==
    /\ 0 \in Values /\ 2 \in Values /\ Quoted \in Values /\ Raw \notin Values /\ Odd # 0 /\ Quoted # 0
    /\ 0..2 \subseteq Values
    /\ \A s \in Saved : UserValues[s] \subseteq Values
BY DEF Values, UserValues, Saved, Odd, Quoted, Raw

LEMMA EnvironmentType ==
    ASSUME NEW overridden \in Environments
    PROVE  DOMAIN overridden \subseteq FromEnv /\ \A s \in DOMAIN overridden : overridden[s] \in Values
BY ValuesGiven DEF Environments

LEMMA NoEnvironment == NoSettings \in Environments /\ DOMAIN NoSettings = {}
BY DEF NoSettings, Environments

\* What is known of the file.
LEMMA FileType ==
    ASSUME SettingsTypeOK
    PROVE  /\ toml \in [DOMAIN toml -> Values \cup {Raw}] /\ DOMAIN toml \subseteq Saved
           /\ DOMAIN toml # {} => Saved \ Loadable \subseteq DOMAIN toml
           /\ Loads(toml) \subseteq Loadable \cap DOMAIN toml
           /\ \A s \in Loads(toml) : toml[s] \in Values
           /\ Raw \notin Range(toml) => Loads(toml) = Loadable \cap DOMAIN toml
<1>1. /\ toml \in [DOMAIN toml -> Values \cup {Raw}] /\ DOMAIN toml \subseteq Saved
      /\ DOMAIN toml # {} => Saved \ Loadable \subseteq DOMAIN toml
    <2>1. PICK S \in SUBSET Saved : /\ toml \in [S -> Values \cup {Raw}]
                                    /\ S # {} => Saved \ Loadable \subseteq S
        BY DEF SettingsTypeOK
    <2> QED BY <2>1
<1> QED BY <1>1 DEF Loads, Range

\* load_config takes from the file whatever the environment does not override.
LEMMA WhatIsLoaded ==
    ASSUME SettingsTypeOK, NEW overridden \in Environments
    PROVE  /\ LoadedSettings(overridden) \in [Settings -> Values]
           /\ \A s \in Settings \ Lasting : LoadedSettings(overridden)[s] = 0
           /\ \A s \in Lasting : s \notin DOMAIN overridden => LoadedSettings(overridden)[s] = Stored(s)
<1>1. LoadedSettings(overridden)
      = [s \in Settings |-> IF s = "token" THEN auth ELSE Effective(toml, overridden)[s]]
    BY DEF LoadedSettings
<1>2. \A s \in Saved : /\ Effective(toml, overridden)[s] = IF s \in DOMAIN overridden THEN overridden[s]
                             ELSE IF s \in Loads(toml) THEN toml[s] ELSE 0
                       /\ Effective(toml, overridden)[s] \in Values
    BY FileType, EnvironmentType, ValuesGiven DEF Effective
<1>3. auth \in Values
    BY DEF SettingsTypeOK
<1>4. LoadedSettings(overridden) \in [Settings -> Values]
    BY <1>1, <1>2, <1>3, SettingSets
<1>5. ASSUME NEW s \in Settings \ Lasting PROVE LoadedSettings(overridden)[s] = 0
    <2>1. s \in Saved /\ s # "token" /\ s \notin DOMAIN overridden /\ s \notin Loads(toml)
        BY SettingSets, EnvironmentType, FileType
    <2> QED BY <1>1, <1>2, <2>1
<1>6. ASSUME NEW s \in Lasting, s \notin DOMAIN overridden
      PROVE  LoadedSettings(overridden)[s] = Stored(s)
    BY <1>1, <1>2, <1>6, SettingSets DEF Stored
<1> QED BY <1>4, <1>5, <1>6

LEMMA SettingsTypeStarts == SettingsInit => SettingsTypeOK
<1> SUFFICES ASSUME SettingsInit PROVE SettingsTypeOK
    OBVIOUS
<1>1. toml \in [{} -> Values \cup {Raw}]
    BY DEF SettingsInit, NoSettings
<1>2. /\ env \in [Commands -> Environments] /\ config \in [Commands -> [Settings -> Values]]
      /\ chosen \in [Lasting -> Values]
    BY NoEnvironment, ValuesGiven DEF SettingsInit, Defaults
<1>3. \A c \in Commands, s \in Settings \ Lasting : config[c][s] = 0
    BY DEF SettingsInit, Defaults
<1> QED BY <1>1, <1>2, <1>3, ValuesGiven DEF SettingsInit, SettingsTypeOK

\* The file when it has just been emptied.
LEMMA EmptyFile ==
    ASSUME toml' = NoSettings
    PROVE  /\ \E S \in SUBSET Saved : /\ toml' \in [S -> Values \cup {Raw}]
                                      /\ S # {} => Saved \ Loadable \subseteq S
           /\ Raw \notin Range(toml)'
<1>1. toml' \in [{} -> Values \cup {Raw}] /\ {} \in SUBSET Saved /\ DOMAIN toml' = {}
    BY DEF NoSettings
<1> QED BY <1>1 DEF Range

\* A command that ends loses no setting and adds none.
LEMMA LeaveType ==
    ASSUME SettingsTypeOK, NEW c \in Commands, Leave(c), auth' \in Values,
           standing' \subseteq standing, UNCHANGED <<toml, chosen>>
    PROVE  SettingsTypeOK'
<1>1. Defaults \in [Settings -> Values] /\ \A s \in Settings \ Lasting : Defaults[s] = 0
    BY ValuesGiven DEF Defaults
<1>2. env' \in [Commands -> Environments] /\ config' \in [Commands -> [Settings -> Values]]
      /\ doing' \in [Commands -> {"nothing", "loaded", "saving", "signing"}]
    BY <1>1, NoEnvironment DEF SettingsTypeOK, Leave
<1>3. \A d \in Commands, s \in Settings \ Lasting : config'[d][s] = 0
    BY <1>1 DEF SettingsTypeOK, Leave
<1> QED BY <1>2, <1>3 DEF SettingsTypeOK

LEMMA SettingsTypeSteps == SettingsTypeOK /\ [SettingsNext]_settingVars => SettingsTypeOK'
<1> SUFFICES ASSUME SettingsTypeOK, [SettingsNext]_settingVars PROVE SettingsTypeOK'
    OBVIOUS
<1> USE DEF SettingsTypeOK
<1>1. ASSUME NEW c \in Commands, NEW overridden \in Environments, LoadConfig(c, overridden)
      PROVE  SettingsTypeOK'
    <2>1. /\ LoadedSettings(overridden) \in [Settings -> Values]
          /\ \A s \in Settings \ Lasting : LoadedSettings(overridden)[s] = 0
        BY WhatIsLoaded
    <2>2. /\ config' \in [Commands -> [Settings -> Values]]
          /\ \A d \in Commands, s \in Settings \ Lasting : config'[d][s] = 0
        BY <1>1, <2>1 DEF LoadConfig
    <2> QED BY <1>1, <2>2 DEF LoadConfig
<1>2. ASSUME NEW c \in Commands, NEW s \in ByCommand, NEW v \in UserValues[s], SetConfig(c, s, v)
      PROVE  SettingsTypeOK'
    <2>1. s \in Lasting /\ s \in Settings /\ v \in Values
        BY SettingSets, ValuesGiven
    <2>2. config' \in [Commands -> [Settings -> Values]] /\ chosen' \in [Lasting -> Values]
        BY <1>2, <2>1 DEF SetConfig
    <2>3. \A d \in Commands, t \in Settings \ Lasting : config'[d][t] = 0
        BY <1>2, <2>1 DEF SetConfig
    <2>4. standing' \subseteq Lasting
        BY <1>2, <2>1 DEF SetConfig
    <2> QED BY <1>2, <2>2, <2>3, <2>4, EmptyFile DEF SetConfig, BeginSave
<1>3. ASSUME NEW c \in Commands, NEW token \in 1..2, Login(c, token) PROVE SettingsTypeOK'
    <2>1. "token" \in Settings /\ "token" \in Lasting /\ token \in Values
        BY SettingSets, ValuesGiven
    <2>2. config' \in [Commands -> [Settings -> Values]] /\ chosen' \in [Lasting -> Values]
        BY <1>3, <2>1 DEF Login
    <2>3. \A d \in Commands, s \in Settings \ Lasting : config'[d][s] = 0
        BY <1>3, <2>1 DEF Login
    <2>4. standing' \subseteq Lasting
        BY <1>3, <2>1 DEF Login
    <2> QED BY <1>3, <2>2, <2>3, <2>4, ValuesGiven DEF Login
<1>4. ASSUME NEW c \in Commands, InitConfig(c) PROVE SettingsTypeOK'
    BY <1>4, EmptyFile DEF InitConfig, BeginSave
<1>5. ASSUME NEW c \in Commands, WriteConfig(c) PROVE SettingsTypeOK'
    <2> DEFINE S == {s \in Saved : config[c][s] # Odd}
    <2>1. \A s \in Saved : config[c][s] \in Values
        BY SettingSets
    <2>2. toml' \in [S -> Values \cup {Raw}]
        BY <1>5, <2>1 DEF WriteConfig, Written
    <2>3. Saved \ Loadable \subseteq S
        BY SettingSets, ValuesGiven
    <2>4. S \in SUBSET Saved
        OBVIOUS
    <2> HIDE DEF S
    <2>5. \E T \in SUBSET Saved : /\ toml' \in [T -> Values \cup {Raw}]
                                  /\ T # {} => Saved \ Loadable \subseteq T
        BY <2>2, <2>3, <2>4
    <2> QED BY <1>5, <2>5 DEF WriteConfig
<1>6. ASSUME NEW c \in Commands, WriteAuth(c) \/ EndCommand(c) \/ Kill(c) PROVE SettingsTypeOK'
    <2>1. config[c]["token"] \in Values
        BY DEF Settings
    <2>2. auth' \in Values /\ Leave(c) /\ standing' \subseteq standing /\ UNCHANGED <<toml, chosen>>
        BY <1>6, <2>1 DEF WriteAuth, EndCommand, Kill
    <2> QED BY <2>2, LeaveType
<1>7. ASSUME NEW s \in Saved, NEW v \in UserValues[s], EditConfig(s, v) PROVE SettingsTypeOK'
    <2>1. v \in Values
        BY ValuesGiven
    <2>2. chosen' \in [Lasting -> Values]
        BY <1>7, <2>1 DEF EditConfig
    <2> DEFINE T == DOMAIN toml \cup {s}
    <2>3. toml' \in [T -> Values \cup {Raw}]
        BY <1>7, <2>1, FileType DEF EditConfig
    <2>4. T \in SUBSET Saved /\ Saved \ Loadable \subseteq T
        BY <1>7, FileType DEF EditConfig
    <2> HIDE DEF T
    <2>5. \E S \in SUBSET Saved : /\ toml' \in [S -> Values \cup {Raw}]
                                  /\ S # {} => Saved \ Loadable \subseteq S
        BY <2>3, <2>4
    <2>6. standing' \subseteq Lasting
        BY <1>7, SettingSets DEF EditConfig, Loads
    <2> QED BY <1>7, <2>2, <2>5, <2>6 DEF EditConfig
<1>8. CASE UNCHANGED settingVars
    BY <1>8 DEF settingVars
<1> QED BY <1>1, <1>2, <1>3, <1>4, <1>5, <1>6, <1>7, <1>8 DEF SettingsNext

\* However commands overlap or are killed, and whatever the user writes into the file, no
\* setting gets a value that nobody gave it, and no value that a string was written as
\* without being escaped is ever loaded.
THEOREM SettingsTypeCorrect == SettingsSpec => []SettingsTypeOK
BY SettingsTypeStarts, SettingsTypeSteps, PTL DEF SettingsSpec

\* As long as a choice stands one command at most is at work, and it has the choice in
\* memory, unless its environment overrides it, before it writes it.
Alone == \A c, d \in Commands : c # d /\ doing[c] # "nothing" => doing[d] = "nothing"

Remembers(c, s) ==
    /\ doing[c] = "loaded" /\ s # "token" /\ s \notin DOMAIN env[c] => config[c][s] = chosen[s]
    /\ doing[c] = "saving" /\ s # "token" => config[c][s] = chosen[s]
    /\ doing[c] = "signing" /\ s = "token" => config[c][s] = chosen[s]

\* Who is about to write a setting.
WrittenBy(c, s) == doing[c] = IF s = "token" THEN "signing" ELSE "saving"

\* A choice of a setting that stands is in a file that can be read, or will be.
Stands(s) ==
    /\ Alone
    /\ \A c \in Commands : Remembers(c, s)
    /\ Stored(s) = chosen[s] \/ \E c \in Commands : WrittenBy(c, s)
    /\ s # "token" => Raw \notin Range(toml)

StandingOK == \A s \in standing : Stands(s)

LEMMA StandingStarts == SettingsInit => StandingOK
<1> SUFFICES ASSUME SettingsInit, NEW s \in Lasting PROVE Stands(s)
    BY DEF SettingsInit, StandingOK
<1>1. Raw \notin Range(toml) /\ Loads(toml) = {}
    BY DEF SettingsInit, NoSettings, Range, Loads
<1> QED BY <1>1, SettingSets DEF SettingsInit, Stands, Alone, Remembers, Stored, Defaults

\* The parts of the type that the proofs about choices use.
LEMMA StandingTypes ==
    ASSUME SettingsTypeOK
    PROVE  /\ standing \subseteq Lasting /\ "token" \notin Saved
           /\ doing \in [Commands -> {"nothing", "loaded", "saving", "signing"}]
           /\ env \in [Commands -> Environments]
           /\ config \in [Commands -> [Settings -> Values]] /\ chosen \in [Lasting -> Values]
BY SettingSets DEF SettingsTypeOK

\* A command that loads has in memory every choice that stands, or its environment's value.
LEMMA LoadStands ==
    ASSUME SettingsTypeOK, StandingOK, NEW c \in Commands, NEW overridden \in Environments,
           LoadConfig(c, overridden)
    PROVE  StandingOK'
<1> SUFFICES ASSUME NEW s \in standing' PROVE Stands(s)'
    BY DEF StandingOK
<1>1. Quiet /\ Stands(s) /\ s \in Lasting
    BY StandingTypes DEF LoadConfig, StandingOK
<1>2. /\ doing'[c] = "loaded" /\ env'[c] = overridden /\ config'[c] = LoadedSettings(overridden)
      /\ \A d \in Commands \ {c} : doing'[d] = "nothing"
      /\ UNCHANGED <<auth, toml, chosen>>
    BY <1>1, StandingTypes DEF LoadConfig, Quiet
<1>3. Stored(s)' = Stored(s) /\ Stored(s) = chosen[s]
    BY <1>1, <1>2 DEF Stands, WrittenBy, Stored, Quiet
<1>4. s \notin DOMAIN overridden => config'[c][s] = chosen[s]
    BY <1>1, <1>2, <1>3, WhatIsLoaded
<1>5. Alone'
    BY <1>2 DEF Alone
<1>6. ASSUME NEW d \in Commands PROVE Remembers(d, s)'
    BY <1>2, <1>4 DEF Remembers
<1> QED BY <1>1, <1>2, <1>3, <1>5, <1>6 DEF Stands

LEMMA InitStands ==
    ASSUME SettingsTypeOK, StandingOK, NEW c \in Commands, InitConfig(c)
    PROVE  StandingOK'
<1> SUFFICES ASSUME NEW s \in standing' PROVE Stands(s)'
    BY DEF StandingOK
<1>1. Stands(s) /\ s \notin DOMAIN env[c] /\ s \in Lasting
    BY StandingTypes DEF InitConfig, StandingOK
<1>2. /\ doing[c] = "loaded" /\ doing'[c] = "saving"
      /\ \A d \in Commands \ {c} : doing'[d] = "nothing" /\ doing[d] = "nothing"
      /\ UNCHANGED <<auth, env, config, chosen>>
    BY <1>1, StandingTypes DEF InitConfig, BeginSave, Stands, Alone
<1>3. Alone'
    BY <1>2 DEF Alone
<1>4. ASSUME NEW d \in Commands PROVE Remembers(d, s)'
    BY <1>1, <1>2 DEF Remembers, Stands
<1>5. Stored(s)' = chosen'[s] \/ \E d \in Commands : WrittenBy(d, s)'
    <2>1. CASE s = "token"
        BY <1>1, <1>2, <2>1 DEF Stands, WrittenBy, Stored
    <2>2. CASE s # "token"
        BY <1>2, <2>2 DEF WrittenBy
    <2> QED BY <2>1, <2>2
<1>6. Raw \notin Range(toml)'
    BY EmptyFile DEF InitConfig, BeginSave
<1> QED BY <1>3, <1>4, <1>5, <1>6 DEF Stands

LEMMA SetStands ==
    ASSUME SettingsTypeOK, StandingOK, NEW c \in Commands, NEW x \in ByCommand, NEW v,
           SetConfig(c, x, v)
    PROVE  StandingOK'
<1> SUFFICES ASSUME NEW s \in standing' PROVE Stands(s)'
    BY DEF StandingOK
<1>0. x \in Lasting /\ x # "token" /\ x \in Settings /\ s \in Settings /\ s \in Lasting
      /\ (s # x => s \in standing \ DOMAIN env[c])
      /\ (s = x => s \in standing \ DOMAIN env[c] \/ OnlyCommand(c))
    BY StandingTypes, SettingSets DEF SetConfig
<1>1. s \in standing => Stands(s)
    BY DEF StandingOK
<1>2. /\ doing[c] = "loaded" /\ doing'[c] = "saving"
      /\ \A d \in Commands \ {c} : doing'[d] = "nothing" /\ doing[d] = "nothing"
      /\ UNCHANGED <<auth, env>>
    BY <1>0, <1>1, StandingTypes DEF SetConfig, BeginSave, Stands, Alone, OnlyCommand
<1>3. /\ config'[c][x] = v /\ chosen'[x] = v
      /\ s # x => config'[c][s] = config[c][s] /\ chosen'[s] = chosen[s]
    BY <1>0, StandingTypes DEF SetConfig
<1>4. Alone'
    BY <1>2 DEF Alone
<1>5. ASSUME NEW d \in Commands PROVE Remembers(d, s)'
    BY <1>0, <1>1, <1>2, <1>3 DEF Remembers, Stands
<1>6. Stored(s)' = chosen'[s] \/ \E d \in Commands : WrittenBy(d, s)'
    <2>1. CASE s = "token"
        BY <1>0, <1>1, <1>2, <1>3, <2>1 DEF Stands, WrittenBy, Stored
    <2>2. CASE s # "token"
        BY <1>2, <2>2 DEF WrittenBy
    <2> QED BY <2>1, <2>2
<1>7. Raw \notin Range(toml)'
    BY EmptyFile DEF SetConfig, BeginSave
<1> QED BY <1>4, <1>5, <1>6, <1>7 DEF Stands

\* What saving does not lose is in the file, and the file can be read.
LEMMA WriteStands ==
    ASSUME SettingsTypeOK, StandingOK, NEW c \in Commands, WriteConfig(c)
    PROVE  StandingOK'
<1> SUFFICES ASSUME NEW s \in standing' PROVE Stands(s)'
    BY DEF StandingOK
<1>1. Stands(s) /\ s \in Lasting /\ s \notin Unsaved(config[c])
    BY StandingTypes DEF WriteConfig, StandingOK
<1>2. /\ doing[c] = "saving" /\ doing'[c] = "loaded"
      /\ \A d \in Commands \ {c} : doing'[d] = "nothing" /\ doing[d] = "nothing"
      /\ UNCHANGED <<auth, env, config, chosen>>
    BY <1>1, StandingTypes DEF WriteConfig, Stands, Alone
<1>3. Alone'
    BY <1>2 DEF Alone
<1>4. ASSUME NEW d \in Commands PROVE Remembers(d, s)'
    BY <1>1, <1>2 DEF Remembers, Stands
<1>5. ASSUME s # "token"
      PROVE  Raw \notin Range(toml)' /\ s \in Loads(toml)' /\ toml'[s] = config[c][s]
    <2>1. s \in Saved /\ s \in Loadable
        BY <1>1, <1>5, SettingSets
    <2>2. config[c][s] # Odd /\ \A t \in Saved : config[c][t] # Quoted /\ config[c][t] # Raw
        BY <1>1, <2>1, SettingSets, StandingTypes, ValuesGiven DEF Unsaved
    <2>3. toml' = [t \in {t \in Saved : config[c][t] # Odd} |-> config[c][t]]
        BY <2>2 DEF WriteConfig, Written
    <2>4. Raw \notin Range(toml)'
        BY <2>2, <2>3 DEF Range
    <2> QED BY <2>1, <2>2, <2>3, <2>4 DEF Loads
<1>6. Stored(s)' = chosen'[s]
    <2>1. CASE s = "token"
        BY <1>1, <1>2, <2>1 DEF Stands, WrittenBy, Stored
    <2>2. CASE s # "token"
        BY <1>1, <1>2, <1>5, <2>2 DEF Stands, Remembers, Stored
    <2> QED BY <2>1, <2>2
<1> QED BY <1>3, <1>4, <1>5, <1>6 DEF Stands

LEMMA LoginStands ==
    ASSUME SettingsTypeOK, StandingOK, NEW c \in Commands, NEW token \in 1..2, Login(c, token)
    PROVE  StandingOK'
<1> SUFFICES ASSUME NEW s \in standing' PROVE Stands(s)'
    BY DEF StandingOK
<1>1. Quiet /\ (s # "token" => Stands(s)) /\ s \in Lasting /\ "token" \in Lasting
      /\ "token" \in Settings
    <2>1. Quiet /\ s \in standing \cup {"token"}
        BY DEF Login
    <2> QED BY <2>1, StandingTypes, SettingSets DEF StandingOK
<1>2. /\ doing'[c] = "signing" /\ \A d \in Commands \ {c} : doing'[d] = "nothing"
      /\ UNCHANGED toml
    BY <1>1, StandingTypes DEF Login, Quiet
<1>3. /\ config'[c]["token"] = token /\ chosen'["token"] = token
      /\ s # "token" => chosen'[s] = chosen[s]
    BY <1>1, StandingTypes DEF Login
<1>4. Alone'
    BY <1>2 DEF Alone
<1>5. ASSUME NEW d \in Commands PROVE Remembers(d, s)'
    BY <1>2, <1>3 DEF Remembers
<1>6. Stored(s)' = chosen'[s] \/ \E d \in Commands : WrittenBy(d, s)'
    <2>1. CASE s = "token"
        BY <1>2, <2>1 DEF WrittenBy
    <2>2. CASE s # "token"
        BY <1>1, <1>2, <1>3, <2>2 DEF Stands, WrittenBy, Stored, Quiet
    <2> QED BY <2>1, <2>2
<1>7. s # "token" => Raw \notin Range(toml)'
    BY <1>1, <1>2 DEF Stands
<1> QED BY <1>4, <1>5, <1>6, <1>7 DEF Stands

LEMMA LeaveStands ==
    ASSUME SettingsTypeOK, StandingOK, NEW c \in Commands,
           WriteAuth(c) \/ EndCommand(c) \/ Kill(c)
    PROVE  StandingOK'
<1> SUFFICES ASSUME NEW s \in standing' PROVE Stands(s)'
    BY DEF StandingOK
<1>1. Stands(s) /\ s \in Lasting
    BY StandingTypes DEF WriteAuth, EndCommand, Kill, StandingOK
<1>2. doing[c] # "nothing" /\ Leave(c) /\ UNCHANGED <<toml, chosen>>
    BY DEF WriteAuth, EndCommand, Kill
<1>3. \A d \in Commands : doing'[d] = "nothing"
    BY <1>1, <1>2, StandingTypes DEF Leave, Stands, Alone
<1>4. Alone' /\ \A d \in Commands : Remembers(d, s)'
    BY <1>3 DEF Alone, Remembers
<1>5. \A d \in Commands : doing[d] # "nothing" => d = c
    BY <1>1, <1>2 DEF Stands, Alone
<1>6. Stored(s)' = chosen'[s]
    <2>1. CASE WriteAuth(c) /\ s = "token"
        BY <1>1, <2>1 DEF WriteAuth, Stored, Stands, Remembers
    <2>2. CASE ~WriteAuth(c) \/ s # "token"
        <3>1. Stored(s)' = Stored(s)
            BY <1>2, <2>2 DEF WriteAuth, EndCommand, Kill, Stored
        <3>2. ~WrittenBy(c, s)
            <4>1. Kill(c) => /\ doing[c] = "saving" => s \notin Saved
                             /\ doing[c] = "signing" => s # "token"
                             /\ doing[c] \in {"saving", "signing"}
                BY DEF Kill
            <4> QED BY <1>1, <2>2, <4>1, SettingSets DEF WrittenBy, WriteAuth, EndCommand
        <3> QED BY <1>1, <1>2, <1>5, <3>1, <3>2 DEF Stands, WrittenBy
    <2> QED BY <2>1, <2>2
<1> QED BY <1>1, <1>2, <1>4, <1>6 DEF Stands

LEMMA EditStands ==
    ASSUME SettingsTypeOK, StandingOK, NEW x \in Saved, NEW v \in UserValues[x],
           EditConfig(x, v)
    PROVE  StandingOK'
<1> SUFFICES ASSUME NEW s \in standing' PROVE Stands(s)'
    BY DEF StandingOK
<1>1. /\ Quiet /\ UNCHANGED <<auth, doing, env, config>> /\ s \in Lasting /\ x # "token"
      /\ s \in standing => Stands(s)
      /\ s \notin standing => s = x /\ x \in Loads(toml')
    BY StandingTypes, SettingSets DEF EditConfig, StandingOK, Loads
<1>2. v # Raw
    BY ValuesGiven
<1>3. /\ DOMAIN toml' = DOMAIN toml \cup {x} /\ toml'[x] = v
      /\ \A t \in DOMAIN toml \ {x} : toml'[t] = toml[t]
    BY DEF EditConfig
<1>4. /\ s = x => chosen'[s] = v
      /\ s # x => chosen'[s] = chosen[s]
    BY <1>1, StandingTypes DEF EditConfig
<1>5. Alone' /\ \A d \in Commands : Remembers(d, s)'
    BY <1>1 DEF Alone, Remembers, Quiet
<1>6. ASSUME s # "token" PROVE Raw \notin Range(toml)'
    <2>1. CASE s \in standing
        BY <1>1, <1>2, <1>3, <1>6, <2>1 DEF Stands, Range
    <2>2. CASE s \notin standing
        BY <1>1, <2>2 DEF Loads
    <2> QED BY <2>1, <2>2
<1>7. Stored(s)' = chosen'[s]
    <2>1. CASE s = x
        <3>1. s \in Loads(toml)' /\ Loads(toml)' = Loads(toml')
            BY <1>1, <1>3, <1>6, <2>1, SettingSets DEF Loads
        <3> QED BY <1>1, <1>3, <1>4, <2>1, <3>1 DEF Stored
    <2>2. CASE s # x
        <3>1. Stored(s) = chosen[s] /\ (s # "token" => Raw \notin Range(toml))
            BY <1>1, <2>2 DEF Stands, WrittenBy, Quiet
        <3>2. s # "token" => (s \in Loads(toml)' <=> s \in Loads(toml))
            BY <1>3, <1>6, <2>2, <3>1 DEF Loads
        <3>3. s \in Loads(toml) => toml'[s] = toml[s]
            BY <1>3, <2>2 DEF Loads
        <3> QED BY <1>1, <1>4, <2>2, <3>1, <3>2, <3>3 DEF Stored
    <2> QED BY <2>1, <2>2
<1> QED BY <1>5, <1>6, <1>7 DEF Stands

LEMMA StandingSteps == SettingsTypeOK /\ StandingOK /\ [SettingsNext]_settingVars => StandingOK'
<1>1. StandingOK /\ UNCHANGED settingVars => StandingOK'
    BY DEF StandingOK, Stands, Alone, Remembers, WrittenBy, Stored, settingVars
<1> QED BY <1>1, LoadStands, InitStands, SetStands, WriteStands, LoginStands, LeaveStands,
           EditStands
        DEF SettingsNext

\* A setting that is both saved and loaded, and the account, keep the value the user gave
\* them last, whatever else is saved: save_config writes back what load_config has read of
\* it, and only an overlap, a kill in the middle of the write, a variable in the environment
\* or a value that the file does not give back can put another one in its place.
THEOREM ChoicesAreKept == SettingsSpec => []SettingsKept
<1>1. SettingsTypeOK /\ StandingOK => SettingsKept
    <2> SUFFICES ASSUME SettingsTypeOK, StandingOK, Quiet, NEW s \in standing
                 PROVE  LoadedSettings(NoSettings)[s] = chosen[s]
        BY DEF SettingsKept
    <2>1. Stored(s) = chosen[s]
        BY DEF StandingOK, Stands, WrittenBy, Quiet
    <2> QED BY <2>1, StandingTypes, NoEnvironment, WhatIsLoaded
<1> QED BY <1>1, SettingsTypeStarts, SettingsTypeSteps, StandingStarts, StandingSteps, PTL
        DEF SettingsSpec

-----------------------------------------------------------------------------
(* The parts side by side                                                  *)

\* A behaviour of the parts side by side is one of each part, by the definition of DiskNext.
LEMMA DiskIsItsParts ==
    DiskSpec => Spec /\ LayersSpec /\ ConfigSpec /\ SettingsSpec
<1>1. DiskInit => Init /\ LayersInit /\ ConfigInit /\ SettingsInit
    BY DEF DiskInit
<1>2. [DiskNext]_diskVars =>
          /\ [Next]_vars /\ [LayersNext]_layerVars /\ [ConfigNext]_configVars
          /\ [SettingsNext]_settingVars
    <2> SUFFICES ASSUME [DiskNext]_diskVars
                 PROVE  /\ [Next]_vars /\ [LayersNext]_layerVars /\ [ConfigNext]_configVars
                        /\ [SettingsNext]_settingVars
        OBVIOUS
    <2>1. CASE InstallsMove
        BY <2>1 DEF InstallsMove
    <2>2. CASE LayersMove
        BY <2>2 DEF LayersMove
    <2>3. CASE ConfigsMove
        BY <2>3 DEF ConfigsMove
    <2>4. CASE SettingsMove
        BY <2>4 DEF SettingsMove
    <2>5. CASE UNCHANGED diskVars
        BY <2>5 DEF diskVars
    <2> QED BY <2>1, <2>2, <2>3, <2>4, <2>5 DEF DiskNext
<1> QED BY <1>1, <1>2, PTL DEF DiskSpec, Spec, LayersSpec, ConfigSpec, SettingsSpec

\* DiskTypeOK: the types of cache and installs, layers and mounts, configurations and settings.
THEOREM DiskTypeCorrect == DiskSpec => []DiskTypeOK
<1>1. TypeOK /\ LayersTypeOK /\ ConfigTypeOK /\ SettingsTypeOK => DiskTypeOK
    BY DEF DiskTypeOK
<1> QED BY <1>1, DiskIsItsParts, InstallTypeCorrect, LayersTypeCorrect, ConfigTypeCorrect, SettingsTypeCorrect, PTL
=============================================================================
