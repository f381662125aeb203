-------------------------- MODULE VirtualPackages --------------------------
(***************************************************************************)
(* Packages made of layers (virtualization/): layers are downloaded,       *)
(* extracted into directories named by their hash, composed into a tree    *)
(* for each list of layers, and the tree is put on the import path.  The   *)
(* directories are shared with other programs, which also store, compose   *)
(* and clean up; the manifests and mounts are those of one program, which  *)
(* does one thing at a time.  Packages whose content is fetched on demand  *)
(* are loaded as modules that are empty until their first use.             *)
(*                                                                         *)
(* Data is the layer that it is an archive of, or Stray: what a download   *)
(* brings instead, an archive or not, with a hash of its own.              *)
(***************************************************************************)
EXTENDS Sequences, SequencesExt

CONSTANTS
    Packages,
    LazyPackages, \* the registry of LazyFinder
    Layers,   \* ids of layers
    Lists,    \* lists of layers that a manifest may have
    NoLayers, \* no manifest, no mount, no tree
    Stray

Data == Layers \cup {Stray}

ASSUME LayerAssumption ==
    /\ LazyPackages \subseteq Packages
    /\ Lists \subseteq Seq(Layers) /\ NoLayers \notin Lists
    /\ \A copies \in SUBSET (Layers \X Data) : NoLayers # copies
    /\ Stray \notin Layers

VARIABLES
    dirs,     \* the directory of each hash: "absent", "part" or "whole"
    inside,   \* the data whose files are in it
    busy,     \* who is extracting into it: "me", "other" or "nobody"
    trees,    \* for each list, NoLayers or what was copied in full, with its layer
    held,     \* downloaded data, after the layer that was asked for
    composing, \* the package that mount is composing, if any
    manifests, \* the manifest files
    mounts,   \* _mounts, by the list of each package's tree
    path,     \* sys.path: the composed trees
    modules   \* sys.modules: the LazyModule of each package, as far as it is loaded

layerVars == <<dirs, inside, busy, trees, held, composing, manifests, mounts, path, modules>>
dirVars   == <<dirs, inside, busy>>
mountVars == <<manifests, mounts, path, modules>>

LayersInit ==
    /\ dirs = [d \in Data |-> "absent"]
    /\ inside = [d \in Data |-> d]
    /\ busy = [d \in Data |-> "nobody"]
    /\ trees = [q \in Lists |-> NoLayers]
    /\ held = <<>>
    /\ composing = {}
    /\ manifests = [n \in Packages |-> NoLayers]
    /\ mounts = [n \in Packages |-> NoLayers]
    /\ path = <<>>
    /\ modules = [n \in LazyPackages |-> "absent"]

\* Whether the program is not inside store_layer or compose_layers.
Free == composing = {} /\ \A d \in Data : busy[d] # "me"

\* Fetcher.download: only a download in chunks, and only if it is given a hash, is checked.
Download(l, data, checked) ==
    /\ Free /\ held = <<>>
    /\ checked => data = l
    /\ held' = <<l, data>>
    /\ UNCHANGED <<dirVars, trees, composing, mountVars>>

\* Extracting data into the directory of hash d; one that is there already counts as the
\* layer.
Extract(d, data, who) ==
    IF dirs[d] = "absent"
    THEN /\ dirs' = [dirs EXCEPT ![d] = "part"]
         /\ inside' = [inside EXCEPT ![d] = data]
         /\ busy' = [busy EXCEPT ![d] = who]
    ELSE UNCHANGED dirVars

\* Mutant: the directory is named by the layer that was asked for.
StoreLayerAsked ==
    /\ Free /\ held # <<>>
    /\ Extract(held[1], held[2], "me")
    /\ held' = <<>>
    /\ UNCHANGED <<trees, composing, mountVars>>

\* store_layer: the directory is named by the hash of the data.
StoreLayer ==
    /\ Free /\ held # <<>>
    /\ Extract(held[2], held[2], "me")
    /\ held' = <<>>
    /\ UNCHANGED <<trees, composing, mountVars>>

\* Extraction ends, or fails and leaves what there is.
Extracted(d, ok) ==
    /\ busy[d] # "nobody"
    /\ busy' = [busy EXCEPT ![d] = "nobody"]
    /\ dirs' = IF ok THEN [dirs EXCEPT ![d] = "whole"] ELSE dirs
    /\ UNCHANGED <<inside, trees, held, composing, mountVars>>

OtherStores(l) ==
    /\ Extract(l, l, "other")
    /\ UNCHANGED <<trees, held, composing, mountVars>>

\* cleanup_unused, here or in another program; composed trees stay.  An extraction into a
\* directory that goes fails, or makes it again for the files that are left to extract.
CleanUp(active) ==
    /\ \E again \in SUBSET {d \in Data \ active : busy[d] # "nobody"} :
          dirs' = [d \in Data |-> IF d \in active THEN dirs[d]
                                 ELSE IF d \in again THEN "part" ELSE "absent"]
    /\ busy' = [d \in Data |-> IF d \in active THEN busy[d] ELSE "nobody"]
    /\ UNCHANGED <<inside, trees, held, composing, mountVars>>

\* PackageRegistry.store and remove.
StoreManifest(n, q) ==
    /\ Free
    /\ manifests' = [manifests EXCEPT ![n] = q]
    /\ UNCHANGED <<dirVars, trees, held, composing, mounts, path, modules>>

\* A tree is on the path once.
MountTree(n, q) ==
    /\ mounts' = [mounts EXCEPT ![n] = q]
    /\ path' = IF Contains(path, q) THEN path ELSE <<q>> \o path
    /\ UNCHANGED <<manifests, modules>>

\* Mutant: a package that is mounted is mounted again.
MountAgain(n) ==
    /\ Free /\ manifests[n] # NoLayers
    /\ IF trees[manifests[n]] = NoLayers
       THEN /\ trees' = [trees EXCEPT ![manifests[n]] = {}]
            /\ composing' = {n}
            /\ UNCHANGED mountVars
       ELSE /\ MountTree(n, manifests[n])
            /\ UNCHANGED <<trees, composing>>
    /\ UNCHANGED <<dirVars, held>>

\* mount, compose_layers: a tree that is there already counts as composed.
Mount(n) ==
    /\ Free /\ mounts[n] = NoLayers /\ manifests[n] # NoLayers
    /\ IF trees[manifests[n]] = NoLayers
       THEN /\ trees' = [trees EXCEPT ![manifests[n]] = {}]
            /\ composing' = {n}
            /\ UNCHANGED mountVars
       ELSE /\ MountTree(n, manifests[n])
            /\ UNCHANGED <<trees, composing>>
    /\ UNCHANGED <<dirVars, held>>

\* The layers are copied one after the other; one that is missing is passed over.
Copied(q) == {<<l, inside[l]>> : l \in {l \in ToSet(q) : dirs[l] = "whole"}}

Composed(n) ==
    /\ n \in composing
    /\ composing' = {}
    /\ trees' = [trees EXCEPT ![manifests[n]] = Copied(manifests[n])]
    /\ MountTree(n, manifests[n])
    /\ UNCHANGED <<dirVars, held>>

\* Copying raises: nothing is mounted, and the tree stays as it is.
ComposeFails(n) ==
    /\ n \in composing
    /\ composing' = {}
    /\ \E some \in SUBSET Copied(manifests[n]) : trees' = [trees EXCEPT ![manifests[n]] = some]
    /\ UNCHANGED <<dirVars, held, mountVars>>

OtherComposes(q, some) ==
    /\ trees[q] = NoLayers
    /\ trees' = [trees EXCEPT ![q] = some]
    /\ UNCHANGED <<dirVars, held, composing, mountVars>>

\* The tree leaves the path also when another package is mounted on it; the package's
\* modules leave sys.modules also when it was not mounted.
Unmount(n) ==
    /\ Free
    /\ mounts' = [mounts EXCEPT ![n] = NoLayers]
    /\ path' = RemoveFirst(path, mounts[n])
    /\ modules' = [p \in LazyPackages |-> IF p = n THEN "absent" ELSE modules[p]]
    /\ UNCHANGED <<dirVars, trees, held, composing, manifests>>

\* LazyFinder and LazyLoader: the module comes into being without its content.
ImportLazy(n) ==
    /\ Free /\ modules[n] = "absent"
    /\ modules' = [modules EXCEPT ![n] = "lazy"]
    /\ UNCHANGED <<dirVars, trees, held, composing, manifests, mounts, path>>

\* The first attribute that is asked for fetches the content.  When that gives nothing,
\* or raises, the module counts as loaded all the same and stays empty.
FirstUse(n) ==
    /\ Free /\ modules[n] = "lazy"
    /\ \E content \in {"real", "empty"} : modules' = [modules EXCEPT ![n] = content]
    /\ UNCHANGED <<dirVars, trees, held, composing, manifests, mounts, path>>

LayersNext ==
    \/ \E l \in Layers :
          \/ \E data \in {l, Stray}, checked \in BOOLEAN : Download(l, data, checked)
          \/ OtherStores(l)
    \/ \E d \in Data, ok \in BOOLEAN : Extracted(d, ok)
    \/ StoreLayer
    \/ \E active \in SUBSET Layers : CleanUp(active)
    \/ \E q \in Lists : \E some \in SUBSET Copied(q) : OtherComposes(q, some)
    \/ \E n \in Packages :
          \/ \E q \in Lists \cup {NoLayers} : StoreManifest(n, q)
          \/ Mount(n) \/ Composed(n) \/ ComposeFails(n) \/ Unmount(n)
    \/ \E n \in LazyPackages : ImportLazy(n) \/ FirstUse(n)

LayersSpec == LayersInit /\ [][LayersNext]_layerVars

-----------------------------------------------------------------------------
(* Properties                                                              *)

\* Every variable has its type; what is being extracted is a part, and a mounted package
\* has a tree.
LayersTypeOK ==
    /\ dirs \in [Data -> {"absent", "part", "whole"}] /\ inside \in [Data -> Data]
    /\ busy \in [Data -> {"me", "other", "nobody"}]
    /\ \A d \in Data : busy[d] # "nobody" => dirs[d] = "part"
    /\ trees \in [Lists -> {NoLayers} \cup SUBSET (Layers \X Data)]
    /\ \A q \in Lists : trees[q] # NoLayers => trees[q] \subseteq ToSet(q) \X Data
    /\ held \in {<<>>} \cup (Layers \X Data)
    /\ composing \subseteq Packages
    /\ manifests \in [Packages -> Lists \cup {NoLayers}]
    /\ mounts \in [Packages -> Lists \cup {NoLayers}]
    /\ \A n \in Packages : mounts[n] # NoLayers => trees[mounts[n]] # NoLayers
    /\ path \in Seq(Lists)
    /\ modules \in [LazyPackages -> {"absent", "lazy", "real", "empty"}]

\* Whatever is imported under the name of a layer is that layer's content, although most
\* downloads are not checked: every directory is named by the hash of its own data.
RightContent ==
    \A i \in DOMAIN path : \A copy \in trees[path[i]] : copy[1] = copy[2]

\* A tree is on the import path once, and it is the tree of a mounted package: nothing is
\* left behind when a mounted package gets another manifest and is unmounted.
PathsAreMounts ==
    /\ IsInjective(path)
    /\ \A i \in DOMAIN path : \E n \in Packages : mounts[n] = path[i]
=============================================================================
