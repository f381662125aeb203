---------------------------- MODULE MCClientDisk ----------------------------
(* Instances of the parts of the client that keep files, for model         *)
(* checking: installs over the package cache, virtual packages, the        *)
(* infrastructure configurations and the settings.  They use files of      *)
(* their own, so a behaviour is one of one part, chosen at the beginning.  *)
EXTENDS ClientDisk, TLC

CONSTANTS p1,                            \* an installing process
          latest, pinned, other, f1, f2, \* versions, and files of wheels
          a, b, l1,                      \* virtual packages, and a layer
          m1, m2, n1                     \* programs, and the name of a configuration

MCProcesses  == {p1}
MCKeys       == {latest, pinned, other}
MCFiles      == {f1, f2}
MCFileOf     == [k \in Keys |-> IF k = other THEN f2 ELSE f1]
MCPackageOf  == [k \in Keys |-> IF k = other THEN 2 ELSE 1]
MCSizeOf     == (f1 :> 2) @@ (f2 :> 1)
MCPackages   == {a, b}
MCLazy       == {a}
MCLayers     == {l1}
MCLists      == {<<l1>>, <<>>}
MCPrograms   == {m1, m2}
MCNames      == {n1}
MCCloudTypes == {"GPU_CLUSTER"}
MCClouds     == {"AWS"}
MCGPUs       == {"A100"}
MCFigures    == {1}

VARIABLE part

\* A behaviour of one part, chosen at the beginning; the others stay as they begin.
MCInit == part \in {"install", "layers", "config", "settings"} /\ DiskInit

MCNext ==
    \/ part = "install" /\ InstallsMove /\ UNCHANGED part
    \/ part = "layers" /\ LayersMove /\ UNCHANGED part
    \/ part = "config" /\ ConfigsMove /\ UNCHANGED part
    \/ part = "settings" /\ SettingsMove /\ UNCHANGED part

\* The fairness of installs, as in FairSpec; the other parts have none.
MCFair == \A p \in Processes : WF_vars(part = "install" /\ Step(p))

MCSpec == MCInit /\ [][MCNext]_<<part, diskVars>> /\ MCFair
=============================================================================
