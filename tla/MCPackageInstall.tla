-------------------------- MODULE MCPackageInstall --------------------------
(* Instances of cpip install for model checking: two versions of a package *)
(* whose wheels have one name, and another package.                        *)
EXTENDS PackageInstall, TLC
CONSTANTS p1, p2, latest, pinned, other, f1, f2

MCProcesses  == {p1, p2}
MCOneProcess == {p1}
MCOneKey     == {latest}
MCKeys       == {latest, pinned, other}
MCFiles      == {f1, f2}
MCFileOf     == [k \in Keys |-> IF k = other THEN f2 ELSE f1]
MCPackageOf  == [k \in Keys |-> IF k = other THEN 2 ELSE 1]

\* One size for the files of two processes, different ones for those of one.
MCOneSize    == [f \in MCFiles |-> 1]
MCSizeOf     == (f1 :> 2) @@ (f2 :> 1)
=============================================================================
