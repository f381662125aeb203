--------------------------- MODULE PackageInstall ---------------------------
(***************************************************************************)
(* cpip install: a process resolves how to provide a package               *)
(* (client/resolver.py) and tries the strategies in turn                   *)
(* (client/installer.py), over the wheel cache they share.                 *)
(*                                                                         *)
(* Every await is a point where another process may run: the query to the  *)
(* cloud, a download, a pip process.  The file operations between two      *)
(* awaits are one step.  The cloud and pip may answer in any way.          *)
(***************************************************************************)
EXTENDS PackageCache

CONSTANTS
    PackageOf,  \* the package of each key
    MaxPolls    \* how often the cloud is asked again for a built wheel: 359 in the code

Strategies == {"local", "termux", "wheel", "build", "exec", "hybrid"}

ASSUME InstallAssumption == MaxPolls \in Nat

VARIABLES
    installed,  \* packages that the interpreter finds
    pc,
    key,        \* package and version asked for
    plan,       \* the strategies that are left; the first one is being tried
    polls,      \* questions for a built wheel that are left
    hash,       \* the registry gave a hash of the wheel
    source      \* what pip is given: "file" or "index"

procVars == <<pc, key, plan, polls, hash, source>>
vars == <<cacheVars, installed, procVars>>

Init ==
    /\ CacheInit
    /\ installed = {}
    /\ pc = [p \in Processes |-> "idle"]
    /\ key = [p \in Processes |-> None]
    /\ plan = [p \in Processes |-> <<>>]
    /\ polls = [p \in Processes |-> MaxPolls]
    /\ hash = [p \in Processes |-> FALSE]
    /\ source = [p \in Processes |-> None]

Wheel(p) == FileOf[key[p]]
Goto(p, l) == pc' = [pc EXCEPT ![p] = l]

\* A command starts, or goes on to its next package with the index that it has.
Begin(p, k) ==
    /\ pc[p] = "idle"
    /\ Load(p) \/ UNCHANGED cacheVars
    /\ Goto(p, "resolve")
    /\ key' = [key EXCEPT ![p] = k]
    /\ UNCHANGED <<installed, plan, polls, hash, source>>

Try(p, strategies, withHash) ==
    /\ Goto(p, "try")
    /\ plan' = [plan EXCEPT ![p] = strategies]
    /\ hash' = [hash EXCEPT ![p] = withHash]
    /\ UNCHANGED <<installed, key, polls, source>>

\* The install ends, by a return or by PackageInstallError.
End(p) ==
    /\ Goto(p, "idle")
    /\ key' = [key EXCEPT ![p] = None]
    /\ plan' = [plan EXCEPT ![p] = <<>>]
    /\ polls' = [polls EXCEPT ![p] = MaxPolls]
    /\ hash' = [hash EXCEPT ![p] = FALSE]
    /\ source' = [source EXCEPT ![p] = None]

\* resolve: the package is installed, or a wheel is found in the cache, or the cloud
\* is asked.  An installed package is installed again only with --force.
ResolveInstalled(p) ==
    /\ pc[p] = "resolve"
    /\ PackageOf[key[p]] \in installed
    /\ \/ End(p) /\ UNCHANGED installed
       \/ Try(p, <<"local">>, FALSE)
    /\ UNCHANGED cacheVars

ResolveCached(p) ==
    /\ pc[p] = "resolve"
    /\ PackageOf[key[p]] \notin installed
    /\ GetWheel(p, key[p])
    /\ \/ Hit(p, key[p]) /\ Try(p, <<"local">>, FALSE)
       \/ /\ ~Hit(p, key[p])
          /\ Goto(p, "query")
          /\ UNCHANGED <<installed, key, plan, polls, hash, source>>

\* The registry knows the package.
QueryAnswered(p) ==
    /\ pc[p] = "query"
    /\ \E s \in Strategies, withHash \in BOOLEAN :
         /\ withHash => s = "wheel"
         /\ Try(p, <<s>> \o (IF s = "exec" THEN <<"build">>
                             ELSE IF s = "build" THEN <<"exec">>
                             ELSE <<"exec", "build">>), withHash)
    /\ UNCHANGED cacheVars

\* Mutant: nothing is left when the cloud has no wheel.
QueryFailedNoExec(p) ==
    /\ pc[p] = "query"
    /\ \E strategies \in {<<"termux">>, <<"exec", "build">>, <<"local", "wheel", "build">>} :
         Try(p, strategies, FALSE)
    /\ UNCHANGED cacheVars

\* It does not, or the client is offline: Termux has the package, or it is one that
\* is better run in the cloud, or neither.
QueryFailed(p) ==
    /\ pc[p] = "query"
    /\ \E strategies \in {<<"termux">>, <<"exec", "build">>,
                          <<"local", "wheel", "build", "exec">>} :
         Try(p, strategies, FALSE)
    /\ UNCHANGED cacheVars

\* Mutant: the next strategy is tried again and again.
NextStrategyStuck(p) ==
    /\ Goto(p, "try")
    /\ hash' = [hash EXCEPT ![p] = FALSE]
    /\ source' = [source EXCEPT ![p] = None]
    /\ UNCHANGED <<installed, key, plan, polls>>

\* The hash is of no use to the strategies that come later.
NextStrategy(p) ==
    /\ Goto(p, "try")
    /\ plan' = [plan EXCEPT ![p] = Tail(@)]
    /\ hash' = [hash EXCEPT ![p] = FALSE]
    /\ source' = [source EXCEPT ![p] = None]
    /\ UNCHANGED <<installed, key, polls>>

Exhausted(p) ==
    /\ pc[p] = "try"
    /\ plan[p] = <<>>
    /\ End(p)
    /\ UNCHANGED <<cacheVars, installed>>

Trying(p, strategies) == pc[p] = "try" /\ plan[p] # <<>> /\ plan[p][1] \in strategies

\* _install_local, as a strategy or at the end of a cloud build.
InstallLocal(p) ==
    /\ Trying(p, {"local"}) \/ pc[p] = "built"
    /\ GetWheel(p, key[p])
    /\ Goto(p, "pip")
    /\ source' = [source EXCEPT ![p] = IF Hit(p, key[p]) THEN "file" ELSE "index"]
    /\ UNCHANGED <<installed, key, plan, polls, hash>>

InstallTermux(p) ==
    /\ Trying(p, {"termux"})
    /\ \/ /\ installed' = installed \cup {PackageOf[key[p]]}
          /\ End(p)
       \/ NextStrategy(p)
    /\ UNCHANGED cacheVars

\* A cloud package is registered in this process; nothing is installed.
SetupExec(p) ==
    /\ Trying(p, {"exec", "hybrid"})
    /\ End(p)
    /\ UNCHANGED <<cacheVars, installed>>

\* The cloud has a wheel, or builds one, and its download begins: the file is opened
\* for writing.  Or there is no wheel.
Fetch(p) ==
    /\ Trying(p, {"wheel", "build"})
    /\ \/ /\ files' = [files EXCEPT ![Wheel(p)] = "part"]
          /\ Goto(p, "download")
          /\ UNCHANGED <<index, disk, installed, key, plan, polls, hash, source>>
       \/ NextStrategy(p) /\ UNCHANGED cacheVars

\* The body is all there.  Whether it is a wheel, the status is not looked at.  The
\* name may be gone, or another process is writing the file again.
Downloaded(p) ==
    /\ pc[p] = "download"
    /\ \/ /\ \/ files[Wheel(p)] = None
             \/ \E q \in Processes \ {p} : pc[q] = "download" /\ Wheel(q) = Wheel(p)
          /\ UNCHANGED files
       \/ /\ files[Wheel(p)] # None
          /\ \A q \in Processes \ {p} : ~(pc[q] = "download" /\ Wheel(q) = Wheel(p))
          /\ \E body \in {"wheel", "error"} : files' = [files EXCEPT ![Wheel(p)] = body]
    /\ Goto(p, "store")
    /\ UNCHANGED <<index, disk, installed, key, plan, polls, hash, source>>

\* Mutant: the part is taken for the wheel.
DownloadFailsStores(p) ==
    /\ pc[p] = "download"
    /\ Goto(p, "store")
    /\ UNCHANGED <<cacheVars, installed, key, plan, polls, hash, source>>

\* The download breaks off; the part stays where it is.  A built wheel is asked for
\* and downloaded again.
DownloadFails(p) ==
    /\ pc[p] = "download"
    /\ \/ NextStrategy(p)
       \/ /\ plan[p][1] = "build"
          /\ polls[p] > 0
          /\ polls' = [polls EXCEPT ![p] = @ - 1]
          /\ Goto(p, "try")
          /\ UNCHANGED <<installed, key, plan, hash, source>>
    /\ UNCHANGED cacheVars

\* The wheel enters the cache, and pip installs it; a built one is first looked up
\* in the cache.
Store(p) ==
    /\ pc[p] = "store"
    /\ StoreWheel(p, key[p], IF plan[p][1] = "wheel" /\ hash[p] THEN "wheel" ELSE None)
    /\ IF plan[p][1] = "wheel"
       THEN Goto(p, "pip") /\ source' = [source EXCEPT ![p] = "file"]
       ELSE Goto(p, "built") /\ UNCHANGED source
    /\ UNCHANGED <<installed, key, plan, polls, hash>>

StoreRaises(p) ==
    /\ pc[p] = "store"
    /\ StoreFails(p, key[p])
    /\ NextStrategy(p)

\* pip ends: it installs what is a wheel when it reads the file.
PipSucceeds(p) ==
    /\ pc[p] = "pip"
    /\ source[p] = "file" => files[Wheel(p)] = "wheel"
    /\ installed' = installed \cup {PackageOf[key[p]]}
    /\ End(p)
    /\ UNCHANGED cacheVars

PipFails(p) ==
    /\ pc[p] = "pip"
    /\ NextStrategy(p)
    /\ UNCHANGED cacheVars

Step(p) ==
    \/ ResolveInstalled(p) \/ ResolveCached(p) \/ QueryAnswered(p) \/ QueryFailed(p)
    \/ Exhausted(p)
    \/ InstallLocal(p) \/ InstallTermux(p) \/ SetupExec(p)
    \/ Fetch(p) \/ Downloaded(p) \/ DownloadFails(p) \/ Store(p) \/ StoreRaises(p)
    \/ PipSucceeds(p) \/ PipFails(p)

\* The process is interrupted.
Crash(p) ==
    /\ pc[p] # "idle"
    /\ End(p)
    /\ UNCHANGED <<cacheVars, installed>>

\* cpip doctor, and a cleared cache.
Maintain(p) ==
    /\ pc[p] = "idle"
    /\ Verify(p) \/ Clear(p)
    /\ UNCHANGED <<installed, procVars>>

\* The package is uninstalled.
Uninstall(k) ==
    /\ PackageOf[k] \in installed
    /\ installed' = installed \ {PackageOf[k]}
    /\ UNCHANGED <<cacheVars, procVars>>

Next ==
    \/ \E p \in Processes :
         \/ \E k \in Keys : Begin(p, k)
         \/ Step(p)
         \/ Crash(p)
         \/ Maintain(p)
    \/ \E k \in Keys : Uninstall(k)

Spec == Init /\ [][Next]_vars

\* Requests time out, and pip processes end.
FairSpec == Spec /\ \A p \in Processes : WF_vars(Step(p))

-----------------------------------------------------------------------------
(* Properties                                                              *)

Entries == [key : Keys, sha : Bodies, size : Nat]
Indexes == {idx \in Seq(Entries) : \A i, n \in DOMAIN idx : idx[i].key = idx[n].key => i = n}

\* Every variable has its type, and an index has one entry for a key.
TypeOK ==
    /\ index \in [Processes -> Indexes]
    /\ disk \in Indexes
    /\ files \in [Files -> Bodies \cup {None}]
    /\ installed \subseteq {PackageOf[k] : k \in Keys}
    /\ pc \in [Processes -> {"idle", "resolve", "query", "try", "download", "store",
                             "built", "pip"}]
    /\ key \in [Processes -> Keys \cup {None}]
    /\ plan \in [Processes -> Seq(Strategies)]
    /\ polls \in [Processes -> 0..MaxPolls]
    /\ hash \in [Processes -> BOOLEAN]
    /\ source \in [Processes -> {"file", "index", None}]

\* An index counts at most one wheel more than the limit: store evicts before it adds.
\* What it counts may be less than what the directory holds.
CountedBound ==
    \A idx \in {index[p] : p \in Processes} \cup {disk} : Total(idx) <= Limit + MaxSize

\* As long as the cloud is to be tried, running the package in the cloud is still
\* to be tried too: an install fails only when the package was found locally.
CloudPlanEndsInExec ==
    \A p \in Processes :
        Range(plan[p]) \cap {"wheel", "build"} # {} => Range(plan[p]) \cap {"exec", "hybrid"} # {}

\* A download that was cut short, by an error or by a crash, is never found valid
\* later, also when the part lies under the name of another key's wheel.  (Of installs
\* that do not overlap: two that download one name at once can break it.)
PartIsNoHit == \A p \in Processes, k \in Keys : Hit(p, k) => files[FileOf[k]] # "part"

\* Every install ends, whatever fails, and whatever another process does to the cache
\* between the awaits of this one: a hit that is gone when it is asked for, a wheel that
\* is replaced or evicted, an index that was read and is not the one on disk.
InstallEnds == \A p \in Processes : pc[p] # "idle" ~> pc[p] = "idle"

\* What get_wheel finds valid is a wheel.
HitIsWheel == \A p \in Processes, k \in Keys : Hit(p, k) => files[FileOf[k]] = "wheel"
=============================================================================
