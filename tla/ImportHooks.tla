----------------------------- MODULE ImportHooks ----------------------------
(* The import hooks of one Python program (runtime/hooks.py): packages     *)
(* registered for cloud execution are loaded as proxy modules by a finder  *)
(* in front of the standard ones.  An install in the same process may      *)
(* register a package, or install it, at any moment between two imports.   *)
(* What a proxy does when it is called is module CloudSession.  A local    *)
(* import that raises half way, and leaves the package's modules in        *)
(* sys.modules without the package, is not modelled.                       *)
EXTENDS Sequences, Integers

CONSTANTS
    Packages,       \* top-level packages
    Submodules      \* names of modules inside a package

Names == {<<p>> : p \in Packages} \cup {<<p, m>> : p \in Packages, m \in Submodules}

VARIABLES
    registered,     \* _cloud_packages: the packages configured for the cloud
    hooksActive,    \* _hooks_active
    finders,        \* how many CpipFinders sys.meta_path holds
    available,      \* the packages the standard finders can load
    kind,           \* sys.modules: what each module was loaded as
    sessions        \* the proxy modules that have created their CloudSession

hookVars == <<registered, hooksActive, finders, available, kind, sessions>>

HooksInit ==
    /\ registered = {}
    /\ hooksActive = FALSE
    /\ finders = 0
    /\ available \in SUBSET Packages
    /\ kind = [n \in Names |-> "absent"]
    /\ sessions = {}

\* split(".")[0]
TopLevel(n) == <<n[1]>>

\* sys.modules has the module.
InModules(n) == kind[n] # "absent"

\* register_cloud_package; whether the package is hybrid is stored and never read.
RegisterCloudPackage(p) ==
    /\ registered' = registered \cup {p}
    /\ UNCHANGED <<hooksActive, finders, available, kind, sessions>>

\* Mutant: hooks that are active are not recognised, and a second finder is put in front.
ActivateAgain ==
    /\ hooksActive' = TRUE
    /\ finders' = finders + 1
    /\ finders < 3
    /\ UNCHANGED <<registered, available, kind, sessions>>

\* activate_hooks: the commands run and shell; nothing happens when hooks are active.
ActivateHooks ==
    /\ ~hooksActive
    /\ hooksActive' = TRUE
    /\ finders' = finders + 1
    /\ UNCHANGED <<registered, available, kind, sessions>>

\* deactivate_hooks: every finder of ours leaves sys.meta_path.
DeactivateHooks ==
    /\ hooksActive' = FALSE
    /\ finders' = 0
    /\ UNCHANGED <<registered, available, kind, sessions>>

\* Mutant: asks whether the module itself is loaded, not the package it belongs to.
FindSpecOfModule(n) ==
    /\ n[1] \in registered
    /\ ~(InModules(n) /\ kind[n] = "local")

\* CpipFinder.find_spec: a package that was loaded normally keeps its own modules.
FindSpec(n) ==
    /\ n[1] \in registered
    /\ ~(InModules(TopLevel(n)) /\ kind[TopLevel(n)] = "local")

\* The standard finders: a module inside a package is looked for on the package's __path__,
\* which is empty for a proxy.
StandardFinds(n) ==
    IF n = TopLevel(n) THEN n[1] \in available ELSE kind[TopLevel(n)] = "local"

\* import n: the package first, then the module inside it.  One that is in sys.modules is
\* not looked for again, and one that nobody finds is an ImportError.
Import(n) ==
    /\ ~InModules(n)
    /\ n # TopLevel(n) => InModules(TopLevel(n))
    /\ \/ /\ finders > 0 /\ FindSpec(n)
          /\ kind' = [kind EXCEPT ![n] = "proxy"]
       \/ /\ ~(finders > 0 /\ FindSpec(n))
          /\ StandardFinds(n)
          /\ kind' = [kind EXCEPT ![n] = "local"]
    /\ UNCHANGED <<registered, hooksActive, finders, available, sessions>>

\* ProxyModule.__getattr__ and __dir__: the first use of a proxy creates its session, one
\* for every proxy module.
UseProxy(n) ==
    /\ kind[n] = "proxy" /\ n \notin sessions
    /\ sessions' = sessions \cup {n}
    /\ UNCHANGED <<registered, hooksActive, finders, available, kind>>

\* pip makes a package available to the standard finders.
PackageInstalled(p) ==
    /\ available' = available \cup {p}
    /\ UNCHANGED <<registered, hooksActive, finders, kind, sessions>>

HooksNext ==
    \/ \E p \in Packages : RegisterCloudPackage(p) \/ PackageInstalled(p)
    \/ ActivateHooks \/ DeactivateHooks
    \/ \E n \in Names : Import(n) \/ UseProxy(n)

HooksSpec == HooksInit /\ [][HooksNext]_hookVars

------------------------------------------------------------------------------
(* Properties                                                              *)

\* The flag says whether our finder is on sys.meta_path, and it is never there twice; only
\* a proxy has a session.
HooksTypeOK ==
    /\ registered \subseteq Packages /\ available \subseteq Packages
    /\ hooksActive \in BOOLEAN
    /\ finders = IF hooksActive THEN 1 ELSE 0
    /\ kind \in [Names -> {"absent", "local", "proxy"}]
    /\ sessions \subseteq {n \in Names : kind[n] = "proxy"}

\* A package is loaded as one thing: its modules are all proxies or all its own, whatever
\* is registered, installed, activated or deactivated between two of its imports, each of
\* which succeeds or loads nothing.
OneKind == \A n \in Names : InModules(n) => kind[n] = kind[TopLevel(n)]
=============================================================================
