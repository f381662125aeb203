---------------------------- MODULE JobLifecycle ----------------------------
(***************************************************************************)
(* What the build farm promises of a job: it waits, one worker builds it,  *)
(* and then it is done or waits again.  No job is lost, none is built by   *)
(* two workers at once, and no worker builds two.                          *)
(***************************************************************************)
CONSTANTS Jobs, Workers, None

VARIABLES
    status,   \* "new", "waiting", "building" or "done"
    builder   \* the worker that builds each job

vars == <<status, builder>>

Init ==
    /\ status = [j \in Jobs |-> "new"]
    /\ builder = [j \in Jobs |-> None]

Submit(j) ==
    /\ status[j] = "new"
    /\ status' = [status EXCEPT ![j] = "waiting"]
    /\ UNCHANGED builder

Take(w, j) ==
    /\ status[j] = "waiting"
    /\ \A k \in Jobs : builder[k] # w
    /\ status' = [status EXCEPT ![j] = "building"]
    /\ builder' = [builder EXCEPT ![j] = w]

Finish(j, outcome) ==
    /\ status[j] = "building"
    /\ status' = [status EXCEPT ![j] = outcome]
    /\ builder' = [builder EXCEPT ![j] = None]

Next ==
    \E j \in Jobs :
        \/ Submit(j)
        \/ \E w \in Workers : Take(w, j)
        \/ \E outcome \in {"waiting", "done"} : Finish(j, outcome)

Spec == Init /\ [][Next]_vars
=============================================================================
