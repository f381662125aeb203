--------------------------- MODULE CallLifecycle ---------------------------
(***************************************************************************)
(* What the daemon's connection promises of a call: it is handed to the    *)
(* cloud once, served once and answered once; it ends once, with the       *)
(* answer that it was served with or with an exception of the daemon's;    *)
(* and one that was lost with the connection is neither sent again nor     *)
(* served nor answered any more.                                           *)
(***************************************************************************)
CONSTANTS
    Calls,
    AnswersOf, \* the answers that each call may end with
    Refused,   \* what ends a call when there is no connection
    TimedOut,  \* and when no answer came in time
    None

VARIABLES
    stage,   \* "new", "sent", "served", "answered", "lost" or "over"
    ending   \* what each call ended with, or None

vars == <<stage, ending>>

InFlight == {"sent", "served", "answered"}

Init ==
    /\ stage = [c \in Calls |-> "new"]
    /\ ending = [c \in Calls |-> None]

Moves(c, from, to) ==
    /\ stage[c] = from
    /\ stage' = [stage EXCEPT ![c] = to]
    /\ UNCHANGED ending

Ends(c, outcome) ==
    /\ stage' = [stage EXCEPT ![c] = "over"]
    /\ ending' = [ending EXCEPT ![c] = outcome]

Refuse(c) == stage[c] = "new" /\ Ends(c, Refused)
GiveUp(c) == stage[c] \in InFlight \cup {"lost"} /\ Ends(c, TimedOut)
Finish(c) == stage[c] = "answered" /\ \E answer \in AnswersOf[c] : Ends(c, answer)

\* All calls in flight are lost at once.
Lose ==
    /\ stage' = [c \in Calls |-> IF stage[c] \in InFlight THEN "lost" ELSE stage[c]]
    /\ UNCHANGED ending

Next ==
    \/ \E c \in Calls :
          \/ Moves(c, "new", "sent") \/ Moves(c, "sent", "served") \/ Moves(c, "served", "answered")
          \/ Refuse(c) \/ GiveUp(c) \/ Finish(c)
    \/ Lose

Spec == Init /\ [][Next]_vars
=============================================================================
