------------------------------ MODULE TaskPool ------------------------------
(***************************************************************************)
(* What the parts of the daemon rely on when they hand a task to an        *)
(* executor, without queue, threads or condition variables: a call is      *)
(* answered, an accepted task runs once, a refused one never, and a        *)
(* shutdown that returned has left none behind.                            *)
(***************************************************************************)
CONSTANT Tasks

VARIABLES
    status,     \* task -> what its caller knows of it
    phase       \* what the caller of shutdown() knows

vars == <<status, phase>>

Init == status = [t \in Tasks |-> "none"] /\ phase = "open"

(* The caller is made to wait.                                             *)
Ask(t) ==
    /\ status[t] = "none"
    /\ status' = [status EXCEPT ![t] = "asked"]
    /\ UNCHANGED phase

(* Only an open pool accepts; it may always refuse.                        *)
Answer(t) ==
    /\ status[t] \in {"none", "asked"}
    /\ \/ phase = "open" /\ status' = [status EXCEPT ![t] = "accepted"]
       \/ status' = [status EXCEPT ![t] = "refused"]
    /\ UNCHANGED phase

Run(t) ==
    /\ status[t] = "accepted"
    /\ status' = [status EXCEPT ![t] = "done"]
    /\ UNCHANGED phase

BeginClose == phase = "open" /\ phase' = "closing" /\ UNCHANGED status
EndClose ==
    /\ phase = "closing"
    /\ \A t \in Tasks : status[t] # "accepted"
    /\ phase' = "closed"
    /\ UNCHANGED status

Next ==
    \/ \E t \in Tasks : Ask(t) \/ Answer(t) \/ Run(t)
    \/ BeginClose \/ EndClose

Spec == Init /\ [][Next]_vars

(* Whoever waits is answered, what was accepted runs, a shutdown returns.  *)
Fairness ==
    /\ \A t \in Tasks : WF_vars(status[t] = "asked" /\ Answer(t)) /\ WF_vars(Run(t))
    /\ WF_vars(EndClose)

FairSpec == Spec /\ Fairness
=============================================================================
