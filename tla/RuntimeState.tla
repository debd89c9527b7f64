---------------------------- MODULE RuntimeState ----------------------------
(***************************************************************************)
(* The states of the routing runtime and the transitions between them that *)
(* RuntimeStateMachine::transition accepts (runtime/runtime_state_machine).*)
(* A refused transition leaves the state alone and reports an error.       *)
(***************************************************************************)

RuntimeStates == {"starting", "running", "restart_required", "applying",
                  "stopped", "broken", "shutting_down"}

(* The states that transition() accepts from each state.  No state may     *)
(* follow itself.                                                          *)
Successors == [s \in RuntimeStates |->
    CASE s = "starting"         -> {"running", "stopped", "broken", "shutting_down"}
      [] s = "running"          -> {"applying", "restart_required", "stopped", "broken",
                                    "shutting_down"}
      [] s = "restart_required" -> {"applying", "stopped", "broken", "shutting_down"}
      [] s = "applying"         -> {"running", "broken", "stopped"}
      [] s = "stopped"          -> {"starting", "applying", "broken", "shutting_down"}
      [] s = "broken"           -> {"applying", "stopped", "shutting_down"}
      [] s = "shutting_down"    -> {"stopped"}]

MayMove(from, to) == to \in Successors[from]

(* The state after a transition whose refusal the caller ignores.          *)
Moved(from, to) == IF MayMove(from, to) THEN to ELSE from
=============================================================================
