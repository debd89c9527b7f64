---------------------------- MODULE DaemonSighup ----------------------------
(***************************************************************************)
(* SIGHUP: re-read the configuration file and apply it as a transaction    *)
(* (handle_sighup and apply_validated_config_via_control_task).  The lease *)
(* of operation_coordinator_ keeps a second SIGHUP and a list refresh out; *)
(* a lifecycle operation does not ask for it.                              *)
(***************************************************************************)
EXTENDS DaemonRuntime

(* hup.at: "read" and "confirm" run on executors, "apply", "commit" and    *)
(* "release" are control tasks, "lost" is the worker waiting for a commit  *)
(* that was dropped, "gone" the end of a worker whose last post was.       *)
HupStates == {"idle", "read", "apply", "confirm", "commit", "release", "lost", "gone"}

otherThanHup == <<draft, disk, loop, boot, op, switching, left, env>>

(* The worker posts the release of the lease, whatever happened before.    *)
HupEnds(ok) ==
    hup' = [hup EXCEPT !.at = IF Accepting THEN "release" ELSE "gone",
                       !.queued = Accepting, !.ok = ok]

(* handle_sighup() on the loop; skipped when the lease is taken.           *)
HandleSighup ==
    /\ loop = "serving"
    /\ Event
    /\ IF lease
       THEN UNCHANGED <<hup, lease>>
       ELSE /\ lease' = TRUE
            /\ hup' = [at |-> "read", queued |-> FALSE, cfg |-> NoCfg, expect |-> NoHash,
                       confirmed |-> FALSE, ok |-> FALSE]
    /\ UNCHANGED <<rtVars, dns, store, draft, disk, loop, boot, op, switching>>

(* Mutant: the file becomes the active snapshot before it is applied.      *)
HupReadPublishes ==
    /\ hup.at = "read"
    /\ hup' = [hup EXCEPT !.at = "apply", !.queued = LoopActive, !.cfg = disk]
    /\ store' = disk
    /\ UNCHANGED <<rtVars, dns, lease, otherThanHup>>

(* Parse, validate and prepare on the worker, then enqueue the apply task. *)
HupRead ==
    /\ hup.at = "read"
    /\ \/ hup' = [hup EXCEPT !.at = "apply", !.queued = LoopActive, !.cfg = disk]
       \/ "prepare" \in Faults /\ HupEnds(FALSE)
    /\ UNCHANGED <<rtVars, dns, store, lease, otherThanHup>>

(* apply_prepared_runtime_inputs(prepared, false) in one control task: the *)
(* loop itself runs the hook and waits for the confirmation, serving only  *)
(* the control socket meanwhile; on a worker, inline, nobody serves it.    *)
(* The outcomes: the kernel or the state machine refuses, the hook fails,  *)
(* the hash is not confirmed, all is well.                                 *)
HupApply ==
    /\ hup.at = "apply"
    /\ Runs(hup)
    /\ \E k \in KernelResults(hup.cfg) :
         LET applied == ReconcileOk(k)
             before == IF k.ok THEN Moved(phase, "applying") ELSE phase IN
         /\ live' = hup.cfg
         /\ routes' = k.routes
         /\ fw' = k.fw
         /\ active' = (active \/ k.ok)
         /\ expected' = IF applied THEN Hash[hup.cfg] ELSE expected
         /\ timers' = timers \ {"hash", "retry"}
         /\ actual' = actual
         /\ \/ (* served, confirmed and completed *)
               /\ applied
               /\ loop = "serving"
               /\ phase' = Moved(before, "running")
               /\ dns' = Hash[hup.cfg]
               /\ tests' = TRUE
               /\ probe' = IF probe.at = "none" THEN NewProbe ELSE Outdated(probe)
               /\ hup' = [hup EXCEPT !.at = "confirm", !.queued = FALSE, !.expect = Hash[hup.cfg]]
            \/ (* anything thrown on the way marks the runtime broken *)
               /\ ~applied \/ loop # "serving" \/ {"hook", "verify"} \cap Faults # {}
               /\ phase' = Moved(before, "broken")
               /\ \/ dns' = dns
                  \/ applied /\ dns' = IF loop = "serving" THEN Hash[hup.cfg] ELSE NoHash
               /\ tests' = FALSE
               /\ probe' = Outdated(probe)
               /\ HupEnds(FALSE)
    /\ UNCHANGED <<store, lease, otherThanHup>>

(* resolver_io_executor_ asks for the hash once more and posts the commit. *)
HupConfirm ==
    /\ hup.at = "confirm"
    /\ \E ok \in BOOLEAN :
         /\ IF ok THEN Confirmed(hup.expect) ELSE Unconfirmed(hup.expect)
         /\ hup' = [hup EXCEPT !.at = IF Accepting THEN "commit" ELSE "lost",
                               !.queued = Accepting, !.confirmed = ok]
    /\ UNCHANGED <<rtVars, dns, store, lease, otherThanHup>>

(* The posted commit: replace_active(config_), then a last transition to   *)
(* "running" whose refusal makes the result an error.  Without the         *)
(* confirmation the runtime is marked broken.                              *)
HupCommit ==
    /\ hup.at = "commit"
    /\ loop = "serving"
    /\ IF hup.confirmed
       THEN /\ store' = live
            /\ phase' = Moved(phase, "running")
            /\ HupEnds(MayMove(phase, "running"))
       ELSE /\ store' = store
            /\ phase' = Moved(phase, "broken")
            /\ HupEnds(FALSE)
    /\ UNCHANGED <<active, live, routes, fw, expected, actual, probe, timers, tests, dns,
                   lease, otherThanHup>>

(* operation_coordinator_.finish()                                         *)
HupRelease ==
    /\ hup.at = "release"
    /\ loop = "serving"
    /\ lease' = FALSE
    /\ hup' = [hup EXCEPT !.at = "idle", !.queued = FALSE]
    /\ UNCHANGED <<rtVars, dns, store, otherThanHup>>

HupStep == HupRead \/ HupApply \/ HupConfirm \/ HupCommit \/ HupRelease
===============================================================================
