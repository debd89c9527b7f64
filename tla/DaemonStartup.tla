---------------------------- MODULE DaemonStartup ----------------------------
(***************************************************************************)
(* The startup pipeline of daemon_core.cpp: routing on the loop, lists on  *)
(* blocking_executor_, firewall on the loop, the resolver hook and its     *)
(* verification on executors, completion on the loop.  A step that runs on *)
(* an executor ends by posting the next one, which is dropped when the     *)
(* daemon no longer accepts posted tasks.                                  *)
(***************************************************************************)
EXTENDS DaemonRuntime

(* boot.at: the step that is running on an executor, or the posted task.   *)
BootStates == {"begin", "lists", "afterLists", "listsFailed", "hook", "afterHook",
               "hookFailed", "verify", "afterVerify", "verifyFailed",
               "done", "failed", "dropped"}

(* Startup has neither completed nor reported a failure.                   *)
Booting == boot.at \notin {"done", "failed", "dropped"}

(* Mutant: a worker waits until its task is accepted.                      *)
PostedWaiting(at) == Accepting /\ boot' = [boot EXCEPT !.at = at]

Posted(at) == boot' = [boot EXCEPT !.at = IF Accepting THEN at ELSE "dropped"]
BootMoves(at) == boot' = [boot EXCEPT !.at = at]

otherThanBoot == <<store, draft, disk, loop, op, hup, lease, switching, left, env>>

(* fail_startup_runtime()                                                  *)
FailStartup == MarkBroken /\ BootMoves("failed")

(* begin_startup_runtime()                                                 *)
BeginStartup ==
    /\ loop = "serving"
    /\ boot.at = "begin"
    /\ \/ /\ routes' = live
          /\ BootMoves("lists")
          /\ UNCHANGED <<phase, active, live, fw, expected, actual, probe, timers, tests>>
       \/ "routing" \in Faults /\ FailStartup
    /\ UNCHANGED <<dns, otherThanBoot>>

(* The worker of begin_startup_runtime(): download_uncached().  A list     *)
(* that cannot be fetched is reported; only an exception ends startup.     *)
BootLists ==
    /\ boot.at = "lists"
    /\ Posted("afterLists") \/ ("prepare" \in Faults /\ Posted("listsFailed"))
    /\ UNCHANGED <<rtVars, dns, otherThanBoot>>

(* continue_startup_after_lists()                                          *)
ContinueStartup ==
    /\ loop = "serving"
    /\ \/ /\ boot.at = "afterLists"
          /\ fw' = live
          /\ expected' = Hash[live]
          /\ BootMoves("hook")
          /\ UNCHANGED <<phase, active, live, routes, actual, probe, timers, tests>>
       \/ /\ boot.at = "afterLists"
          /\ "firewall" \in Faults
          /\ fw' \in {fw, live, NoCfg}
          /\ phase' = Moved(phase, "broken")
          /\ BootMoves("failed")
          /\ UNCHANGED <<active, live, routes, expected, actual, probe, timers, tests>>
       \/ boot.at = "listsFailed" /\ FailStartup
    /\ UNCHANGED <<dns, otherThanBoot>>

(* The worker of continue_startup_after_lists().                           *)
BootHook ==
    /\ boot.at = "hook"
    /\ (ReloadOk /\ Posted("afterHook")) \/ (ReloadFailed /\ Posted("hookFailed"))
    /\ UNCHANGED <<phase, active, live, routes, fw, actual, probe, timers, tests,
                   otherThanBoot>>

(* finish_startup_after_resolver_hook(): the interface monitor is          *)
(* registered here and nowhere else.                                       *)
FinishStartup ==
    /\ loop = "serving"
    /\ \/ /\ boot.at = "afterHook"
          /\ expected' = Hash[live]
          /\ boot' = [at |-> "verify", expect |-> Hash[live], monitor |-> TRUE]
          /\ UNCHANGED <<phase, active, live, routes, fw, actual, probe, timers, tests>>
       \/ boot.at = "hookFailed" /\ FailStartup
    /\ UNCHANGED <<dns, otherThanBoot>>

(* The worker of finish_startup_after_resolver_hook().                     *)
BootVerify ==
    /\ boot.at = "verify"
    /\ \/ Confirmed(boot.expect) /\ Posted("afterVerify")
       \/ Unconfirmed(boot.expect) /\ Posted("verifyFailed")
    /\ UNCHANGED <<rtVars, dns, otherThanBoot>>

(* The task posted after verification.  When the state machine refuses     *)
(* "running", what complete_running_runtime() scheduled stays scheduled.   *)
CompleteStartup ==
    /\ loop = "serving"
    /\ \/ boot.at = "afterVerify" /\ CompleteOk /\ CompleteRunning({"hash"}) /\ BootMoves("done")
       \/ /\ boot.at = "afterVerify"
          /\ ~CompleteOk
          /\ tests' = TRUE
          /\ ProbeResolver
          /\ phase' = Moved(phase, "broken")
          /\ BootMoves("failed")
          /\ UNCHANGED <<active, live, routes, fw, expected, timers>>
       \/ boot.at = "verifyFailed" /\ FailStartup
    /\ UNCHANGED <<dns, otherThanBoot>>

StartupStep ==
    \/ BeginStartup
    \/ BootLists
    \/ ContinueStartup
    \/ BootHook
    \/ FinishStartup
    \/ BootVerify
    \/ CompleteStartup
===============================================================================
