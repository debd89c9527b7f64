---------------------------- MODULE DaemonEvents ----------------------------
(***************************************************************************)
(* What else reaches the event loop: SIGUSR1 and its debounce timer,       *)
(* interface events, urltest selection changes, the probe of dnsmasq's     *)
(* TXT record, and SIGTERM with the shutdown sequence of run(); and what   *)
(* users do from outside, staging a draft or editing the file.             *)
(***************************************************************************)
EXTENDS DaemonRuntime

otherThanRt == <<store, draft, disk, dns, loop, boot, op, hup, lease>>

(* handle_sigusr1(): (re)start the debounce timer.                         *)
HandleSigusr1 ==
    /\ loop = "serving"
    /\ Event
    /\ timers' = timers \cup {"usr1"}
    /\ UNCHANGED <<phase, active, live, routes, fw, expected, actual, probe, tests,
                   switching, otherThanRt>>

(* The debounce timer fires: put off while the lease is taken (the timer   *)
(* is scheduled again), else refresh.                                      *)
Sigusr1Fires ==
    /\ loop = "serving"
    /\ "usr1" \in timers
    /\ ~lease
    /\ \E k \in KernelResults(live) : routes' = k.routes /\ fw' = k.fw
    /\ timers' = timers \ {"usr1"}
    /\ UNCHANGED <<phase, active, live, expected, actual, probe, tests, switching,
                   left, env, otherThanRt>>

(* handle_interface_event() for an interface that config_ uses             *)
InterfaceEvent ==
    /\ loop = "serving"
    /\ boot.monitor
    /\ Event
    /\ \E k \in KernelResults(live) : RefreshKernel(k)
    /\ UNCHANGED <<switching, otherThanRt>>

(* commit_probe_results() selects another outbound and posts the change.   *)
UrltestSelects ==
    /\ loop = "serving"
    /\ tests
    /\ ~switching
    /\ Event
    /\ switching' = TRUE
    /\ UNCHANGED <<rtVars, otherThanRt>>

(* handle_urltest_selection_change()'s task                                *)
UrltestSwitches ==
    /\ loop = "serving"
    /\ switching
    /\ switching' = FALSE
    /\ \E k \in KernelResults(live) : RefreshKernel(k)
    /\ UNCHANGED <<left, env, otherThanRt>>

-------------------------------------------------------------------------------
(* The periodic and the retry timer of the resolver probe:                 *)
(* maybe_schedule_resolver_config_hash_actual_refresh()                    *)
ProbeTimer ==
    /\ loop = "serving"
    /\ timers \cap {"hash", "retry"} # {}
    /\ timers' = timers \ {"retry"}
    /\ IF probe.at = "none" THEN ProbeResolver ELSE UNCHANGED <<probe, actual>>
    /\ UNCHANGED <<phase, active, live, routes, fw, expected, tests, switching, left,
                   env, otherThanRt>>

(* The query on resolver_io_executor_, which may always fail               *)
ProbeAsk ==
    /\ probe.at = "asking"
    /\ \E h \in {dns, NoHash} : probe' = [probe EXCEPT !.at = "answered", !.seen = h]
    /\ UNCHANGED <<phase, active, live, routes, fw, expected, actual, timers, tests,
                   switching, left, env, otherThanRt>>

(* commit_resolver_hash_probe_result(): an answer of an older generation   *)
(* is dropped.  Another may be asked for while the resolver converges.     *)
ProbeCommit ==
    /\ loop = "serving"
    /\ probe.at = "answered"
    /\ probe' = NoProbe
    /\ actual' = IF probe.fresh THEN probe.seen ELSE actual
    /\ timers' \in {timers} \cup
                   (IF probe.fresh /\ probe.seen # expected THEN {timers \cup {"retry"}} ELSE {})
    /\ UNCHANGED <<phase, active, live, routes, fw, expected, tests, switching, left,
                   env, otherThanRt>>

-------------------------------------------------------------------------------
(* POST /api/config                                                        *)
StageDraft(c) ==
    /\ loop \in {"serving", "leaving", "deactivating"}
    /\ Event
    /\ draft' = c
    /\ UNCHANGED <<rtVars, store, disk, dns, loop, boot, op, hup, lease, switching>>

(* The user edits the file, to send SIGHUP afterwards.                     *)
EditFile(c) ==
    /\ loop = "serving"
    /\ Event
    /\ disk' = c
    /\ UNCHANGED <<rtVars, store, draft, dns, loop, boot, op, hup, lease, switching>>

-------------------------------------------------------------------------------
otherThanLoop == <<store, draft, disk, boot, op, hup, lease, switching>>

(* handle_signal(): SIGTERM or SIGINT ends run_event_loop().               *)
HandleSigterm ==
    /\ loop = "serving"
    /\ Event
    /\ loop' = "leaving"
    /\ UNCHANGED <<rtVars, dns, otherThanLoop>>

(* transition_runtime_or_throw(shutting_down).  It throws when a lifecycle *)
(* operation is applying; ~Daemon() then joins the worker of that          *)
(* operation, whose next control task nobody runs: it never returns.       *)
BeginShutdown ==
    /\ loop = "leaving"
    /\ phase' = Moved(phase, "shutting_down")
    /\ loop' = IF MayMove(phase, "shutting_down") THEN "deactivating" ELSE "unwinding"
    /\ UNCHANGED <<active, live, routes, fw, expected, actual, probe, timers, tests,
                   dns, left, env, otherThanLoop>>

(* The deactivate hook and the drain of late resolver requests; then the   *)
(* loop stops taking control tasks.                                        *)
DeactivateResolver ==
    /\ loop = "deactivating"
    /\ Deactivated \/ DeactivateFailed
    /\ loop' = "joinLifecycle"
    /\ UNCHANGED <<rtVars, left, env, otherThanLoop>>

(* lifecycle_executor_.shutdown()                                          *)
JoinLifecycle ==
    /\ loop = "joinLifecycle"
    /\ op.at = "idle"
    /\ loop' = "joinRest"
    /\ UNCHANGED <<rtVars, dns, left, env, otherThanLoop>>

(* The other executors: every job on them has ended.                       *)
WorkersIdle ==
    /\ boot.at \notin {"lists", "hook", "verify"}
    /\ hup.at \in {"idle", "release", "gone"}
    /\ probe.at # "asking"

(* Mutant: only the lifecycle executor is joined before the cleanup.       *)
JoinRestEarly ==
    /\ loop = "joinRest"
    /\ loop' = "cleanup"
    /\ UNCHANGED <<rtVars, dns, left, env, otherThanLoop>>
JoinRest ==
    /\ loop = "joinRest"
    /\ WorkersIdle
    /\ loop' = "cleanup"
    /\ UNCHANGED <<rtVars, dns, left, env, otherThanLoop>>

(* The rest of run(): urltests and timers go, policy_rules_ and            *)
(* route_table_ delete what they own (nothing), the firewall is removed.   *)
Cleanup ==
    /\ loop = "cleanup"
    /\ tests' = FALSE
    /\ timers' = {}
    /\ fw' = NoCfg
    /\ loop' = "done"
    /\ UNCHANGED <<phase, active, live, routes, expected, actual, probe, dns, left,
                   env, otherThanLoop>>

ShutdownStep ==
    \/ BeginShutdown
    \/ DeactivateResolver
    \/ JoinLifecycle
    \/ JoinRest
    \/ Cleanup
===============================================================================
