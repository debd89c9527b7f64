--------------------------- MODULE ResolverReload ---------------------------
(***************************************************************************)
(* Getting a configuration into dnsmasq.  A lifecycle operation or the     *)
(* Keenetic timer updates the expected hash and runs the resolver hook     *)
(* (ChildProcess); the hook restarts dnsmasq; dnsmasq runs "keen-pbr       *)
(* generate-resolver-config", which asks the daemon over the control       *)
(* socket; the daemon streams the generated configuration; the operation   *)
(* waits for a completed stream and then for dnsmasq's TXT record.  The    *)
(* loop serves the control socket while it waits for a hook of its own.    *)
(***************************************************************************)
EXTENDS ResolverSync, ChildProcess

CONSTANTS
    MaxOps,         \* lifecycle operations
    MaxFaults       \* outside events: restarts, a death, timeouts, failures, new lists or DNS

ASSUME BoundsAssumption == MaxOps \in Nat /\ MaxFaults \in Nat

VARIABLES
    alive,      \* the daemon's process exists
    phase,      \* the runtime state as far as the control socket looks at it
    op,         \* the lifecycle operation
    loop,       \* the event loop: free, in the Keenetic task's reload, or in the shutdown
    worker,     \* what the one worker of resolver_hook_executor_ runs
    since,      \* for whom resolver_stream_completed_ has passed the baseline
    helper,     \* dnsmasq's conf-script, "keen-pbr generate-resolver-config"
    stream,     \* the job of resolver_stream_executor_ that serves it
    service,    \* the hook: its state file, if it keeps one, and the restart it ordered
    budget      \* bounds: operations, outside events and commands that may still come

control == <<alive, phase, op, loop, worker, since>>
outside == <<helper, stream, service>>
vars == <<knowledge, dnsmasq, child, control, outside, budget>>

NoOp == [at |-> "idle", kind |-> "apply", conf |-> None, expect |-> NoHash, ok |-> FALSE,
         skipped |-> FALSE]
NoHelper == [at |-> "none", out |-> 0, has |-> NoHash, ts |-> None, calm |-> FALSE,
             refused |-> FALSE]
NoStream == [at |-> "none", conf |-> None, lists |-> 0, keen |-> 0, peer |-> FALSE]

Fault == budget.faults > 0 /\ budget' = [budget EXCEPT !.faults = @ - 1]
OpMoves(a) == op' = [op EXCEPT !.at = a]
OpFails == op' = [op EXCEPT !.at = "markBroken", !.ok = FALSE]

(* A new apply_started_ts_ also ages a record that dnsmasq has yet to load *)
Applies(c, k, p) ==
    \E same \in BOOLEAN :
        /\ StartApply(c, k, p, same)
        /\ helper' = [helper EXCEPT !.ts = Aged(@, same)]
        /\ IF same THEN Fault ELSE UNCHANGED budget

-----------------------------------------------------------------------------
(* Lifecycle operations, on lifecycle_executor_ and, for control tasks, on *)
(* the loop                                                                *)
OpSubmit ==
    /\ op.at = "idle" /\ alive /\ phase # "shutting_down" /\ budget.ops > 0
    /\ \/ \E c \in Confs : op' = [NoOp EXCEPT !.at = "reconcile", !.ok = TRUE, !.conf = c]
       \/ op' = [NoOp EXCEPT !.at = "teardown", !.ok = TRUE, !.conf = config, !.kind = "stop"]
       \/ op' = [NoOp EXCEPT !.at = "setup", !.ok = TRUE, !.conf = config, !.kind = "start"]
    /\ budget' = [budget EXCEPT !.ops = @ - 1]
    /\ UNCHANGED <<knowledge, dnsmasq, child, alive, phase, loop, worker, since, outside>>

(* reconcile_prepared_runtime(); when the kernel refuses, the hash and the *)
(* generation snapshot stay those of the old configuration.                *)
OpReconcile ==
    /\ op.at = "reconcile" /\ loop = "free"
    /\ config' = op.conf /\ timers' = {}
    /\ \E k \in Versions :
         /\ RefreshKeenetic(k)
         /\ \/ /\ Applies(op.conf, k, Outdated)
               /\ active' = TRUE /\ phase' = "serving"
               /\ OpMoves("decide")
            \/ /\ probe' = Outdated /\ OpFails /\ Fault
               /\ UNCHANGED <<generation, sync, active, dnsmasq, phase, helper>>
    /\ UNCHANGED <<lists, rci, child, alive, loop, worker, since, stream, service>>

(* Whether dnsmasq is left alone is read off the loop.                     *)
OpDecide ==
    /\ op.at = "decide"
    /\ op' = [op EXCEPT !.at = IF ResolverIsCurrent THEN "finalize" ELSE "reload",
                        !.skipped = ResolverIsCurrent, !.expect = sync.expected]
    /\ UNCHANGED <<knowledge, dnsmasq, child, alive, phase, loop, worker, since, outside, budget>>

OpTeardown ==
    /\ op.at = "teardown" /\ loop = "free"
    /\ IF active
       THEN /\ active' = FALSE /\ probe' = Outdated /\ timers' = timers \ {"keenetic"}
            /\ phase' = "stopped" /\ helper' = [helper EXCEPT !.calm = FALSE]
       ELSE UNCHANGED <<active, probe, timers, phase, helper>>
    /\ OpMoves("fallback")
    /\ UNCHANGED <<config, lists, keen, rci, generation, sync, dnsmasq, child, alive, loop,
                   worker, since, stream, service, budget>>

OpSetup ==
    /\ op.at = "setup" /\ loop = "free"
    /\ IF active
       THEN /\ OpMoves("reload")
            /\ UNCHANGED <<keen, generation, sync, probe, active, dnsmasq, phase, helper, budget>>
       ELSE \E k \in Versions :
              /\ RefreshKeenetic(k)
              /\ \/ /\ Applies(config, k, Outdated)
                    /\ active' = TRUE /\ phase' = "serving"
                    /\ OpMoves("reload")
                 \/ /\ probe' = Outdated /\ OpFails /\ Fault
                    /\ UNCHANGED <<generation, sync, active, dnsmasq, phase, helper>>
    /\ UNCHANGED <<config, lists, rci, timers, child, alive, loop, worker, since, stream,
                   service>>

(* The confirmation, on resolver_io_executor_ behind a probe that is out,  *)
(* asks until it matches or its time is over.                              *)
OpVerify ==
    /\ op.at = "verify"
    /\ \/ ConfirmationMatches(IF op.kind = "apply" THEN op.expect ELSE sync.expected)
          /\ OpMoves("finalize") /\ UNCHANGED budget
       \/ OpFails /\ (IF ConfirmationMatches(op.expect) THEN Fault ELSE UNCHANGED budget)
    /\ UNCHANGED <<knowledge, dnsmasq, child, alive, phase, loop, worker, since, outside>>

(* complete_running_runtime()                                              *)
OpFinalize ==
    /\ op.at = "finalize" /\ loop = "free"
    /\ timers' = timers \cup {"keenetic"}
    /\ ProbeAsync(active, probe, sync)
    /\ phase' = "serving"
    /\ OpMoves("finish")
    /\ UNCHANGED <<config, lists, keen, rci, generation, active, dnsmasq, child, alive, loop,
                   worker, since, outside, budget>>

OpMarkBroken ==
    /\ op.at = "markBroken" /\ loop = "free"
    /\ phase' = "serving"
    /\ OpMoves("finish")
    /\ UNCHANGED <<knowledge, dnsmasq, child, alive, loop, worker, since, outside, budget>>

OpFinish ==
    /\ op.at = "finish"
    /\ op' = NoOp
    /\ UNCHANGED <<knowledge, dnsmasq, child, alive, phase, loop, worker, since, outside, budget>>

-----------------------------------------------------------------------------
(* The hook: run_system_resolver_hook() on the worker.  The call itself is *)
(* the "exec" of ChildProcess: it returns, with zero only if the script    *)
(* came to its end.                                                        *)
HookBegins ==
    /\ worker = "idle" /\ alive
    /\ \/ op.at = "reload" /\ worker' = "reload" /\ since' = [since EXCEPT !.op = FALSE]
       \/ op.at = "fallback" /\ worker' = "fallback" /\ UNCHANGED since
       \/ loop = "hook" /\ worker' = "loop" /\ UNCHANGED since
       \/ loop = "closing" /\ worker' = "shutdown" /\ UNCHANGED since
    /\ UNCHANGED <<knowledge, dnsmasq, child, alive, phase, op, loop, outside, budget>>

Hooks == {"reload", "fallback", "loop", "shutdown"}

(* What dnsmasq's conf-script gets when it starts.  connect_control_socket *)
(* fails without a daemon, and, refused, when socket() or connect() fails  *)
(* beside a daemon that runs.  With a state file, a deactivated resolver   *)
(* has a static file in place of the conf-script.                          *)
Connects(refused) ==
    CASE ~service.managed -> "static"
      [] service.managed /\ alive /\ ~refused -> "asking"
      [] OTHER -> "daemon_unavailable"

(* The script of the Debian package notes whether dnsmasq is managed; for  *)
(* those of OpenWrt and Keenetic every action is a restart.  The restart   *)
(* may come after the script has returned, and it kills a conf-script that *)
(* is still running.                                                       *)
Manages == ~service.file \/ worker \in {"reload", "loop"}
Ordered == service.order # "none" /\ service.managed = Manages
HookOrders ==
    /\ worker \in Hooks /\ ~Ordered
    /\ service' = [service EXCEPT !.managed = Manages, !.order = "placed"]
    /\ UNCHANGED <<knowledge, dnsmasq, child, control, helper, stream, budget>>

(* The runtime states in which the daemon sends dnsmasq to the fallback    *)
Ended == {"stopped", "shutting_down"}
Restart(refused) ==
    /\ dnsmasq' = [at |-> "loading", has |-> NoHash, txt |-> FALSE, ts |-> None, refused |-> FALSE]
    /\ helper' = [NoHelper EXCEPT !.at = Connects(refused), !.refused = refused,
                                  !.calm = alive /\ phase \notin Ended]
    /\ stream' = [stream EXCEPT !.peer = FALSE]

OrderedRestart ==
    /\ service.order = "placed"
    /\ service' = [service EXCEPT !.order = IF worker \in Hooks THEN "done" ELSE "none"]
    /\ \/ Restart(FALSE) /\ UNCHANGED budget
       \/ Restart(TRUE) /\ Fault
    /\ UNCHANGED <<knowledge, child, control>>
SystemRestart ==
    /\ Fault
    /\ Restart(FALSE)
    /\ UNCHANGED <<knowledge, child, control, service>>

HookReturns(ok) ==
    /\ worker \in Hooks
    /\ IF ok THEN Ordered /\ UNCHANGED budget ELSE Fault
    /\ worker' = IF ok /\ worker = "reload" THEN "await" ELSE "idle"
    /\ op' = CASE worker = "fallback" /\ ok -> [op EXCEPT !.at = "finish"]
               [] worker \in {"reload", "fallback"} /\ ~ok ->
                    [op EXCEPT !.at = "markBroken", !.ok = FALSE]
               [] OTHER -> op
    /\ loop' = CASE worker = "loop" /\ ok -> "await"
                 [] worker = "loop" /\ ~ok -> "after"
                 [] worker = "shutdown" -> "drain"
                 [] OTHER -> loop
    /\ service' = [service EXCEPT !.order = IF @ = "done" THEN "none" ELSE @]
    /\ UNCHANGED <<knowledge, dnsmasq, child, alive, phase, since, helper, stream>>

(* wait_for_resolver_stream_after(): a stream that completed since the     *)
(* baseline, whoever asked for it, or five seconds; then the hash is       *)
(* computed again, on the worker's thread for an operation.                *)
OpAwaits ==
    /\ worker = "await"
    /\ worker' = "idle"
    /\ IF since.op THEN UpdateHash(config, keen, sync) /\ OpMoves("verify")
       ELSE OpFails /\ UNCHANGED <<generation, sync>>
    /\ since' = [since EXCEPT !.op = FALSE]
    /\ UNCHANGED <<config, lists, keen, rci, probe, timers, active, dnsmasq, child, alive,
                   phase, loop, outside, budget>>

(* The Keenetic timer's task: a changed DNS proxy is a new apply, and the  *)
(* reload is run from the loop.                                            *)
KeeneticTask ==
    /\ loop = "free" /\ "keenetic" \in timers
    /\ active
    /\ \E k \in Versions :
         /\ RefreshKeenetic(k) /\ k # keen
         /\ Applies(config, k, probe)
    /\ loop' = "hook" /\ since' = [since EXCEPT !.loop = FALSE]
    /\ UNCHANGED <<config, lists, rci, timers, active, child, alive, phase, op, worker, stream,
                   service>>
LoopAwaits ==
    /\ loop = "await"
    /\ loop' = "after"
    /\ IF since.loop THEN UpdateHash(config, keen, sync) ELSE UNCHANGED <<generation, sync>>
    /\ since' = [since EXCEPT !.loop = FALSE]
    /\ UNCHANGED <<config, lists, keen, rci, probe, timers, active, dnsmasq, child, alive,
                   phase, op, worker, outside, budget>>
LoopResumes ==
    /\ loop = "after"
    /\ loop' = "free"
    /\ ProbeAsync(active, probe, sync)
    /\ UNCHANGED <<config, lists, keen, rci, generation, timers, active, dnsmasq, child, alive, phase,
                   op, worker, since, outside, budget>>

-----------------------------------------------------------------------------
(* dnsmasq, its conf-script and the control socket                         *)

(* handle_ipc_control_socket(): the loop is at its socket when it is free  *)
(* and while it waits for its own hook; the snapshot is captured here.     *)
DaemonAccepts ==
    /\ alive /\ loop # "after"
    /\ helper.at = "asking" /\ stream.at = "none"
    /\ IF phase \in Ended
       THEN /\ helper' = [helper EXCEPT !.at = IF phase = "stopped" THEN "runtime_stopped"
                                               ELSE "runtime_shutting_down"]
            /\ UNCHANGED stream
       ELSE /\ stream' = [NoStream EXCEPT !.at = "queued", !.conf = generation, !.peer = TRUE]
            /\ helper' = [helper EXCEPT !.at = "reading"]
    /\ UNCHANGED <<knowledge, dnsmasq, child, control, service, budget>>

(* The stream's job: the header and the directives of the servers and      *)
(* lists as they are now, then the TXT records and the end frame.  A       *)
(* reader that left makes send_all() throw, and the stream does not count. *)
StreamSends ==
    /\ stream.at \in {"queued", "sending"}
    /\ IF ~stream.peer
       THEN stream' = NoStream /\ UNCHANGED <<helper, since>>
       ELSE IF stream.at = "queued"
       THEN /\ stream' = [stream EXCEPT !.at = "sending", !.keen = keen, !.lists = lists]
            /\ helper' = [helper EXCEPT !.out = 1]
            /\ UNCHANGED since
       ELSE /\ stream' = NoStream
            /\ since' = [op |-> worker \in {"reload", "await"}, loop |-> loop # "free"]
            /\ helper' = [helper EXCEPT !.at = "got", !.out = 2, !.ts = "new",
                             !.has = Digest(stream.conf, stream.lists, stream.keen)]
    /\ UNCHANGED <<knowledge, dnsmasq, child, alive, phase, op, loop, worker, service, budget>>

(* The idle timeout, or the end of the daemon's process                    *)
HelperLosesDaemon ==
    /\ helper.at \in {"asking", "reading"}
    /\ helper' = [helper EXCEPT !.at = "timeout"]
    /\ stream' = [stream EXCEPT !.peer = FALSE]
    /\ IF alive THEN Fault ELSE UNCHANGED budget
    /\ UNCHANGED <<knowledge, dnsmasq, child, control, service>>

(* Mutant: any error of the stream that came before active bytes is a      *)
(* reason to fall back.                                                    *)
FallbackReasonsAll == {"runtime_stopped", "runtime_shutting_down", "daemon_unavailable", "timeout"}

(* resolver_fallback_reason()                                              *)
FallbackReasons == {"runtime_stopped", "runtime_shutting_down", "daemon_unavailable"}

HelperErrors == {"runtime_stopped", "runtime_shutting_down", "daemon_unavailable", "timeout"}
FallsBack == helper.at \in FallbackReasons /\ helper.out = 0

(* emit_resolver_fallback(), unless the fallback file cannot be read       *)
HelperEnds ==
    /\ helper.at \in HelperErrors
    /\ \/ /\ FallsBack
          /\ helper' = [helper EXCEPT !.at = "fallback", !.ts = "new",
                                      !.has = Digest("fallback", 0, 0)]
          /\ UNCHANGED budget
       \/ /\ helper' = [helper EXCEPT !.at = "error"]
          /\ IF FallsBack THEN Fault ELSE UNCHANGED budget
    /\ UNCHANGED <<knowledge, dnsmasq, child, control, stream, service>>

(* dnsmasq starts with what its conf-script wrote, or not at all           *)
DnsmasqLoads ==
    /\ helper.at \in {"got", "fallback", "static", "error"}
    /\ dnsmasq' = [at |-> IF helper.at = "error" THEN "down" ELSE "up", has |-> helper.has,
                   txt |-> helper.at # "static", ts |-> helper.ts, refused |-> helper.refused]
    /\ helper' = NoHelper
    /\ UNCHANGED <<knowledge, child, control, stream, service, budget>>

(* The end of Daemon::run(): the loop stops for a signal, deactivates the  *)
(* resolver, serves the control socket for another second and is gone.     *)
(* Operations that are submitted meanwhile are those of DaemonLifecycle.   *)
ShutsDown ==
    /\ alive /\ loop = "free" /\ Fault
    /\ loop' = "closing" /\ phase' = "shutting_down"
    /\ helper' = [helper EXCEPT !.calm = FALSE]
    /\ UNCHANGED <<knowledge, dnsmasq, child, alive, op, worker, since, stream, service>>

(* What ends with the process.                                             *)
Gone ==
    /\ alive' = FALSE
    /\ op' = NoOp /\ loop' = "free" /\ worker' = "idle" /\ child' = NoChild
    /\ probe' = NoProbe /\ timers' = {} /\ stream' = NoStream
    /\ since' = [op |-> FALSE, loop |-> FALSE]
    /\ helper' = [helper EXCEPT !.calm = FALSE]
    /\ UNCHANGED <<config, lists, keen, rci, generation, sync, active, dnsmasq, phase, service>>
ProcessEnds == alive /\ loop = "drain" /\ Gone /\ UNCHANGED budget
DaemonDies == alive /\ Fault /\ Gone

(* Other callers of safe_exec_pipe_stdin() and safe_exec_capture()         *)
CommandBegins ==
    /\ budget.commands > 0
    /\ budget' = [budget EXCEPT !.commands = @ - 1]
    /\ \E k \in Kinds : Spawn(k) \/ SpawnFails(k)
    /\ UNCHANGED <<knowledge, dnsmasq, control, outside>>
CommandReturns ==
    /\ child.at = "returned"
    /\ child' = NoChild
    /\ UNCHANGED <<knowledge, dnsmasq, control, outside, budget>>

-----------------------------------------------------------------------------
OpStep == OpReconcile \/ OpDecide \/ OpTeardown \/ OpSetup \/ OpVerify \/ OpFinalize
          \/ OpMarkBroken \/ OpFinish
HookStep == HookBegins \/ HookOrders \/ HookReturns(TRUE) \/ HookReturns(FALSE) \/ OpAwaits
LoopStep == LoopAwaits \/ LoopResumes \/ ProcessEnds
DnsmasqStep == OrderedRestart \/ DaemonAccepts \/ StreamSends \/ HelperEnds
               \/ DnsmasqLoads
Calls == (CallStep \/ Deadline \/ CommandStep)
         /\ UNCHANGED <<knowledge, dnsmasq, control, outside, budget>>
Probes ==
    /\ \/ ProbeAsk(TRUE) /\ Fault
       \/ /\ ProbeAsk(FALSE) \/ (loop = "free" /\ (ProbeTimer \/ ProbeCommit))
          /\ UNCHANGED budget
    /\ UNCHANGED <<child, control, outside>>
(* Only a router has a DNS proxy, and its hook keeps no state file.        *)
World ==
    /\ \/ WindowCloses /\ UNCHANGED budget
       \/ ((RciChanges /\ ~service.file) \/ ListsChange) /\ Fault
    /\ UNCHANGED <<child, control, outside>>

Next ==
    \/ OpSubmit \/ OpStep \/ HookStep \/ KeeneticTask \/ LoopStep
    \/ DnsmasqStep \/ HelperLosesDaemon \/ SystemRestart \/ ShutsDown \/ DaemonDies
    \/ CommandBegins \/ CommandReturns \/ Calls \/ Probes \/ World

(* A converged runtime before its first operation, or a command by itself  *)
Init ==
    /\ config = (CHOOSE c \in Confs : TRUE) /\ generation = config /\ lists = 0 /\ keen = 0 /\ rci = 0
    /\ dnsmasq = [at |-> "up", has |-> Digest(config, 0, 0), txt |-> TRUE, ts |-> "new",
                  refused |-> FALSE]
    /\ sync = [on |-> TRUE, expected |-> dnsmasq.has, actual |-> dnsmasq.has, ts |-> "new",
               status |-> "success", recent |-> FALSE]
    /\ probe = NoProbe /\ active = TRUE /\ alive = TRUE /\ phase = "serving"
    /\ op = NoOp /\ loop = "free" /\ worker = "idle" /\ child = NoChild
    /\ since = [op |-> FALSE, loop |-> FALSE]
    /\ helper = NoHelper /\ stream = NoStream
    /\ service \in [managed : {TRUE}, order : {"none"}, file : BOOLEAN]
    /\ \/ /\ timers = {"periodic", "keenetic"}
          /\ budget \in [ops : 0 .. MaxOps, faults : 0 .. MaxFaults, commands : {0}]
       \/ /\ timers = {}
          /\ budget = [ops |-> 0, faults |-> 0, commands |-> 1]

(* Every thread goes on, time passes, and dnsmasq and its conf-script run  *)
(* to the end; a command and the outside world owe nothing.                *)
Fairness ==
    /\ WF_vars(OpStep) /\ WF_vars(HookStep) /\ WF_vars(LoopStep)
    /\ WF_vars(DnsmasqStep) /\ WF_vars(CommandReturns)
    /\ WF_vars(CallStep /\ UNCHANGED <<knowledge, dnsmasq, control, outside, budget>>)
    /\ WF_vars(Deadline /\ UNCHANGED <<knowledge, dnsmasq, control, outside, budget>>)
    /\ WF_vars(Probes)

Spec == Init /\ [][Next]_vars /\ Fairness

-----------------------------------------------------------------------------
(* An apply or a start that succeeds left dnsmasq with the operation's     *)
(* configuration, though streams of earlier generations, restarts that     *)
(* nobody asked for and hooks that return early count as completed streams *)
(* (wait_for_resolver_stream_after() and wait_for_resolver_config_hash_    *)
(* confirmation()).  A shutdown, and a later restart whose conf-script     *)
(* cannot connect, take it away again.                                     *)
AppliedServes ==
    /\ op.at \in {"finalize", "finish"} /\ op.ok /\ ~op.skipped /\ op.kind # "stop"
    /\ dnsmasq.at = "up" /\ ~dnsmasq.refused /\ phase # "shutting_down"
    => dnsmasq.has.conf = op.conf

(* dnsmasq gets the fallback configuration only when the runtime was       *)
(* stopped or shutting down, or the daemon's process gone, at some time    *)
(* since the conf-script began (not calm), or when the conf-script could   *)
(* not connect to the daemon's socket; and never behind a part of the      *)
(* managed one: "Fallback is a lifecycle decision, not a generic IPC error *)
(* handler" (main.cpp).                                                    *)
FallbackIsALifecycleDecision ==
    helper.at = "fallback" => (helper.calm => helper.refused) /\ helper.out = 0

(* Every lifecycle operation, every reload that the loop waits for and     *)
(* every external command ends, whatever the hook, dnsmasq and its         *)
(* conf-script do.                                                         *)
ReloadsEnd == []<>(~InCall /\ op.at = "idle" /\ loop = "free")

(* As long as the periodic probe is scheduled, "converged" is not shown    *)
(* for ever of a dnsmasq that serves something else or is gone             *)
(* (resolver_hash_refresh_inflight_ and runtime_generation_ included).     *)
StatusCatchesUp ==
    []<>(("periodic" \in timers /\ active /\ SyncState(sync) = "converged")
           => dnsmasq.at = "up" /\ dnsmasq.has = sync.expected)

(* An apply that skips the reload, "Resolver configuration is unchanged    *)
(* and healthy", leaves a dnsmasq that is up with its configuration.       *)
SkippedServes ==
    (op.at = "finalize" /\ op.skipped /\ dnsmasq.at = "up") => dnsmasq.has.conf = op.conf
=============================================================================
