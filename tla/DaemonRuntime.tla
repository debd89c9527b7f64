---------------------------- MODULE DaemonRuntime ----------------------------
(***************************************************************************)
(* The state of the daemon and the procedures of daemon_runtime.cpp that   *)
(* its actors call.  The actors are modules of their own: DaemonStartup,   *)
(* DaemonLifecycle, DaemonSighup and DaemonEvents; Daemon composes them.   *)
(*                                                                         *)
(* One thread, the event loop, owns the runtime: a control task is one     *)
(* action.  Everything that runs on an executor (downloads, hooks, TXT     *)
(* queries, file writes) is an action of its own, so that the loop may do  *)
(* anything between two of them.  A control task of an actor waits in      *)
(* control_tasks_ while the actor's "queued" is TRUE.  An actor has at     *)
(* most one task there, so the queue needs no order of its own.            *)
(*                                                                         *)
(* Every configuration has dns.system_resolver: validate_config refuses    *)
(* one that has not, and the daemon holds only validated configurations.   *)
(* It is an opaque value with the hash that its dnsmasq configuration has. *)
(***************************************************************************)
EXTENDS RuntimeState, Naturals

CONSTANTS
    Configs,    \* valid configurations
    NoCfg,      \* no configuration: nothing staged, or nothing in the kernel
    Hash,       \* configuration -> the hash of the dnsmasq configuration
    Hashes,     \* the values of Hash
    NoHash,     \* no hash: dnsmasq serves the fallback, or nothing is known
    BootConfig, \* the configuration file the process was started with
    Environments    \* what the daemon may meet: see env

FaultPoints == {"prepare", "routing", "firewall", "hook", "verify", "write"}
OpKinds == {"apply", "start", "stop", "restart"}
EventKinds == {"HUP", "USR1", "TERM", "interface", "urltest"}

ASSUME DaemonAssumption ==
    /\ NoCfg \notin Configs
    /\ NoHash \notin Hashes
    /\ Hash \in [Configs -> Hashes]
    /\ BootConfig \in Configs
    /\ Environments \subseteq [requests : SUBSET OpKinds, signals : SUBSET EventKinds,
                               early : BOOLEAN, faults : SUBSET FaultPoints, events : Nat]

VARIABLES
    env,        \* the environment of this behaviour
    phase,      \* runtime_state_machine_
    active,     \* routing_runtime_active_
    live,       \* config_, owned by the event loop
    store,      \* config_store_: the active configuration readers see
    draft,      \* config_store_: the staged configuration
    disk,       \* the configuration file
    routes,     \* the configuration whose routes and rules the kernel holds
    fw,         \* the configuration whose firewall the kernel holds
    dns,        \* the hash dnsmasq serves
    expected,   \* resolver_generation_snapshot_ and resolver_sync_'s expected hash
    actual,     \* resolver_sync_: the hash the last probe saw, if it is healthy
    probe,      \* the TXT probe that is out: where it is, whether its
                \* generation is runtime_generation_, the hash it saw
    timers,     \* the timers that are scheduled
    tests,      \* the urltest manager has outbounds registered
    loop,       \* where run() is
    boot,       \* where the startup pipeline is
    op,         \* the lifecycle operation and the worker that executes it
    hup,        \* the SIGHUP transaction and the worker that executes it
    lease,      \* operation_coordinator_
    switching,  \* a urltest selection change is posted
    left        \* events from outside that may still happen

rtVars == <<phase, active, live, routes, fw, expected, actual, probe, timers, tests>>
vars == <<env, rtVars, store, draft, disk, dns, loop, boot, op, hup, lease, switching, left>>

-------------------------------------------------------------------------------
Requests  == env.requests   \* the lifecycle operations users ask for
Signals   == env.signals    \* the signals and kernel events that arrive
Early     == env.early      \* users do not wait for startup to end
Faults    == env.faults     \* the steps that may fail
MaxEvents == env.events     \* bound: how many events reach the daemon

-------------------------------------------------------------------------------
(* run(): "serving" is run_event_loop(), "leaving" the statement after it, *)
(* "unwinding" the destructor after an exception left run().               *)
LoopStates == {"serving", "leaving", "deactivating", "joinLifecycle", "joinRest",
               "cleanup", "done", "unwinding"}

(* event_loop_active_: a control task is queued rather than run inline.    *)
LoopActive == loop \in {"serving", "leaving", "deactivating", "unwinding"}

(* accept_posted_control_tasks_                                            *)
Accepting == loop \in {"serving", "leaving", "deactivating"}

(* A control task of a worker runs on the loop that finds it queued, or on *)
(* the worker itself when the loop was inactive as it was handed over.     *)
Runs(worker) == IF worker.queued THEN loop = "serving" ELSE ~LoopActive

-------------------------------------------------------------------------------
(* What reconcile_static_routing() and then apply_firewall() for c leave   *)
(* in the kernel.  Either may throw part of the way through.               *)
KernelResults(c) ==
    {[routes |-> c, fw |-> c, ok |-> TRUE]}
    \cup {[routes |-> r, fw |-> fw, ok |-> FALSE] :
            r \in IF "routing" \in Faults THEN {routes, c} ELSE {}}
    \cup {[routes |-> c, fw |-> f, ok |-> FALSE] :
            f \in IF "firewall" \in Faults THEN {fw, c, NoCfg} ELSE {}}

(* The probe asks on resolver_io_executor_, its answer is then posted.     *)
ProbeStates == {"none", "asking", "answered"}
NoProbe == [at |-> "none", fresh |-> FALSE, seen |-> NoHash]
NewProbe == [at |-> "asking", fresh |-> TRUE, seen |-> NoHash]

(* runtime_generation_ moves on under a probe that is still out.           *)
Outdated(p) == [p EXCEPT !.fresh = FALSE]

(* refresh_resolver_config_hash_actual_async()                             *)
ProbeResolver ==
    IF active
    THEN /\ probe' = IF probe.at = "none" THEN NewProbe ELSE probe
         /\ actual' = actual
    ELSE /\ probe' = probe
         /\ actual' = NoHash

(* reconcile_prepared_runtime(): the candidate becomes config_ before the  *)
(* kernel is touched, and the state machine is asked last.                 *)
ReconcileOk(k) == k.ok /\ MayMove(phase, "applying")
ReconcilePrepared(c, k) ==
    /\ live' = c
    /\ routes' = k.routes
    /\ fw' = k.fw
    /\ active' = (active \/ k.ok)
    /\ phase' = IF k.ok THEN Moved(phase, "applying") ELSE phase
    /\ expected' = IF ReconcileOk(k) THEN Hash[c] ELSE expected
    /\ probe' = Outdated(probe)
    /\ timers' = timers \ {"hash", "retry"}
    /\ tests' = FALSE
    /\ actual' = actual

(* teardown_routing_and_firewall(explicit_stop).  adopt_desired() leaves   *)
(* policy_rules_ and route_table_ owning nothing, so their clear() deletes *)
(* nothing from the kernel.                                                *)
TeardownTarget(explicit) == IF explicit THEN "stopped" ELSE "applying"
TeardownOk(explicit) == active => MayMove(phase, TeardownTarget(explicit))
Teardown(explicit) ==
    IF active
    THEN /\ active' = FALSE
         /\ fw' = NoCfg
         /\ phase' = Moved(phase, TeardownTarget(explicit))
         /\ probe' = Outdated(probe)
         /\ tests' = FALSE
         /\ UNCHANGED <<live, routes, expected, actual, timers>>
    ELSE UNCHANGED rtVars

(* setup_routing_and_firewall(); nothing happens when the runtime counts   *)
(* as active already.                                                      *)
SetupOk(k) == active \/ (k.ok /\ (phase = "applying" \/ MayMove(phase, "applying")))
Setup(k) ==
    IF active
    THEN UNCHANGED rtVars
    ELSE /\ routes' = k.routes
         /\ fw' = k.fw
         /\ active' = k.ok
         /\ phase' = IF k.ok THEN Moved(phase, "applying") ELSE phase
         /\ expected' = IF SetupOk(k) THEN Hash[live] ELSE expected
         /\ probe' = Outdated(probe)
         /\ UNCHANGED <<live, actual, timers, tests>>

(* complete_running_runtime(): everything is scheduled before the state    *)
(* machine is asked.                                                       *)
CompleteOk == MayMove(phase, "running")
CompleteRunning(newTimers) ==
    /\ tests' = TRUE
    /\ ProbeResolver
    /\ phase' = Moved(phase, "running")
    /\ timers' = timers \cup newTimers
    /\ UNCHANGED <<active, live, routes, fw, expected>>

(* refresh_iproute_and_firewall_runtime(), and the body of a urltest       *)
(* selection change: put config_ into the kernel again, log a failure.     *)
RefreshKernel(k) ==
    /\ routes' = k.routes
    /\ fw' = k.fw
    /\ UNCHANGED <<phase, active, live, expected, actual, probe, timers, tests>>

-------------------------------------------------------------------------------
(* dnsmasq asks for its configuration over the control socket.  It gets    *)
(* the fallback when nobody answers, and when a runtime that is stopped or *)
(* shutting down answers with an error.                                    *)
Served ==
    IF loop = "serving" /\ phase \notin {"stopped", "shutting_down"} THEN expected ELSE NoHash

(* run_system_resolver_hook_reload() off the loop: the hook succeeds and a *)
(* stream completed after it began; then the hash is computed again.       *)
ReloadOk ==
    /\ Served # NoHash
    /\ dns' = Served
    /\ expected' = Hash[live]

(* The hook fails, or dnsmasq does not ask in time or gets no stream.      *)
ReloadFailed ==
    /\ "hook" \in Faults \/ Served = NoHash
    /\ dns' \in {dns, Served}
    /\ expected' = expected

(* run_system_resolver_hook("deactivate") succeeds or fails                *)
Deactivated == dns' = NoHash
DeactivateFailed == "hook" \in Faults /\ dns' \in {dns, NoHash}

(* wait_for_resolver_config_hash_confirmation() for a hash.  It also wants *)
(* a record no older than apply_started_ts_, in seconds: a record that was *)
(* there before may pass or not, the latter being a "verify" fault.        *)
Confirmed(h) == dns = h
Unconfirmed(h) == "verify" \in Faults \/ dns # h

-------------------------------------------------------------------------------
(* broken, unless the state machine refuses: the failure paths ignore it   *)
MarkBroken ==
    /\ phase' = Moved(phase, "broken")
    /\ UNCHANGED <<active, live, routes, fw, expected, actual, probe, timers, tests>>

(* Something from outside reaches the daemon.                              *)
Event == left > 0 /\ left' = left - 1 /\ env' = env
===============================================================================
