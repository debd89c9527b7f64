------------------------------- MODULE Daemon -------------------------------
(***************************************************************************)
(* The daemon: its event loop, the actors that hand work to it and what    *)
(* reaches it from outside.  A behaviour has one environment; with         *)
(* env.early, requests and SIGHUP may arrive while startup runs, which     *)
(* neither submit_lifecycle_operation() nor handle_sighup() prevents.      *)
(***************************************************************************)
EXTENDS DaemonStartup, DaemonLifecycle, DaemonSighup, DaemonEvents

Init ==
    /\ env \in Environments
    /\ phase = "starting"
    /\ active = TRUE
    /\ live = BootConfig
    /\ store = BootConfig
    /\ draft = NoCfg
    /\ disk = BootConfig
    /\ routes = NoCfg
    /\ fw = NoCfg
    /\ dns = NoHash
    /\ expected = NoHash
    /\ actual = NoHash
    /\ probe = NoProbe
    /\ timers = {}
    /\ tests = FALSE
    /\ loop = "serving"
    /\ boot = [at |-> "begin", expect |-> NoHash, monitor |-> FALSE]
    /\ op = [kind |-> "stop", at |-> "idle", ok |-> TRUE, queued |-> FALSE,
             cfg |-> NoCfg, expect |-> NoHash]
    /\ hup = [at |-> "idle", queued |-> FALSE, cfg |-> NoCfg, expect |-> NoHash,
              confirmed |-> FALSE, ok |-> FALSE]
    /\ lease = FALSE
    /\ switching = FALSE
    /\ left = MaxEvents

UserStep ==
    \/ \E kind \in Requests : (Early \/ ~Booting) /\ Submit(kind)
    \/ \E c \in Configs : "apply" \in Requests /\ StageDraft(c)
    \/ \E c \in Configs : "HUP" \in Signals /\ EditFile(c)

SignalStep ==
    \/ "HUP" \in Signals /\ (Early \/ ~Booting) /\ HandleSighup
    \/ "USR1" \in Signals /\ HandleSigusr1
    \/ "TERM" \in Signals /\ HandleSigterm
    \/ "interface" \in Signals /\ InterfaceEvent
    \/ "urltest" \in Signals /\ UrltestSelects

(* Steps of the daemon itself, which go on without anything from outside.  *)
ProbeStep == ProbeTimer \/ ProbeAsk \/ ProbeCommit
DaemonStep ==
    StartupStep \/ OperationStep \/ HupStep \/ ShutdownStep \/ Sigusr1Fires \/ UrltestSwitches

Next == UserStep \/ SignalStep \/ DaemonStep \/ ProbeStep

(* Queued control tasks and due timers are served by the loop; work on an  *)
(* executor ends, since every call it makes has a timeout; run() goes on.  *)
Fairness ==
    /\ WF_vars(StartupStep)
    /\ WF_vars(OperationStep)
    /\ WF_vars(HupStep)
    /\ WF_vars(ShutdownStep)
    /\ WF_vars(UrltestSwitches)
    /\ WF_vars(ProbeAsk)
    /\ WF_vars(Sigusr1Fires)

Spec == Init /\ [][Next]_vars
FairSpec == Spec /\ Fairness

-------------------------------------------------------------------------------
(* Once run() has returned, nothing is left in the firewall, no timer is   *)
(* scheduled, no urltest registered, and dnsmasq is on its fallback        *)
(* configuration if hooks work: no worker that outlived the loop runs a    *)
(* control task inline after the cleanup or reloads the managed            *)
(* configuration.                                                          *)
ShutdownLeavesNothing ==
    loop = "done" => /\ fw = NoCfg /\ timers = {} /\ ~tests
                     /\ "hook" \notin Faults => dns = NoHash

(* A state that users read as "running" is one in which the kernel holds   *)
(* the configuration of config_, except until a failed control task has    *)
(* been reported by the task that marks the runtime broken.  A refresh     *)
(* that fails is only logged, so it must not fail; and a SIGHUP            *)
(* transaction must not meet a lifecycle operation.                        *)
Reported == op.at # "markBroken"
RefreshFails ==
    /\ Signals \cap {"USR1", "interface", "urltest"} # {}
    /\ Faults \cap {"routing", "firewall"} # {}
Overlap == Requests # {} /\ "HUP" \in Signals
RunningIsServing ==
    ~RefreshFails /\ ~Overlap /\ ~Early =>
        (phase = "running" /\ Reported => active /\ routes = live /\ fw = live)

(* dnsmasq serves what the state promises: its resolver configuration      *)
(* while running, without an apply that may skip the reload; and its       *)
(* fallback configuration after a stop, or the state is not "stopped".     *)
ResolverMatchesState ==
    ~Overlap /\ ~Early =>
        /\ phase = "running" /\ Reported /\ "apply" \notin Requests => dns = Hash[live]
        /\ phase = "stopped" /\ op.at = "idle" => ~active /\ dns = NoHash

(* When an apply operation reports success, the file, the active snapshot, *)
(* config_ and the kernel all hold the configuration that was submitted.   *)
(* A startup that is still running may find the firewall failing behind    *)
(* the operation's back, so that must not happen either.                   *)
StartupFails == Early /\ "firewall" \in Faults
AppliedEverywhere ==
    ~RefreshFails /\ ~Overlap /\ ~StartupFails =>
        (op.at = "finish" /\ op.kind = "apply" /\ op.ok =>
            {disk, store, live, routes, fw} = {op.cfg})

(* The snapshot readers see changes only to a configuration that is        *)
(* config_, in the kernel and confirmed by dnsmasq, when SIGHUP is the     *)
(* only way to change it.  Between the apply and the commit the loop still *)
(* handles interface events and selection changes, so their refresh of the *)
(* firewall must not fail; a SIGUSR1 is put off until the lease is free.   *)
FailsBetween == Signals \cap {"interface", "urltest"} # {} /\ "firewall" \in Faults
CommitsWhatServes ==
    [][Requests = {} /\ ~Early /\ ~FailsBetween /\ store' # store =>
        store' = live' /\ fw' = store' /\ phase' = "running" /\ dns' = Hash[store']]_vars

(* A draft is discarded only once it is active and, unless the file was    *)
(* edited since, on disk.                                                  *)
DraftNeverLost ==
    [][draft # NoCfg /\ draft' = NoCfg /\ ~Overlap => disk' = draft /\ store' = draft]_vars

(* While the loop serves, a lifecycle operation ends and the lease that a  *)
(* SIGHUP takes is given back, so that the next request is not refused;    *)
(* and the refresh a SIGUSR1 asks for is done, however often it is put     *)
(* off.                                                                    *)
OperationsEnd ==
    /\ op.at # "idle" ~> op.at = "idle" \/ loop # "serving"
    /\ lease ~> ~lease \/ loop # "serving"
    /\ "usr1" \in timers ~> "usr1" \notin timers \/ loop # "serving"

(* A worker waits for a control task that was handed to the loop and that  *)
(* the loop, which serves no more, will not run.                           *)
AwaitsLoop ==
    /\ loop # "serving"
    /\ \/ op.at \in ControlSteps /\ op.queued
       \/ hup.at \in {"apply", "commit"} /\ hup.queued
       \/ hup.at = "lost"

(* run() returns after SIGTERM, whatever operations, SIGHUP transactions,  *)
(* hooks and probes are out, unless the worker that it joins is one that   *)
(* waits for the loop (daemon_core.cpp:1348): nothing else holds it up.    *)
ShutdownCompletes == loop = "leaving" ~> loop = "done" \/ AwaitsLoop
===============================================================================
