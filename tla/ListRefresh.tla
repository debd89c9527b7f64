----------------------------- MODULE ListRefresh -----------------------------
(***************************************************************************)
(* Who refreshes lists and what becomes of the result: the autoupdate      *)
(* timer (an executor task and a posted commit), the API (an HTTP thread   *)
(* that waits for its commit), `download` over IPC (inside the event       *)
(* loop), and the startup and configuration applies, which download what   *)
(* has no cache yet.                                                       *)
(* Every action but those of ListService runs on the event loop, or is the *)
(* first step of an HTTP or lifecycle thread.                              *)
(*                                                                         *)
(* A configuration has its remote lists in order, those its route rules    *)
(* and those its DNS rules use, and whether lists_autoupdate is enabled.   *)
(***************************************************************************)
EXTENDS ListService, RuntimeState

CONSTANTS
    Configs,
    First,       \* the configuration on disk at first
    MaxRequests, \* how many refreshes, applies, stops and starts there are
    MaxTimers    \* how many autoupdate timers may be scheduled at once

ASSUME CallersAssumption ==
    /\ {"auto", "api", "ipc", "apply", "boot"} \subseteq Callers
    /\ None \notin Callers

VARIABLES
    requests, \* how many are still to come
    cfg,      \* config_
    store,    \* the configuration published in config_store_
    runtime,  \* the state of the runtime state machine
    active,   \* routing_runtime_active_
    sets,     \* sets[l]: the body that the static sets of a list hold
    dns,      \* dns[l]: the body that dnsmasq was last configured with
    timer,    \* the scheduled autoupdate timers; mine: lists_autoupdate_task_id_ is one
    snap,     \* snap[c]: what a refresh remembers from when it began; stale when
              \* runtime_generation_ has moved since
    loop,     \* "idle", or "ipc" while the loop is inside a download
    op,       \* the startup or the lifecycle operation under way
    excused,  \* history: lists whose new contents the code leaves unapplied
    behind    \* history: lists brought into the sets since dnsmasq was last reloaded

runVars == <<cfg, store, runtime, active, sets, dns, behind>>

vars == <<serviceVars, requests, runVars, timer, snap, loop, op, excused>>

NoSnap == [active |-> FALSE, stale |-> FALSE, reload |-> FALSE]

NoOp == [at |-> "idle", cfg |-> None]

Startup == [at |-> "boot", cfg |-> None]

Relevant(c) == c.route \cup c.dns

(* collect_relevant_list_names(): what a result changes for the config     *)
(* that the refresh began with                                             *)
ChangedFor(c) == call[c].changed \cap Relevant(call[c].key.cfg)

ChangesDns(c) == call[c].changed \cap call[c].key.cfg.dns # {}

SetsFrom(config) == [l \in Lists |-> IF l \in config.route THEN files[l].body ELSE None]

(* dnsmasq is told the server for the domains of a list of a DNS rule, and *)
(* the dynamic sets for those of a list of a route rule.                   *)
DnsFrom(config) == [l \in Lists |-> IF l \in Relevant(config) THEN files[l].body ELSE None]

Nothing == [l \in Lists |-> None]

Init ==
    /\ ServiceInit
    /\ requests = MaxRequests
    /\ cfg = First
    /\ store = First
    /\ runtime = "starting"
    /\ active = TRUE
    /\ sets = Nothing
    /\ dns = Nothing
    /\ timer = [n |-> 0, mine |-> FALSE]
    /\ snap = [c \in Callers |-> NoSnap]
    /\ loop = "idle"
    /\ op = Startup
    /\ excused = {}
    /\ behind = {}

-------------------------------------------------------------------------------
(* schedule_lists_autoupdate() forgets the id of a timer that still runs.  *)
Scheduled(tm, config) ==
    IF config.auto /\ tm.n < MaxTimers THEN [n |-> tm.n + 1, mine |-> TRUE] ELSE tm

Cancelled(tm) == IF tm.mine THEN [n |-> tm.n - 1, mine |-> FALSE] ELSE tm

(* runtime_generation_ is increased.                                       *)
Outdated == [c \in Callers |-> [snap[c] EXCEPT !.stale = TRUE]]

Requested == requests > 0 /\ requests' = requests - 1

Begins(c, key, order, reload) ==
    /\ call' = [call EXCEPT ![c] = CallFor(key, order)]
    /\ snap' = [snap EXCEPT ![c] = [active |-> active, stale |-> FALSE, reload |-> reload]]

Ends(c) ==
    /\ call' = [call EXCEPT ![c] = NoCall]
    /\ snap' = [snap EXCEPT ![c] = NoSnap]

RefreshKey(config, targets) == [cfg |-> config, uncached |-> FALSE, targets |-> targets]

(* reconcile_lists_only(): the resolver is reloaded for lists of DNS rules *)
(* alone.  It refuses when the runtime is not active, and fails in the     *)
(* firewall, or after it in the resolver hook.                             *)
ListsReconciled(c) ==
    /\ active
    /\ sets' = SetsFrom(cfg)
    /\ dns' = IF ChangesDns(c) THEN DnsFrom(cfg) ELSE dns
    /\ behind' = IF ChangesDns(c) THEN {} ELSE behind \cup call[c].changed
    /\ UNCHANGED <<runtime, trouble>>

ListsReconcileFails(c) ==
    /\ \/ ~active /\ UNCHANGED <<runtime, sets, trouble>>
       \/ /\ active /\ Trouble
          /\ runtime' = Moved(runtime, "broken")
          /\ sets' \in {sets} \cup (IF ChangesDns(c) THEN {SetsFrom(cfg)} ELSE {})
    /\ UNCHANGED <<dns, behind>>

-------------------------------------------------------------------------------
(* The timer fires: refresh_lists_and_maybe_reload_async().  While an      *)
(* earlier one is under way it does nothing, not even schedule the next.   *)
AutoFires ==
    /\ loop = "idle" /\ timer.n > 0 /\ Requested
    /\ \E mine \in {m \in BOOLEAN : IF m THEN timer.mine ELSE ~timer.mine \/ timer.n > 1} :
        LET left == [n |-> timer.n - 1, mine |-> timer.mine /\ ~mine]
        IN  \/ /\ call["auto"].at # "out"
               /\ timer' = left
               /\ UNCHANGED <<call, snap, trouble>>
            \/ /\ call["auto"].at = "out"
               /\ Begins("auto", RefreshKey(cfg, None), cfg.lists, FALSE)
               /\ timer' = left
               /\ UNCHANGED trouble
            \/ /\ call["auto"].at = "out" /\ Trouble
               /\ timer' = Scheduled(left, cfg)
               /\ UNCHANGED <<call, snap>>
    /\ UNCHANGED <<files, tmp, dl, cut, flight, runVars, loop, op, excused>>

(* Mutant: only the lists of DNS rules count.                              *)
AutoCommitDns ==
    /\ loop = "idle" /\ Returned("auto") /\ Ends("auto")
    /\ \/ /\ snap["auto"].active /\ ChangesDns("auto") /\ ListsReconciled("auto")
          /\ UNCHANGED <<timer, excused>>
       \/ /\ ~ChangesDns("auto")
          /\ timer' = Scheduled(timer, cfg)
          /\ UNCHANGED <<runtime, sets, dns, behind, trouble, excused>>
    /\ UNCHANGED <<files, tmp, dl, cut, flight, requests, cfg, store, active, loop, op>>

(* commit_lists_refresh_async_result()                                     *)
AutoCommit ==
    LET skips == snap["auto"].stale \/ call["auto"].error
        reloads == ~skips /\ snap["auto"].active /\ ChangedFor("auto") # {}
    IN  /\ loop = "idle" /\ Returned("auto") /\ Ends("auto")
        /\ \/ /\ reloads /\ ListsReconciled("auto")
              /\ UNCHANGED timer
           \/ /\ reloads /\ ListsReconcileFails("auto")
              /\ timer' = Scheduled(timer, cfg)
           \/ /\ ~reloads
              /\ timer' = Scheduled(timer, cfg)
              /\ UNCHANGED <<runtime, sets, dns, behind, trouble>>
        /\ excused' = IF skips THEN excused \cup call["auto"].changed ELSE excused
        /\ UNCHANGED <<files, tmp, dl, cut, flight, requests, cfg, store, active, loop,
                       op>>

-------------------------------------------------------------------------------
(* refresh_lists_via_api(): one list or all, of the published              *)
(* configuration                                                           *)
ApiBegins ==
    /\ call["api"].at = "out" /\ runtime # "starting" /\ Requested
    /\ \E targets \in {None} \cup {{store.lists[i]} : i \in DOMAIN store.lists} :
        Begins("api", RefreshKey(store, targets),
               IF targets = None THEN store.lists
               ELSE SelectSeq(store.lists, LAMBDA l : l \in targets), TRUE)
    /\ UNCHANGED <<cacheVars, flight, runVars, timer, loop, op, excused>>

(* The thread reads the generation only after the download.                *)
ApiPosts ==
    /\ Returned("api") /\ snap["api"].reload
    /\ IF call["api"].error THEN Ends("api")
       ELSE /\ snap' = [snap EXCEPT !["api"].stale = FALSE, !["api"].reload = FALSE]
            /\ UNCHANGED call
    /\ excused' = IF call["api"].error THEN excused \cup call["api"].changed ELSE excused
    /\ UNCHANGED <<cacheVars, flight, requests, runVars, timer, loop, op>>

(* The control task it waits for                                           *)
ApiCommit ==
    LET s == snap["api"]
        reloads == ~s.stale /\ s.active /\ ChangedFor("api") # {}
    IN  /\ loop = "idle" /\ Returned("api") /\ ~s.reload /\ Ends("api")
        /\ \/ reloads /\ ListsReconciled("api")
           \/ reloads /\ ListsReconcileFails("api")
           \/ ~reloads /\ UNCHANGED <<runtime, sets, dns, behind, trouble>>
        /\ excused' = IF s.stale \/ ~s.active \/ call["api"].key.cfg # cfg
                      THEN excused \cup call["api"].changed ELSE excused
        /\ UNCHANGED <<files, tmp, dl, cut, flight, requests, cfg, store, active,
                       timer, loop, op>>

-------------------------------------------------------------------------------
(* `download` and `download --reload`: the loop does nothing else until it *)
(* has the result.                                                         *)
IpcBegins(reload) ==
    /\ loop = "idle" /\ Requested
    /\ loop' = "ipc"
    /\ Begins("ipc", RefreshKey(cfg, None), cfg.lists, reload)
    /\ UNCHANGED <<cacheVars, flight, runVars, timer, op, excused>>

IpcEnds ==
    LET reloads == /\ snap["ipc"].reload /\ ~call["ipc"].error
                   /\ active /\ ChangedFor("ipc") # {}
    IN  /\ loop = "ipc" /\ Returned("ipc") /\ Ends("ipc")
        /\ loop' = "idle"
        /\ \/ reloads /\ ListsReconciled("ipc")
           \/ reloads /\ ListsReconcileFails("ipc")
           \/ ~reloads /\ UNCHANGED <<runtime, sets, dns, behind, trouble>>
        /\ excused' = IF ~snap["ipc"].reload \/ call["ipc"].error
                      THEN excused \cup call["ipc"].changed ELSE excused
        /\ UNCHANGED <<files, tmp, dl, cut, flight, requests, cfg, store, active,
                       timer, op>>

-------------------------------------------------------------------------------
(* A lifecycle operation applies a configuration: first the lists of it    *)
(* that have no cache, outside of the loop.                                *)
ApplyBegins(config) ==
    /\ op.at = "idle" /\ Requested
    /\ op' = [at |-> "prepare", cfg |-> config]
    /\ Begins("apply", [cfg |-> config, uncached |-> TRUE, targets |-> None], config.lists, FALSE)
    /\ UNCHANGED <<cacheVars, flight, runVars, timer, loop, excused>>

(* A list that cannot be had fails the operation.                          *)
ApplyPrepared ==
    LET fails == call["apply"].error \/ call["apply"].failed # {}
    IN  /\ op.at = "prepare" /\ Returned("apply") /\ Ends("apply")
        /\ op' = IF fails THEN NoOp ELSE [op EXCEPT !.at = "reconcile"]
        /\ excused' = IF fails THEN excused \cup call["apply"].changed ELSE excused
        /\ UNCHANGED <<cacheVars, flight, requests, runVars, timer, loop>>

(* reconcile_prepared_runtime()                                            *)
ApplyReconciles ==
    /\ loop = "idle" /\ op.at = "reconcile"
    /\ cfg' = op.cfg
    /\ timer' = Cancelled(timer)
    /\ snap' = Outdated
    /\ \/ /\ sets' = SetsFrom(op.cfg)
          /\ active' = TRUE
          /\ runtime' = "applying"
          /\ op' = [op EXCEPT !.at = "resolver"]
          /\ excused' = {}
          /\ UNCHANGED trouble
       \/ /\ Trouble
          /\ runtime' = Moved(runtime, "broken")
          /\ op' = NoOp
          /\ UNCHANGED <<sets, active, excused>>
    /\ UNCHANGED <<files, tmp, dl, cut, flight, call, requests, store, dns, behind, loop>>

(* begin_startup_runtime(), continue_startup_after_lists(): lists that     *)
(* cannot be had are left out.                                             *)
StartupBegins ==
    /\ loop = "idle" /\ op.at = "boot"
    /\ op' = [op EXCEPT !.at = "lists"]
    /\ Begins("boot", [cfg |-> cfg, uncached |-> TRUE, targets |-> {}], cfg.lists, FALSE)
    /\ UNCHANGED <<cacheVars, flight, requests, runVars, timer, loop, excused>>

StartupContinues ==
    /\ loop = "idle" /\ op.at = "lists" /\ Returned("boot") /\ Ends("boot")
    /\ \/ /\ ~call["boot"].error
          /\ sets' = SetsFrom(cfg)
          /\ op' = [op EXCEPT !.at = "resolver"]
          /\ UNCHANGED <<runtime, trouble>>
       \/ /\ (call["boot"].error /\ UNCHANGED trouble) \/ Trouble
          /\ runtime' = Moved(runtime, "broken")
          /\ op' = NoOp
          /\ UNCHANGED sets
    /\ UNCHANGED <<files, tmp, dl, cut, flight, requests, cfg, store, active, dns,
                   behind, timer, loop, excused>>

(* The system resolver is reloaded and dnsmasq fetches its configuration.  *)
Resolver ==
    /\ loop = "idle" /\ op.at = "resolver"
    /\ \/ /\ dns' = DnsFrom(cfg)
          /\ behind' = {}
          /\ op' = [op EXCEPT !.at = "complete"]
          /\ UNCHANGED <<runtime, trouble>>
       \/ /\ Trouble
          /\ runtime' = Moved(runtime, "broken")
          /\ op' = NoOp
          /\ UNCHANGED <<dns, behind>>
    /\ UNCHANGED <<files, tmp, dl, cut, flight, call, requests, cfg, store, active,
                   sets, timer, snap, loop, excused>>

(* complete_running_runtime() schedules the timer and then asks the state  *)
(* machine.  When that refuses, since the runtime was broken meanwhile or  *)
(* ran before a start, the operation fails; otherwise the configuration is *)
(* published.                                                              *)
Completes ==
    /\ loop = "idle" /\ op.at = "complete"
    /\ op' = NoOp
    /\ timer' = Scheduled(timer, cfg)
    /\ IF MayMove(runtime, "running")
       THEN runtime' = "running" /\ store' = cfg
       ELSE runtime' = Moved(runtime, "broken") /\ UNCHANGED store
    /\ UNCHANGED <<cacheVars, flight, call, requests, cfg, active, sets, dns, behind,
                   snap, loop, excused>>

(* Start: setup_routing_and_firewall(), which does nothing when the        *)
(* runtime is active                                                       *)
Starts ==
    /\ loop = "idle" /\ op.at = "idle" /\ Requested
    /\ snap' = IF active THEN snap ELSE Outdated
    /\ \/ /\ active
          /\ op' = [at |-> "resolver", cfg |-> cfg]
          /\ UNCHANGED <<runtime, active, sets, excused, trouble>>
       \/ /\ ~active
          /\ sets' = SetsFrom(cfg)
          /\ active' = TRUE
          /\ runtime' = "applying"
          /\ op' = [at |-> "resolver", cfg |-> cfg]
          /\ excused' = {}
          /\ UNCHANGED trouble
       \/ /\ ~active /\ Trouble
          /\ runtime' = Moved(runtime, "broken")
          /\ UNCHANGED <<active, sets, op, excused>>
    /\ UNCHANGED <<files, tmp, dl, cut, flight, call, cfg, store, dns, behind, timer, loop>>

(* Stop: teardown_routing_and_firewall(), then the deactivation hook; the  *)
(* autoupdate timer stays.                                                 *)
Stops ==
    /\ loop = "idle" /\ op.at = "idle" /\ Requested
    /\ active' = FALSE
    /\ sets' = IF active THEN Nothing ELSE sets
    /\ snap' = IF active THEN Outdated ELSE snap
    /\ \/ /\ dns' = Nothing
          /\ runtime' = IF active THEN "stopped" ELSE runtime
          /\ UNCHANGED trouble
       \/ /\ Trouble
          /\ runtime' = Moved(runtime, "broken")
          /\ UNCHANGED dns
    /\ UNCHANGED <<files, tmp, dl, cut, flight, call, cfg, store, timer, loop, op,
                   excused, behind>>

(* The daemon dies and starts again with the published configuration.      *)
Crash ==
    /\ DownloadsDie
    /\ flight' = NoFlight
    /\ call' = [c \in Callers |-> NoCall]
    /\ snap' = [c \in Callers |-> NoSnap]
    /\ timer' = [n |-> 0, mine |-> FALSE]
    /\ cfg' = store
    /\ runtime' = "starting"
    /\ active' = TRUE
    /\ loop' = "idle"
    /\ op' = Startup
    /\ excused' = {}
    /\ UNCHANGED <<requests, store, sets, dns, behind>>

Serves(c) == Progress(c) /\ UNCHANGED <<requests, runVars, timer, snap, loop, op, excused>>

SpuriousWakeup(c) == Wakes(c) /\ UNCHANGED <<requests, runVars, timer, snap, loop, op, excused>>

(* What the threads and the loop go on with by themselves                  *)
Proceeds ==
    \/ AutoCommit \/ ApiPosts \/ ApiCommit \/ IpcEnds
    \/ ApplyPrepared \/ ApplyReconciles
    \/ StartupBegins \/ StartupContinues
    \/ Resolver \/ Completes

Next ==
    \/ \E c \in Callers : Serves(c) \/ SpuriousWakeup(c)
    \/ AutoFires
    \/ ApiBegins
    \/ \E reload \in BOOLEAN : IpcBegins(reload)
    \/ \E config \in Configs : ApplyBegins(config)
    \/ Proceeds
    \/ Starts \/ Stops \/ Crash

Spec == Init /\ [][Next]_vars

(* Callers get the mutex, requests to servers time out, and posted and     *)
(* awaited tasks run.                                                      *)
Fairness == WF_vars(Proceeds) /\ \A c \in Callers : WF_vars(Serves(c))

FairSpec == Spec /\ Fairness

-------------------------------------------------------------------------------
Keys == [cfg : Configs, uncached : BOOLEAN, targets : {None} \cup SUBSET Lists]

Quiet == op.at = "idle" /\ \A c \in Callers : call[c].at = "out"

(* When nothing is under way and the runtime is running, the sets and the  *)
(* resolver hold what is in the cache: whoever downloaded a list, alone or *)
(* as one of several callers of a flight, has brought it there             *)
(* (daemon_runtime.cpp:314), to dnsmasq at once when a DNS rule uses the   *)
(* list, and otherwise the next time that dnsmasq is reloaded              *)
(* (list_service.cpp:85).  Excepted: plain downloads; results that an      *)
(* apply, a start or a stop outdated, or that were asked for while the     *)
(* runtime was stopped or for another configuration; downloads that ended  *)
(* with an exception or failed after the body was in place.                *)
SetsFollowCache ==
    Quiet /\ runtime = "running" =>
        \A l \in Lists \ (excused \cup cut) :
            /\ l \in cfg.route => sets[l] = files[l].body
            /\ l \in cfg.dns \cup (cfg.route \ behind) => dns[l] = files[l].body

(* Everyone who asks for lists, the event loop included, gets an answer,   *)
(* also when another refresh is under way (list_service.cpp:182).          *)
CallersReturn == []<>(\A c \in Callers : call[c].at = "out")

(* "Controls automatic periodic refresh of remote lists."                  *)
(* (docs/content/docs/configuration/advanced.md:150)                       *)
AutoupdateGoesOn ==
    cfg.auto /\ runtime = "running" ~>
        timer.n > 0 \/ call["auto"].at # "out" \/ runtime # "running"
==============================================================================
