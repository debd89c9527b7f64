# keen-pbr in TLA+

keen-pbr is a policy-based routing daemon for routers. It reads a
configuration (outbounds, lists, route rules, DNS servers), puts routes and
policy rules into the kernel through netlink, IP sets and marking rules into
iptables or nftables, gives dnsmasq a generated resolver configuration through
a hook, and keeps all of this current while links go up and down, lists are
updated, outbounds are probed and users change the configuration over an HTTP
API, a control socket or signals.

This directory holds a specification of the parts of the daemon in which
things happen in an order nobody controls, the TLC models that check it, and
proofs of what can be shown for every instance. All paths below are relative
to the repository; a file of the C++ tree is named without its `src/` prefix.

Contents: [the system](#1-the-system), [the modules](#2-modules),
[the runs](#3-runs-and-what-they-show), [bounds](#4-bounds),
[fairness](#5-fairness), [proofs](#6-proofs),
[where code and documents differ](#7-where-code-and-documents-differ),
[what is left out](#8-what-is-not-modelled), [plan](#9-plan).

## 1. The system

### Threads

| Thread | Runs | Source |
| --- | --- | --- |
| event loop | control tasks, signals, timers, netlink, IPC and DNS test descriptors; owner of `config_` and the kernel state | `daemon/daemon_core.cpp` |
| `lifecycle_executor_` (1 worker) | apply, start, stop, restart, stage by stage; waits for control tasks | `daemon/daemon_api.cpp` |
| `blocking_executor_` | list downloads, urltest probes, SIGHUP transactions | `util/blocking_executor.cpp` |
| `resolver_hook_executor_`, `resolver_io_executor_` | the dnsmasq hook and TXT queries | `daemon/daemon_resolver.cpp` |
| HTTP threads | API requests; list refreshes and health reports run on them | `api/` |

Beside the daemon there are other processes: the external commands it starts,
dnsmasq, and `keen-pbr generate-resolver-config`, which dnsmasq runs as its
conf-script and which asks the daemon over the control socket.

A control task is atomic with respect to everything on the loop. Whatever runs
elsewhere interleaves with it, so the models have one action per control task
and one per step on another thread or in another process.

### Parts

| Part | State | What is hard about it | Module |
| --- | --- | --- | --- |
| runtime state machine | `starting` ... `broken` | transitions that are refused | `RuntimeState` |
| startup | a chain of posted tasks | requests and signals in the middle of it; a dropped post ends the chain | `DaemonStartup` |
| lifecycle operations | stage, candidate configuration, expected hash | kernel, dnsmasq, file and snapshot change in different stages, each may fail | `DaemonLifecycle` |
| SIGHUP reload | lease, candidate | no exclusion against lifecycle operations | `DaemonSighup` |
| events and shutdown | timers, probes | refreshes between any two stages; workers outliving the loop | `DaemonEvents` |
| event loop, scheduler, DNS test server | descriptors and the tables that name them, eventfd, control queue | events of a batch whose descriptor an earlier callback closed and the kernel gave out again | `EventLoop`, `DnsProbe` |
| executor | queue, workers, two condition variables | lost wakeups, draining on shutdown | `BlockingExecutor`, `TaskPool` |
| external commands | the process group, the pipe, the deadline | commands that stop reading, ignore SIGTERM or leave descendants | `ChildProcess` |
| resolver | expected and actual hash, TXT probe, stream, dnsmasq | five processes and threads between a new configuration and the answer that it is served | `ResolverSync`, `ResolverReload` |
| resolver configuration | the router's servers, rules, lists | the hash and the text come from separate walks; rows at their limits | `DnsmasqGen` |
| urltest manager, circuit breaker | selection, results, generation, breaker entries | results of earlier registrations; slots that are never given back | `UrltestManager`, `CircuitBreaker` |
| configuration, marks | what is accepted | the code that uses it later relies on more than what was checked | `ConfigCheck`, `Fwmarks` |
| routing plan, reconciler, verifier | kernel routes and rules | failing netlink calls, crashes, links that change during a reconciliation, routes of others | `RoutingPlan`, `RoutingReconciler`, `RoutingVerifier` |
| firewall plan, backends, verifiers | sets, chains, generation in use | half-done restores, flushes by others, crashes, sets that dnsmasq fills | `FirewallPlan`, `FirewallState`, `Iptables`, `Nftables`, `Firewall`, `FirewallVerifier` |
| list cache and service | body and metadata files, temporary files, the shared flight | concurrent callers, crash between two renames, one of the waiters is the event loop | `ListCache`, `ListService` |
| list refresh | what the sets and dnsmasq were made from; the autoupdate timer | results that are outdated when they arrive | `ListRefresh` |

`PROJECT.json` lists every part of the repository, modelled or not, with the
reason, and the lines each definition stands for.

## 2. Modules

A module named `XProofs` holds the theorems about the modules it extends
(section 6); the proof about `DnsmasqGen` is in `ListProofs`. `Sequencing` has the
operators on sequences that plans and directives are made with
(`Keep`, `FlattenSeq`, `Arranged`, `FirstIn`), as functions, so that `Induction`
can prove what they compute.

### The daemon

`RuntimeState` is the table of `RuntimeStateMachine::transition`.
`DaemonRuntime` declares the state all actors share and the procedures of
`daemon_runtime.cpp` they call:

| Variable | Code |
| --- | --- |
| `phase`, `active` | `runtime_state_machine_`, `routing_runtime_active_` |
| `live`, `store`, `draft`, `disk` | `config_`, the active and the staged configuration of `config_store_`, the file |
| `routes`, `fw`, `dns` | the configuration whose routes, firewall and resolver hash are in force |
| `expected`, `actual`, `probe`, `timers` | the resolver sync machine, the probe under way, timer ids |
| `boot`, `op`, `hup` | where startup, the lifecycle operation and the SIGHUP transaction are |
| `lease` | `operation_coordinator_` |
| `loop` | serving, the steps of the shutdown in `run()`, returned, or in the destructor after an exception |
| `env`, `left` | what this behaviour meets: requests, signals, faults, number of events |

`DaemonStartup`, `DaemonLifecycle`, `DaemonSighup` and `DaemonEvents` hold the
actions of one actor each. `queued` says that the actor's control task is in
`control_tasks_`; an actor has at most one there. `Daemon` composes them and
states the properties. A configuration is a model value, of which only the
resolver hash matters here; the modules below look inside it. The hook and the
confirmation are one step each in these modules; `ResolverReload` takes them
apart.

### The event loop

`EventLoop` is the loop of `daemon_core.cpp` with the `Scheduler` on it.
`epoll_wait` fetches a batch, which is a copy; each of its events is dispatched
to the callback that is registered for the descriptor *then*. A descriptor
number that a callback closes may be given out again before the batch is
through. Other threads push a control task and write the eventfd, in two
steps. `DnsProbe` adds the TCP side of the DNS test server: the listener, a
client per connection, the sweep of idle clients and the teardown.

### The executor

`BlockingExecutor`: an action is one critical section of the mutex; notifying
after the unlock is an action of its own. A condition variable is the set of
threads parked on it, `notify_one` wakes any of them or is lost, and threads
wake for no reason. `TaskPool` is what the rest of the daemon relies on: a call
is answered, an accepted task runs once, a refused one never, and a shutdown
that returned has left none behind. The executor implements it (section 6).

### The resolver

`ChildProcess` is `safe_exec()` and its two variants: the parent that feeds or
reads a pipe and waits with a deadline, the process group of the command, which
may stop reading, hold the pipe, ignore SIGTERM or fork, and SIGTERM, the grace
period and SIGKILL. `ResolverSync` is what the daemon knows of dnsmasq: the
expected hash, the TXT probe with its generations, and
`ResolverSyncStateMachine`. `ResolverReload` composes both with everything
between a new configuration and the answer that it is served:

| Variable | Code |
| --- | --- |
| `config`, `generation` | `config_`, and the configuration of `resolver_generation_snapshot_`, from which a stream is generated |
| `lists`, `keen`, `rci` | the versions of the list caches, of the snapshot in the Keenetic DNS cache, and of what the router would answer now |
| `sync`, `probe`, `timers`, `active` | `resolver_sync_`, the TXT query that is out, the resolver's timers, `routing_runtime_active_` |
| `alive`, `phase` | whether the process exists, the runtime state as the control socket sees it |
| `op`, `worker`, `loop`, `since` | the lifecycle operation, the worker of `resolver_hook_executor_`, the loop in a reload of its own, for whom a stream has completed since the baseline |
| `helper`, `stream` | the conf-script that dnsmasq runs, and the job that serves it |
| `dnsmasq`, `service` | dnsmasq, and the hook: whether it keeps a state file, what is in it, and the restart it ordered |
| `child` | the hook as an external command |
| `budget` | bounds: operations, outside events, commands |

The hook is one of the three `dnsmasq.sh` of `packages/`: that of Debian keeps a
state file that says whether dnsmasq has the conf-script or a static file, those
of OpenWrt and Keenetic restart dnsmasq whatever they are asked
(`service.file`). A conf-script may fail to connect although the daemon runs
(`refused`), and the daemon may shut down or die while it does. dnsmasq itself
is not in the repository; it is modelled from how the daemon and the scripts use
it, and the map marks it external. `DnsmasqGen` is what is streamed: the
snapshot read from the router's DNS proxy, the choice of servers, the walk over
rules and lists, the rows of directives and the records that are hashed.

### Urltest

`CircuitBreaker` gives what each method makes of an entry; the clock is the
flag that the cooldown has passed. `UrltestManager` has one urltest outbound:
registering, clearing, queueing and committing on the loop; testing one
candidate after the other on the executor; and the posted task that rebuilds
the routing. Weights, latencies and the tolerance are cast to `uint32_t` as in
the code (`Word`, a smaller word in the run), and groups are taken by weight.
`epoch` is a history variable.

### Configuration and routing

`Fwmarks` is the arithmetic of masks and marks on words of any width.
`ConfigCheck` has two sides: `Accepted`, what `parse_config()` and
`validate_config()` let through, and `Builds` and `Effective`, what the code
that later uses the configuration on the event loop makes of it. A string is
abstracted to what each of the parsers sees in it.
`RoutingPlan` is `populate_routing_state()`: pure operators from a
configuration, the selections and the network to the routes and rules wanted. A
gatewayed outbound is reachable only while the main table reaches its gateway
through its interface (`onlink`), and one without a gateway takes IPv6 only
while its interface has a routed address (`v6`).
`RoutingReconciler` brings the kernel there, one netlink call per action, for
every cause there is, while links and addresses change, calls fail, the monitor
loses messages and the daemon crashes. `blind` says that
something has changed since the last reconciliation began that raises no
refresh: addresses, or links whose messages were lost. The kernel is modelled from how the code uses
it and is marked external in the map: a link that goes down takes its routes
with it, a rule selects its table by mark and mask in order of priority, a
table without a route is passed over, an IPv6 route with metric 0 is filed
under 1024. `RoutingVerifier` is what the health report and the list of
outbounds say of all this.

### Firewall

`FirewallPlan` is what `apply_runtime_firewall()` queues and what a packet
meets in a chain of such rules. `FirewallState` has the memory of the Firewall
object and the kernel. `Iptables` and `Nftables` are the two backends, one
action per external command, a listing that fails included; `Firewall` adds who
calls them, dnsmasq filling the dynamic sets, flushes by other programs, and
crashes. `known` says what a new process may know of what an old one left, and
`served` which plan was committed last for a family, and whether that commit
was a regular one. `FirewallVerifier` has the two
verifiers, which look for each expected rule in what could be read, and the
verdict of `test-routing`.

### Lists

`ListCache` is `CacheManager::download()`: the conditional request, the
temporary files, the two renames. `ListService` is the flight callers share.
`ListRefresh` has the five callers (autoupdate, API, `download` over IPC,
applies, startup), what becomes of their results, and the autoupdate timer.
`cut`, `excused` and `behind` are history variables that name the lists for
which the code itself gives up the agreement (a write that was cut off; a plain
download or an outdated result; a routed list that no DNS rule uses, whose
domains are in dnsmasq's configuration but do not make it reload).

## 3. Runs and what they show

Each module `MCx` gives the constants their values; `BlockingExecutor` and
`DnsProbe` get theirs from a configuration file alone. Every property of a passing
run comes with a mutant in `PROJECT.json`: a plausible mistake in one
definition that makes TLC find the property violated.

| Run | States | About |
| --- | ---: | --- |
| `daemon_safety` | 2,134,923 | startup, operations, SIGHUP, events, shutdown |
| `daemon_liveness` | 284,601 | the same, ending |
| `executor` | 9,594 | refinement of `TaskPool`, liveness included |
| `loop` | 484,479 | event loop, scheduler, DNS test server |
| `resolver` | 394,930 | reload and confirmation, external commands, generator |
| `urltest` | 22,530 | probes, commits, selection |
| `routing` | 1,317,645 | plan, reconciler, verifier |
| `firewall` | 236,642 | plan, backends, verifiers, accepted configurations |
| `lists` | 417,436 | cache, flight, refresh |
| `firewall_order`, `lists_auto`, `resolver_skip` | | refuted claims, [section 7](#7-where-code-and-documents-differ) |

**daemon_safety.** `ShutdownLeavesNothing`: when `run()` has returned, firewall,
timers and urltests are gone and dnsmasq is on its fallback, although workers
run control tasks inline once the loop is gone. `RunningIsServing` and
`ResolverMatchesState`: what the states `running` and `stopped` mean for the
kernel and for dnsmasq. `AppliedEverywhere`: a successful apply has the same
configuration in the file, the snapshot, `config_` and the kernel.
`CommitsWhatServes`: where no API request changes it, a SIGHUP publishes only
what is in force and confirmed (what an apply publishes is `AppliedEverywhere`).
`DraftNeverLost`: a draft disappears only when it is active and written. The
premises of these properties are part of the result: each excludes a case in
which the code does not keep it, and says which. A SIGHUP that meets a
lifecycle operation is the largest of them (`Overlap`); of that case the runs
show only that both end, and section 7 says why.

**daemon_liveness.** `OperationsEnd`: operations and SIGHUP transactions end,
also when they overlap, and a refresh that is put off is still done.
`ShutdownCompletes`: with operations, SIGHUP transactions, startup and events
out, `run()` returns, unless a worker that it joins waits for a control task of
the loop that has ended (`AwaitsLoop`), which is the one deadlock there is.

**executor.** `RunExactlyOnce`: what was accepted is queued, running or
finished, in one copy. `ImplementsPool`: every behaviour is one of
`TaskPool!FairSpec`, so no wakeup is lost and `shutdown()` drains.

**loop.** `FiresOnlyElapsed`: a stale event of a batch never fires the timer
that took over its descriptor. `TablesAgree`: the callbacks, the timers and the
clients name the same open descriptors, and the clients stay within their
limit. `TasksRun`: no task slips between reading the eventfd and swapping the
queue. `ConnectionsEnd`: a silent client is swept.

**resolver.** `AppliedServes`: a success that is reported after a reload is
true, although streams of earlier generations, restarts by others and hooks
that return early also count as completed streams.
`FallbackIsALifecycleDecision`: dnsmasq is given the fallback only if the
runtime was stopped or shutting down, the daemon gone, or the connection
refused, and never behind a part of the managed configuration. `ReloadsEnd` and `StatusCatchesUp`: every wait ends, and
"converged" is not shown for ever of a dnsmasq that serves something else.
`TimeoutLeavesNoProcess`: a command that had to be signalled leaves no process
of its group. `HashTellsConfiguration`: inputs with the same hash give the same
directives. `RowsCarryTheList`: no domain is lost, doubled or moved at the
limits of a row. The last two are about a pure function; the run gives it one
input per initial state (`given`), 2,100 in all.

**urltest.** `StaleProbesNeverCount` (generations keep results of an earlier
registration out), `ProbesEnd` (the flag that blocks probes is always lifted),
`BreakerNeverStarves` (a half-open breaker keeps a free slot although begun and
ended requests do not always match, if `half_open_max_requests` is not 0),
`SelectionBest` (the selected child is usable, answered, within the tolerance of
its group, and no comparable group comes before its own by weight; the casts
and the sum that wraps around are those of the code), and `RoutingFollows` (when
no change is posted, the routing has the manager's selection).

**routing.** `RoutesBeforeRules` and `GuardsStay`: no rule before its routes,
and no step at which a guarded mark is unguarded, from whatever a failed,
interrupted or older reconciliation left. `MarkedFollowsOutbound`: where the
kernel sends a marked packet once a reconciliation has succeeded and nothing has
changed since: where the configuration says, not where the plan says, and after
whatever earlier failures left. `RoutingHealthTellsTheTruth` and
`OutboundStatusIsLive`: what the API says of it agrees with where packets go,
also when messages were lost and dumps fail, and a settled kernel is never
called broken.

**firewall.** `Enforced`: at every instant, whatever fails or is half done, each
packet is classified by the plan last committed for its family, as the
documentation explains the rules. Commits that the code makes on a wrong view
of the kernel are not regular and not claimed; section 7 lists them, and the
next regular one ends that. `LearnedKept` and `CleanupLeavesNothing`: what dnsmasq has learned survives,
and a cleanup leaves nothing, whatever failed or was flushed before.
`HealthTellsTheTruth`: the report is good when the apply is in force and bad
when a family has lost its rules or could not be read. `TestTellsTheTruth`:
on nftables, `test-routing` names the outbound a packet takes, says ok whenever
the tool works and a set was asked, and does not say ok of a wrong outbound
when the tool fails for some sets.
`AcceptedServes`: a configuration that validation accepts has distinct marks,
and if it is tidy becomes a runtime without an exception in which every enabled
part has its effect. It is about configurations, not behaviours; the run takes
5,620 of them as initial states (`submitted`) beside the machine.

**lists.** `MetaDescribesBody`: the ETag sent next belongs to the cached body.
`SetsFollowCache`: when nothing is under way, the sets and dnsmasq hold what is
in the cache, whoever downloaded it; dnsmasq at once for lists of DNS rules, and
for routed ones from its next reload on. `CallersReturn`: every caller gets an
answer, the event loop included.

## 4. Bounds

* Daemon: two configurations with different resolver hashes, which is enough to
  tell old from new everywhere. `env` limits the number of events (`left`, 3
  or 4) and what may happen together; the seven safety environments cover API
  users, kernel events, file users, file users among kernel events, API users
  who do not wait for startup, all of these from the first instant, and the end
  of the process. The liveness environments are API users, file users, and the
  end of the process with operations and SIGHUP out (`BusyEnd`) or with startup
  and events out (`QuietEnd`). Faults are not limited: every step that can fail
  may fail every time.
* Executor: two workers, three tasks, a queue of one slot: the queue is full
  while both kinds of callers compete, and a notification can reach the wrong
  worker.
* Loop: two descriptor numbers beside the fixed ones, which timers and clients
  share, so that a number one callback frees is taken by the next, of its own
  kind or of the other. Three initial states: two connections for a limit of one
  client (`kMaxTcpClients`); a connection beside a timer and one to be
  scheduled; and three timers, one of them scheduled later, with a task of each
  of two threads.
* Resolver: two configurations, two versions of the lists and of the router's
  proxy. With the hook that keeps a state file, two operations and one outside
  event (`MaxOps`, `MaxFaults`): enough to go to another configuration and back,
  or to stop and start, with a restart, a shutdown, a death, a refused
  connection, a failure or a timeout between any two steps; with the other
  hooks, two operations, one operation and one outside event, or two outside
  events. Pipe and
  output limit of one unit and an input of two, so that a write blocks and a
  read is cut off. The generator has rows of two domains (`BatchSize`, 50 in
  the code) and six characters (`RowLength`, 1024), and lists that stay under,
  meet and pass both.
* Urltest: two children, one of them in two groups, of which the preferred is
  listed second and has a weight past the word; words of 3 bits, in which the
  tolerance of 10 is 2 and latencies 1, 4 and 6 tell "faster", "too slow" and
  "the sum wraps around" apart. Four
  generations and two registrations let a stale probe meet its successor.
* Routing: words of eight bits with a four-bit field, two configurations
  whose marks, tables and priorities all differ, a reserved table in between,
  two links, one with a gateway in its subnet and one with IPv6 (`Subnets`,
  `V6Interfaces`; the network is complete at first), two foreign routes, two
  failures, crashes or changes of addresses.
* Firewall: two configurations and two contents of two lists, three applies
  and two troubles (failure, crash or flush). Submitted configurations vary one
  group of fields at a time around a valid one (rules, outbounds, DNS, marks
  and priorities, schedules and interfaces, lists), on words of eight bits and ports to 9.
* Lists: two lists, one whose body goes back and forth and one whose ETag
  changes and body does not; two requests, one trouble, two timers. Safety was
  also checked once with three requests (7.4 million states).

Symmetry is not used: the liveness runs forbid it, and in the other runs the
values play different roles.

Deadlock is not checked: in every model the number of events is limited, and
where it is used up the system is at rest. That nothing is stuck before is what
the liveness properties say.

## 5. Fairness

Weak fairness only, on steps the daemon takes by itself: queued control tasks
and due timers are served by the loop (`run_event_loop()` polls them in every
turn), work on an executor ends because every call it makes has a timeout
(hooks and commands in `safe_exec`, transfers in the HTTP client, DNS queries),
workers get the mutex. In `ResolverReload` the lifecycle thread, the hook's
worker, the loop and the caller of a command proceed, deadlines pass, and
dnsmasq and its conf-script run to their end, and a process that shuts down
ends, if need be because the service manager kills it; the command itself and its
descendants are under no fairness, so a hook may hang for ever. In `EventLoop`
time passes and a thread that has pushed a task also writes the eventfd. Users,
signals, links, peers, failures, crashes and spurious wakeups are under no
fairness.

## 6. Proofs

Each theorem holds for every value of the constants that meets the named
assumptions; TLC evaluates these on the instances of section 4. Each safety
theorem rests on an inductive invariant, which TLC also checked before it was
proved. The proof that a step preserves it has one step per action, and under
it one per conjunct that the action can disturb.

| Module | Theorem | States |
| --- | --- | --- |
| `DaemonProofs` | `NothingIsLeft` | `ShutdownLeavesNothing` |
| | `RunningServes` | `RunningIsServing` |
| | `ResolverKeepsPromise` | `ResolverMatchesState` |
| | `SuccessIsEverywhere` | `AppliedEverywhere` |
| | `CommitIsServed` | `CommitsWhatServes` (action property) |
| | `DraftIsKept` | `DraftNeverLost` (action property) |
| `ThreadProofs` | `TypeCorrect`, `ExactlyOnce`, `Drained` | `TypeOK`, `RunExactlyOnce`, `ShutdownDrains` of the executor |
| | `RefinesPool` | the executor implements `TaskPool!Spec` |
| | `NoEarlyFire`, `TablesAlwaysAgree` | `FiresOnlyElapsed`, `TablesAgree` of the loop |
| `ResolverProofs` | `ReloadServes` | `AppliedServes` |
| | `FallbackDecided` | `FallbackIsALifecycleDecision` |
| | `NoProcessLeft` | `TimeoutLeavesNoProcess` |
| `UrltestProofs` | `StaleNeverCounts` | `StaleProbesNeverCount` |
| | `RoutingHasSelection` | `RoutingFollows` |
| | `NeverStarves` | `BreakerNeverStarves` |
| | `SelectsBest` | `SelectionBest` |
| `RoutingProofs` | `RoutesFirst` | `RoutesBeforeRules` |
| | `GuardsHold` | `GuardsStay` (action property) |
| `FirewallProofs` | `AlwaysEnforced` | `Enforced` |
| | `LearnedIsKept` | `LearnedKept` (action property) |
| | `NothingRemains` | `CleanupLeavesNothing` (action property) |
| `ListProofs` | `EtagBelongsToBody` | `MetaDescribesBody` |
| | `SetsAreCurrent` | `SetsFollowCache` |
| | `RowsCarry` | `RowsCarryTheList` |

### The daemon

`DaemonAssumption` says that configurations have hashes, that `NoHash` and
`NoCfg` are none, and what an environment is. The invariant is
`Inv == TypeInv /\ ActorInv /\ EndInv /\ PhaseInv /\ KernelInv /\ ResolverInv /\
ApplyInv /\ CommitInv`. `ActorInv` says who can be where: which stages
belong to which kind of operation, what the environment and startup allow, and
that the lease is held exactly while a SIGHUP transaction is out. `EndInv` is the order of the shutdown, which
`NothingIsLeft` needs because workers run control tasks inline once the loop is
gone. `PhaseInv` ties the runtime state to what the actors do, as long as no two
of them overlap. `KernelInv` and `ResolverInv` say of each stage which
configuration the kernel and dnsmasq have by then; `ApplyInv` and `CommitInv`
carry that to the end of an apply and to the commit of a SIGHUP.

The proofs showed two premises to be missing that the first instances had not
met, and the environments of `daemon_safety` now do: a startup that is still
under way may find the firewall failing behind a successful apply
(`StartupFails` in `AppliedEverywhere`), and a refresh between the apply and the
commit of a SIGHUP may fail (`FailsBetween` in `CommitsWhatServes`).

### Executor and event loop

`ExecutorAssumption`: there is a worker, the queue has at least one slot, and
`NoTask` is no task. The invariant is
`IInv == TypeOK /\ OneCopy /\ Accounted /\ Coherent`. `Coherent` is the
strengthening: a worker holds a task exactly while it runs one, a worker has
left only if the pool is stopping and the queue is empty, and the join has seen
every worker leave. Without it a task could be accepted after the last worker
left, and `Drained` would not follow. `RefinesPool` uses `IInv` and says of
each action which step of the pool it is under the mapping `Status`, `Phase`,
or that it leaves what callers see alone. The fairness half of `ImplementsPool`
is checked by TLC.

For the loop (`LoopAssumption`, `ProbeAssumption`: the fixed descriptors are
distinct and none of those given out) the invariant is `TablesOK(Tables) /\
CountInv /\ ClientInv`. `CountInv` is needed because a stale event is
dispatched to whoever has the descriptor then: it says that a timer whose
descriptor is readable has a period that its calls have not used up, so that
reading the descriptor before the call is enough. `TablesOK` says of the
loop's tables that a descriptor has the callback of what it is open for, that
closed ones are never ready, and that a timer and its descriptor name each
other; `ClientInv` says the same of the clients, and that they stay within
their limit.

### The resolver

The assumptions are that there is a configuration, that versions are numbers
and 0 is one, that an input's size is a number, and that the bounds are numbers
(`ConfsAssumption`, `VersionsAssumption`, `SizesAssumption`,
`BoundsAssumption`). The inductive invariant is
`Inv == TypeOK /\ ChildInv /\ HelperInv /\ OpInv /\ WorkerInv /\ DnsmasqInv`:

* `ChildInv` adds to `TimeoutLeavesNoProcess` that a call that has not come to
  its grace period has signalled nothing, and returns only when its direct
  child was reaped.
* `HelperInv` adds to `FallbackIsALifecycleDecision` that `calm`, the runtime
  having been up since the conf-script began, is true of the present, and that
  no reason to fall back arises while it holds but a refused connection.
* `OpInv` is why `AppliedServes` holds at all: from its kernel part on an
  operation is the only one that decides what is generated, so that everything
  a stream takes from the snapshot while the operation confirms is the
  operation's own. It follows the stages of an operation.
* `WorkerInv` ties the hook's worker to the stage that waits for it, and says
  that the hook's state file is "managed" from the confirmation on.
* `DnsmasqInv` is the strengthening proper: once the operation has been
  confirmed, nothing else is *on its way* into dnsmasq. A stream that still has
  its reader, a conf-script that has its bytes and dnsmasq itself hold the
  operation's configuration, and no conf-script is about to fall back unless it
  was refused or the daemon shuts down. Without
  it a restart by the system between the confirmation and the end of the
  operation could load an old stream.

### Urltest

`UrltestAssumption` types groups, weights (integers) and limits,
`BreakerAssumption` the breaker's thresholds. For the first two theorems the
invariant is `ShapeInv /\ GenerationInv /\ FreshInv /\ StaleProbesNeverCount /\
FollowInv`: a generation is given to one registration only, what is measured
under the present one belongs to it, and the last change that was posted
carries the manager's selection. For `NeverStarves` it is `AnswersInv /\ OnceInv
/\ SlotInv`: a generation is probed and committed once, and a circuit whose
half-open slots are all taken is among those a probe has asked and not answered
yet. `SelectsBest` follows from what `select_best` computes, which `Induction`
gives from its loop.

### Routing

`RoutingAssumption` types configurations and says that routes of others are as
the kernel files them. The invariant is `RoutingInv == TypeInv /\ AddInv /\
RuleInv /\ RoutesBeforeRules`. `AddInv` follows the walk over the planned
routes: those before `next` are in the kernel, or their interface has changed
and a message about it is unread. It cannot be read off the reconciler's own
`seen`, because an IPv6 route with metric 0 is filed under another metric.
`RuleInv` says the same of the rules, from which `GuardsHold` follows: a rule
that `PruneRule` deletes has a planned successor that is already there.

### Firewall

`FirewallAssumption` types configurations and keeps `None` apart from the
values it stands in for, an address is of one family, and a list keeps its
addresses by family. `PacketsAssumption` says which packets are looked at: a
forwarded one does not go to a DNS server with a detour, and one of the router
is a query that no route rule covers.

`AlwaysEnforced` has two halves. The first is about the plan: the first rule of
a chain that matches a packet gives what the documentation says of the rules,
list by list, if the sets hold what the lists hold (`PlanVerdict`; `FirstIn`
and its lemmas carry it through `Keep` and `FlattenSeq`), and the chain of a
family decides as the plan's rules do (`ChainVerdict`), in the generation chain
of iptables (`IptFollows`) and in the table of nftables, where both families
and both hooks share the rules (`NftFollows`). The second half is that the
kernel always has such a chain and such sets. Its invariant is `Inv == TypeInv
/\ StepInv /\ LearnInv /\ FillInv /\ TableInv /\ UseInv /\ ServeInv /\ OwnInv`:

* `StepInv`: which command of which backend an apply is at, and for whom;
* `LearnInv`: dynamic sets hold only what dnsmasq has resolved;
* `FillInv`: sets are filled before the chain that uses them is written;
* `TableInv`: with nftables a set is there only while the table is;
* `UseInv`: the dispatcher leads to the generation that the object takes for the
  active one, and the generation being filled is the other;
* `ServeInv`: for each family served regularly, the chain in use is jumped to,
  and it and the sets in use are those of the plan that was committed;
* `OwnInv`: what the object does not know of is not in the kernel, save dynamic
  sets that a start preserved, and there is one jump at most.

`UseInv` is what makes a restore that fails halfway harmless. `LearnedIsKept`
needs `StepInv` alone: only a start sweeps. `NothingRemains` is what a cleanup
makes of `OwnInv`, for which there must not be a second jump.

### Lists

`CallersAssumption` names the callers. The invariant is `ShapeInv /\ OwnerInv /\ BeginInv /\ CacheInv /\ RunInv /\
SyncInv`. Only the owner of the flight downloads (`OwnerInv`) and a caller that
may begin is in no call (`BeginInv`), so the temporary files are the owner's
and after each rename are what it was sent, or cut off (`CacheInv`). A refresh
of the timer that is not outdated began with the present configuration
(`RunInv`). A list is in the sets and in the resolver's configuration as it is
in the cache, unless a caller has replaced it and has not yet done with the
result, or an operation is under way that will bring it there (`SyncInv`); of
the resolver's configuration this is said of the lists of DNS rules, and of the
routed ones that have not been brought into the sets since its last reload.

`RowsCarry` is about the rows that `DnsmasqGen` makes from a list, for lists and
limits of any size (`GeneratorAssumption` types them). What the loop keeps
true, domain by domain: the rows written and the one being filled carry the
domains seen so far that fit a row by themselves, and each is within both
limits (`BatchFits`). The last flush changes neither.

### Sequences

`Induction` proves what the recursive functions of `Sequencing` compute, from
the well-foundedness of the naturals: `Keep` and `FlattenSeq` have the elements
one expects in their order, `Arranged` is a permutation, and `FirstIn` of a
concatenation, a flattening or a selection is found in its first part that has
one.

### Only model-checked

Liveness and the fairness half of the refinement (`OperationsEnd`,
`ShutdownCompletes`, `ProbesEnd`, `CallersReturn`, `TasksRun`,
`ConnectionsEnd`, `ReloadsEnd`, `StatusCatchesUp`, `ImplementsPool`) are out of
the provers' reach. Of the safety properties,

* `MarkedFollowsOutbound`, `RoutingHealthTellsTheTruth` and
  `OutboundStatusIsLive` compare marks, priorities and tables that are counted
  out (`TagRank`, `PairsBefore`, `SafeTableId`) and cut by masks, and do not
  hold for every configuration: two outbounds may share a table or, past the
  capacity of the mask, a mark;
* `HealthTellsTheTruth` matches expected with live rules by counting them;
* `TestTellsTheTruth`, `AcceptedServes` and `HashTellsConfiguration` compare
  two programs over all inputs; they are checked on the inputs of section 4.

## 7. Where code and documents differ

Refuted by a run:

| Run | Statement | Behaviour |
| --- | --- | --- |
| `firewall_order` | "Rules are checked from top to bottom. The first match wins." (`docs/content/docs/configuration/route-rules.md:23`) | with iptables, set-based drop and pass rules are appended to the dispatcher, behind the jump to the marks |
| `lists_auto` | automatic *periodic* refresh (`docs/content/docs/configuration/advanced.md:150`) | an autoupdate that reloads schedules no next one |
| `resolver_skip` | "Resolver configuration is unchanged and healthy" (`daemon/daemon_api.cpp:153`) | the decision trusts the last committed probe, which neither a stop nor an apply forgets: dnsmasq serves the fallback or another configuration |

Met while modelling. The models follow the code, and the premises of the
properties exclude these cases; "plan" is `.codegraph/IMPLEMENTATION_PLAN.md`.

Daemon

* A stop "Removes keen-pbr routing/firewall runtime state"
  (`docs/openapi.yaml:50`), but routes and rules stay: after `adopt_desired()`
  the managers own nothing that `clear()` could delete.
* A control task that a lifecycle worker queued before the loop ended is never
  run, and `run()` joins the worker that waits for it (`daemon_core.cpp:1348`;
  `docs/content/docs/cli.md:86`: "Graceful shutdown").
* Start on a running runtime ends `broken`, because `running` may not follow
  `running` (plan:36), and registers every urltest a second time, whose timer
  `emplace()` then drops (`urltest_manager.cpp:82`).
* Requests and SIGHUP are accepted during startup, and a lifecycle operation
  does not take the lease of a SIGHUP (plan:135). A failed apply is not rolled
  back (plan:848): `config_` is new, the snapshot old. Events refresh the
  kernel also when the runtime is stopped. A failed refresh is only logged.
  A SIGHUP whose commit comes after an operation has stopped the runtime or
  replaced `config_` publishes that `config_`, and moves the state to `running`
  (`daemon_api.cpp:398`); this is the `Overlap` that the properties exclude.
* The hang-up of a swept connection of the DNS test server can be applied to a
  new one with the same descriptor (`daemon_dns_probe.cpp:48`).
* The status stream's `reconcile()` builds a frame before it takes the lock and
  publishes it after releasing it, so that an older frame may be the last.

Resolver

* "A daemon that is alive (including one in `broken`) remains the source of the
  managed DNS configuration" (`main.cpp:204`), but a `socket()` or `connect()`
  that fails counts as `daemon_unavailable` (`control_client.cpp:55`), for which
  the conf-script emits the fallback beside a daemon that runs.
* The periodic probe is scheduled at startup only; an apply cancels it
  (`daemon_runtime.cpp:718`) and nothing schedules it again, which is why
  `StatusCatchesUp` asks for it.
* "converged" needs a TXT record not older than the apply
  (`docs/openapi.yaml:1366`), but an older one with the same hash is accepted.
* The stream of a conf-script that was killed counts as completed.
* `safe_exec_capture()` runs to its deadline when a descendant holds the pipe.
* Of several DNS rules with the same list the first wins. The cache of the
  router's servers is locked three times for one configuration.

Urltest

* Groups are taken by weight, smallest first; "Groups are tried in order; within
  a group the outbound is selected by weight" (`docs/openapi.yaml:650`), "Groups
  are checked in order" (`docs/content/docs/configuration/outbounds.md:165`), and
  weight decides between equivalent children (`docs/content/docs/faq.md:32`).
* `half_open_max_requests` 0 is accepted, and the first trial that succeeds is
  then the last (`circuit_breaker.cpp:77`).
* Weights and the tolerance are cast to `uint32_t`, and so is the sum of the
  smallest latency and the tolerance: when it wraps around, no child of the
  group is selected. `routing_state.cpp:293` orders the same groups by the
  uncast weights.

Interfaces and routing

* After a reconnect of the netlink socket, changes that happened meanwhile
  raise no refresh. A deleted or new link does not either, nor does a changed
  address, whose event carries no change of state (`interface_monitor.cpp:53`,
  `daemon_core.cpp:934`), nor a route of the main table, although both decide
  whether a gateway is reachable. Rules of an old mask stay after the mask is
  changed.
* After a reconciliation that failed, the health report still compares with the
  plan adopted before it, and says ok of a kernel that has rules of both.
* A table for which nothing is planned is neither read nor pruned
  (`routing_reconciler.cpp:66`, plan:193); its old route is inherited by the
  outbound that gets the table next.
* The IPv6 route of the selected child asks for metric 0, which the kernel
  files under 1024, behind the other children; the verifier takes metric 0 for
  any metric (`routing_verifier.cpp:37`).
* "keen-pbr always appends terminal IPv4 and IPv6 `unreachable` default routes"
  to a urltest's table (`docs/content/docs/configuration/outbounds.md:149`); the
  code makes them only while the table has no candidate
  (`routing_state.cpp:488`). The guard is the rule behind it, which `GuardsStay`
  is about.

Firewall

* With iptables a preserving apply never creates a dynamic set, so a
  configuration that adds a domain list cannot be applied. nftables keeps what
  a failed apply had queued (plan, US-05). A refresh after a crash, before the
  first start, duplicates jumps. A rule with a selector whose lists are all
  empty matches everything the selector matches (compare
  `docs/content/docs/faq.md:28`). The backends differ in which rules see local
  and forwarded packets.
* "The daemon can outlive externally flushed iptables state ... recreate the
  whole scaffold instead" (`iptables.cpp:669`); but `iptables -F` empties PREROUTING and OUTPUT and
  leaves the chains, `dispatcher_chains_exist()` is content, and the jump is
  never made again by applies that succeed.
* When nft cannot list the table, or its output cannot be read, an apply takes
  it for absent and adds its rules behind the old ones without flushing the sets
  (`nftables.cpp:595`, `:742`).
* `clear_dynamic_sets_on_apply` clears "during a full config apply or runtime
  restart" (`docs/content/docs/configuration/advanced.md:19`); an apply always
  preserves the sets (`daemon_runtime.cpp:743`), and only a start clears them.
* The results of the commands of `cleanup()` are discarded
  (`iptables.cpp:738`): what a failing one leaves is reported by nobody.
  `CleanupLeavesNothing` takes them to succeed.
* `build_fw_rule_states()` names static sets `kpbr4_`, `IptablesFirewall` makes
  `kpbr4s_` and `kpbr4S_`: with iptables `test-routing`
  (`docs/content/docs/cli.md:76`) looks into sets that do not exist. This is
  why `TestTellsTheTruth` is about nftables.
* The verifiers are content with a chain in one family and do not look at the
  order of rules or at extra ones; the one of nftables expects IPv6 rules that
  are not made when IPv6 is off. A jump in one family is enough for the report.
  An expected pass rule is matched by a mark rule of the same set (nftables) or
  by the RETURN behind a mark (iptables).
* Sets that an earlier apply left mislead `test-routing`. A tool that fails
  counts as "not in the set", and the answer is "(unknown)" when no set is asked.

Configuration (what `Tidy` excludes in `AcceptedServes`)

* Validation trims names (`config.cpp:250`), later lookups do not; blanks in
  port lists and unknown protocols are found when rules are built. Addresses of
  DNS servers, duplicate outbound tags and `list.detour` are not validated, nor
  is `fwmark.start` against the mask. A download whose detour cannot be used
  goes without it, with a warning (`list_service.cpp:218`).
* Rules that combine lists of ports are refused for `iptables` but not for
  `auto`, which may become iptables (`config.cpp:1010`,
  `tests/test_config_validation.cpp:822`).
* A Keenetic server is accepted although the proxy has no address. A schedule
  without a date in the next two years is accepted, and computing it throws;
  day of month and weekday are both required, although the format is called
  standard (`docs/content/docs/configuration/advanced.md:168`).
* Rule priorities are reserved once per outbound, but detours take a second
  pair.

Lists

* dnsmasq's configuration carries the domains of every routed list
  (`dnsmasq_gen.cpp:180`), but a refresh reloads it only for lists of DNS rules
  (`list_service.cpp:85`, `daemon_runtime.cpp:560`); by the plan (plan:610) it
  is reloaded when a changed list takes part in the resolver's generation.
  `behind` names these lists.
* A result that an apply, a start or a stop outdated is not applied, and no later
  refresh finds the list changed. If the rename of the metadata fails, the download is
  reported failed and the next one says unchanged. A crash between the renames
  and a server that goes back to the old version give a 304 for a body that is
  not cached. A stream that fails when it is closed goes unnoticed. A stop does
  not cancel the autoupdate timer, so a start adds a second one. `download
  --reload` after a failed reload finds nothing changed and does not retry.

## 8. What is not modelled

* Pure I/O and views: HTTP client and server, command line, logging, crash
  reports, the interface inventory, generated types, the web interface.
* Text: JSON, the lines of lists, quoting, the output of `iptables`, `nft` and
  `ip`, the bytes of DNS messages. What a parser decides is modelled where a
  property is about it (`ConfigCheck`, `DnsmasqGen`).
* Code the daemon does not call: `FirewallReconciler`,
  `run_status_command()`, `run_test_routing_command()`.
* Small parts with one lock or no state of their own: status stream and
  broadcaster, PID file, connection tracking, runtime reconciler, the mutexes
  of the configuration store.
* In modelled parts: the raw PREROUTING table, interface prefilters and
  connmark rules, set timeouts, the sweep of chains of older versions;
  creation and deletion of links (changed addresses are modelled as far as they
  decide whether an outbound is reachable); failing commands of `cleanup()`;
  refusals by a full
  executor except for probes and list updates; switching the firewall backend
  between two processes; the UDP side of the DNS test server, which keeps no
  state.
* Data races that leave a value old or new without a further effect on the
  properties (`update_resolver_config_hash()` on the hook's thread).
* Time: timeouts are failures, cooldowns and timers may fire at any moment; a
  TXT timestamp is older than the apply or not.

## 9. Plan

1. The status stream with several publishing threads and slow clients.
2. Links that are created and deleted; the raw PREROUTING table.
3. `ConfigStore` with its mutexes, and the PID file with a second process.
4. An atomic switch as the abstract specification that `Iptables` implements.
5. Proofs: that the marks, tables and priorities of a configuration within the
   capacity of its mask are distinct, from which `MarkedFollowsOutbound` follows;
   that the hash records can be taken apart again (`HashTellsConfiguration`).
