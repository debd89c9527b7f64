---------------------------- MODULE DaemonProofs ----------------------------
(***************************************************************************)
(* The invariants of the daemon, for every set of configurations, every    *)
(* environment and any number of events.                                   *)
(*                                                                         *)
(* What users may rely on (the kernel and dnsmasq hold what the state      *)
(* promises) rests on where each actor is: the proof carries, next to the  *)
(* promises themselves, what the startup pipeline, the operation and the   *)
(* SIGHUP transaction have already done at the step they have reached, and *)
(* in which states of the state machine they can be there.                 *)
(***************************************************************************)
EXTENDS Daemon, TLAPS

CfgOrNone == Configs \cup {NoCfg}
HashOrNone == Hashes \cup {NoHash}
ProbeType == [at : ProbeStates, fresh : BOOLEAN, seen : HashOrNone]
BootType == [at : BootStates, expect : HashOrNone, monitor : BOOLEAN]
OpType == [kind : OpKinds, at : OpStates, ok : BOOLEAN, queued : BOOLEAN,
           cfg : CfgOrNone, expect : HashOrNone]
HupType == [at : HupStates, queued : BOOLEAN, cfg : CfgOrNone, expect : HashOrNone,
            confirmed : BOOLEAN, ok : BOOLEAN]

(* The type of every variable.                                             *)
TypeInv ==
    /\ env \in Environments
    /\ phase \in RuntimeStates
    /\ active \in BOOLEAN
    /\ live \in Configs
    /\ store \in Configs
    /\ draft \in CfgOrNone
    /\ disk \in Configs
    /\ routes \in CfgOrNone
    /\ fw \in CfgOrNone
    /\ dns \in HashOrNone
    /\ expected \in HashOrNone
    /\ actual \in HashOrNone
    /\ probe \in ProbeType
    /\ timers \in SUBSET {"usr1", "hash", "retry"}
    /\ tests \in BOOLEAN
    /\ loop \in LoopStates
    /\ boot \in BootType
    /\ op \in OpType
    /\ hup \in HupType
    /\ lease \in BOOLEAN
    /\ switching \in BOOLEAN
    /\ left \in Nat

(* Who can be where: an actor is out only if its environment sends it, an  *)
(* operation is at a step of its own kind and carries a configuration, the *)
(* lease is taken exactly while a transaction is out, and without early    *)
(* users neither is out during startup.                                    *)
ActorInv ==
    /\ op.at # "idle" => op.kind \in Requests
    /\ op.at \in {"prepare", "reconcile", "decide", "write", "commit"} => op.kind = "apply"
    /\ op.at \in {"teardown", "setup", "fallback"} => op.kind # "apply"
    /\ op.at # "idle" /\ op.kind = "apply" => op.cfg \in Configs
    /\ op.at = "markBroken" => ~op.ok
    /\ hup.at # "idle" => "HUP" \in Signals
    /\ hup.at = "apply" => hup.cfg \in Configs
    /\ lease <=> hup.at # "idle"
    /\ "usr1" \in timers => "USR1" \in Signals
    /\ switching => "urltest" \in Signals
    /\ ~Early /\ Booting => op.at = "idle" /\ hup.at = "idle"

(* The steps at which the operation has put its configuration in place.    *)
Placed == {"decide", "reload", "verify", "finalize"}

(* The end of run(): executors are joined one after the other, and once    *)
(* the loop has stopped serving nobody gives dnsmasq a configuration.      *)
Ending == {"joinLifecycle", "joinRest", "cleanup", "done"}
EndInv ==
    /\ loop \in {"joinRest", "cleanup", "done"} => op.at = "idle"
    /\ loop \in {"cleanup", "done"} => WorkersIdle
    /\ loop \in Ending /\ "hook" \notin Faults => dns = NoHash
    /\ loop = "done" => fw = NoCfg /\ timers = {} /\ ~tests

(* The states from which "applying" is accepted, and the state after a     *)
(* failure has been reported.                                              *)
MayApply == {"running", "restart_required", "stopped", "broken"}
Breaks == phase' = IF phase = "shutting_down" THEN phase ELSE "broken"

(* Neither a transaction beside an operation nor users during startup.     *)
Quiet == ~Overlap /\ ~Early

(* The state machine against the actors.                                   *)
PhaseInv ==
    Quiet =>
    /\ Booting => phase \in {"starting", "shutting_down"} /\ active
    /\ phase = "starting" => Booting
    /\ loop \notin {"serving", "leaving"} => phase \notin {"starting", "running"}
    /\ loop \in Ending \cup {"deactivating"} =>
         \/ phase = "shutting_down"
         \/ /\ phase \in {"stopped", "broken"}
            /\ op.at \in {"fallback", "markBroken", "finish", "idle"}
            /\ loop # "deactivating"
    /\ phase = "running" /\ Reported => active
    /\ phase = "applying" => op.at \in Placed \cup {"setup", "markBroken"}
    /\ phase = "applying" /\ op.at = "setup" => ~active
    /\ op.at \in Placed => active
    /\ op.at = "fallback" => ~active
    /\ phase = "stopped" => ~active
    /\ Requests = {} /\ hup.at \in {"confirm", "commit"} /\ loop \in {"serving", "leaving"}
         => phase = "running"

(* The kernel against the state and the step of each actor.                *)
Serving == active /\ routes = live /\ fw = live
KernelInv ==
    Quiet /\ ~RefreshFails =>
    /\ loop = "serving" /\ Booting /\ boot.at # "begin" => routes = live
    /\ loop = "serving" /\ boot.at \in {"hook", "afterHook", "verify", "afterVerify"}
         => fw = live
    /\ phase = "running" /\ Reported => Serving
    /\ phase = "applying" /\ op.at \in Placed => Serving

(* dnsmasq against the state and the step of each actor.                   *)
ResolverInv ==
    /\ "apply" \notin Requests /\ "HUP" \notin Signals => expected \in {NoHash, Hash[live]}
    /\ Quiet =>
       /\ boot.at = "verify" => boot.expect = Hash[live]
       /\ boot.at = "afterVerify" /\ loop = "serving" => dns = Hash[live]
       /\ phase = "stopped" /\ op.at \notin {"fallback", "markBroken"} => dns = NoHash
       /\ "apply" \notin Requests =>
          /\ phase = "running" /\ Reported => dns = Hash[live]
          /\ op.at = "verify" => op.expect = Hash[live]
          /\ op.at = "finalize" /\ phase = "applying" => dns = Hash[live]

(* What an apply operation has done at the step it has reached.            *)
Applied == op.at \in Placed \cup {"write", "commit"} \/ (op.at = "finish" /\ op.ok)
ApplyInv ==
    ~Overlap /\ op.kind = "apply" =>
    /\ Applied => live = op.cfg
    /\ Applied /\ ~RefreshFails /\ ~StartupFails => routes = op.cfg /\ fw = op.cfg
    /\ op.at = "commit" => disk = op.cfg
    /\ op.at = "finish" /\ op.ok => disk = op.cfg /\ store = op.cfg

(* What a SIGHUP transaction has done when it comes to its commit.         *)
CommitInv ==
    Requests = {} /\ ~Early /\ ~FailsBetween =>
      (hup.at \in {"confirm", "commit"} => fw = live)

Inv ==
    /\ TypeInv
    /\ ActorInv
    /\ EndInv
    /\ PhaseInv
    /\ KernelInv
    /\ ResolverInv
    /\ ApplyInv
    /\ CommitInv

-------------------------------------------------------------------------------
(* The moves the state machine accepts, and the state after one whose       *)
(* refusal is ignored.                                                     *)
LEMMA Moves ==
    ASSUME NEW p \in RuntimeStates
    PROVE  /\ MayMove(p, "applying") <=> p \in MayApply
           /\ MayMove(p, "running") <=> p \in {"starting", "applying"}
           /\ MayMove(p, "stopped") <=> p # "stopped"
           /\ MayMove(p, "shutting_down") <=> p \notin {"applying", "shutting_down"}
           /\ Moved(p, "applying") = IF MayMove(p, "applying") THEN "applying" ELSE p
           /\ Moved(p, "running") = IF MayMove(p, "running") THEN "running" ELSE p
           /\ Moved(p, "broken") = IF p = "shutting_down" THEN p ELSE "broken"
           /\ Moved(p, "stopped") = "stopped"
           /\ Moved(p, "shutting_down") = IF p = "applying" THEN p ELSE "shutting_down"
  BY DEF Moved, MayMove, Successors, RuntimeStates, MayApply

(* The same for the state the runtime is in.                               *)
LEMMA PhaseMoves ==
    ASSUME TypeInv
    PROVE  /\ MayMove(phase, "applying") <=> phase \in MayApply
           /\ MayMove(phase, "running") <=> phase \in {"starting", "applying"}
           /\ MayMove(phase, "stopped") <=> phase # "stopped"
           /\ MayMove(phase, "shutting_down") <=> phase \notin {"applying", "shutting_down"}
           /\ Moved(phase, "applying") = IF MayMove(phase, "applying") THEN "applying" ELSE phase
           /\ Moved(phase, "running") = IF MayMove(phase, "running") THEN "running" ELSE phase
           /\ Moved(phase, "broken") = IF phase = "shutting_down" THEN phase ELSE "broken"
           /\ Moved(phase, "stopped") = "stopped"
           /\ Moved(phase, "shutting_down") =
                IF phase = "applying" THEN phase ELSE "shutting_down"
  BY Moves DEF TypeInv

(* The environment is fixed, and with it every condition on it.            *)
LEMMA SameEnvironment ==
    ASSUME env' = env
    PROVE  /\ Requests' = Requests /\ Signals' = Signals /\ Early' = Early /\ Faults' = Faults
           /\ Overlap' = Overlap /\ RefreshFails' = RefreshFails /\ Quiet' = Quiet
           /\ StartupFails' = StartupFails /\ FailsBetween' = FailsBetween
  BY Zenon DEF Requests, Signals, Early, Faults, Overlap, RefreshFails, Quiet,
     StartupFails, FailsBetween

(* What each part of the invariant depends on: a step that changes none of *)
(* it keeps that part.                                                     *)
LEMMA ActorFrame ==
    ASSUME ActorInv,
           env' = env, op' = op, hup' = hup, lease' = lease, timers' = timers,
           switching' = switching, boot' = boot
    PROVE  ActorInv'
  BY SameEnvironment DEF ActorInv, Booting

(* The end of run() depends on these alone.                                *)
LEMMA EndFrame ==
    ASSUME EndInv,
           env' = env, loop' = loop, op' = op, boot' = boot, hup' = hup,
           probe' = probe, dns' = dns, fw' = fw, timers' = timers, tests' = tests
    PROVE  EndInv'
  BY SameEnvironment DEF EndInv, Ending, WorkersIdle

(* The state machine against the actors.                                   *)
LEMMA PhaseFrame ==
    ASSUME PhaseInv,
           env' = env, boot' = boot, phase' = phase, active' = active, loop' = loop,
           op' = op, hup' = hup
    PROVE  PhaseInv'
  BY SameEnvironment, Zenon DEF PhaseInv, Booting, Reported, Placed, Ending

(* The kernel.                                                             *)
LEMMA KernelFrame ==
    ASSUME KernelInv,
           env' = env, loop' = loop, boot' = boot, routes' = routes, fw' = fw,
           live' = live, phase' = phase, op' = op, active' = active
    PROVE  KernelInv'
  BY SameEnvironment, Zenon DEF KernelInv, Booting, Reported, Placed, Serving, Ending

(* dnsmasq.                                                                *)
LEMMA ResolverFrame ==
    ASSUME ResolverInv,
           env' = env, expected' = expected, live' = live, boot' = boot, dns' = dns,
           loop' = loop, phase' = phase, op' = op
    PROVE  ResolverInv'
  BY SameEnvironment DEF ResolverInv, Reported

(* What an apply operation has done.                                       *)
LEMMA ApplyFrame ==
    ASSUME ApplyInv,
           env' = env, op' = op, live' = live, routes' = routes, fw' = fw,
           disk' = disk, store' = store
    PROVE  ApplyInv'
  BY SameEnvironment, Zenon DEF ApplyInv, Applied, Placed

(* What a transaction has done.                                            *)
LEMMA CommitFrame ==
    ASSUME CommitInv,
           env' = env, hup' = hup, fw' = fw, live' = live
    PROVE  CommitInv'
  BY SameEnvironment DEF CommitInv

(* The operation, the pipeline or the transaction after a step that takes  *)
(* it to "at".                                                             *)
OpGoes(at, ok, expect) ==
    /\ op' \in OpType
    /\ op'.at = at /\ op'.ok = ok /\ op'.expect = expect
    /\ op'.kind = op.kind /\ op'.cfg = op.cfg
BootGoes(at) ==
    /\ boot' \in BootType
    /\ boot'.at = at /\ boot'.expect = boot.expect /\ boot'.monitor = boot.monitor
HupGoes(at, cfg, expect) ==
    /\ hup' \in HupType
    /\ hup'.at = at /\ hup'.cfg = cfg /\ hup'.expect = expect

(* The operation goes on to its next step.                                 *)
LEMMA OpMovesGoes ==
    ASSUME TypeInv, NEW at \in OpStates, OpMoves(at)
    PROVE  OpGoes(at, op.ok, op.expect)
  BY Zenon DEF TypeInv, OpMoves, OpGoes, OpType, LoopActive

(* The operation fails.                                                    *)
LEMMA OpFailsGoes ==
    ASSUME TypeInv, NEW at \in OpStates, OpFails(at)
    PROVE  OpGoes(at, FALSE, op.expect)
  BY Zenon DEF TypeInv, OpFails, OpGoes, OpType, LoopActive

(* The operation goes on to verify a hash.                                 *)
LEMMA OpVerifiesGoes ==
    ASSUME TypeInv, NEW h \in HashOrNone, OpVerifies(h)
    PROVE  OpGoes("verify", op.ok, h)
  BY Zenon DEF TypeInv, OpVerifies, OpGoes, OpType, OpStates

(* Startup goes on.                                                        *)
LEMMA BootMovesGoes ==
    ASSUME TypeInv, NEW at \in BootStates, BootMoves(at)
    PROVE  BootGoes(at)
  BY DEF TypeInv, BootMoves, BootGoes, BootType

(* Startup posts its next step to the loop, which may refuse it.           *)
LEMMA PostedGoes ==
    ASSUME TypeInv, NEW at \in BootStates, Posted(at)
    PROVE  BootGoes(IF Accepting THEN at ELSE "dropped")
  BY DEF TypeInv, Posted, BootGoes, BootType, BootStates

(* The transaction ends: its lease is given back by the loop, or never.    *)
LEMMA HupEndsGoes ==
    ASSUME TypeInv, NEW ok \in BOOLEAN, HupEnds(ok)
    PROVE  HupGoes(IF Accepting THEN "release" ELSE "gone", hup.cfg, hup.expect)
<1>1. Accepting \in BOOLEAN
  BY DEF Accepting
<1>2. hup' \in HupType
  BY <1>1, Zenon DEF TypeInv, HupEnds, HupStates, HupType
<1> QED
  BY <1>2 DEF TypeInv, HupEnds, HupGoes, HupType

(* Without an overlap only one of the operation and the transaction is     *)
(* ever out.                                                               *)
LEMMA Alone ==
    ASSUME ActorInv, ~Overlap
    PROVE  op.at = "idle" \/ hup.at = "idle"
  BY DEF ActorInv, Overlap

(* The kernel after a reconcile that succeeds, and after any when nothing  *)
(* fails.                                                                  *)
LEMMA KernelFacts ==
    ASSUME TypeInv, NEW c \in Configs, NEW k \in KernelResults(c)
    PROVE  /\ k.routes \in CfgOrNone /\ k.fw \in CfgOrNone /\ k.ok \in BOOLEAN
           /\ k.ok => k.routes = c /\ k.fw = c
           /\ Faults \cap {"routing", "firewall"} = {} => k.ok
           /\ "firewall" \notin Faults => k.fw \in {c, fw}
<1>1. \/ k = [routes |-> c, fw |-> c, ok |-> TRUE]
      \/ /\ "routing" \in Faults
         /\ \E r \in {routes, c} : k = [routes |-> r, fw |-> fw, ok |-> FALSE]
      \/ /\ "firewall" \in Faults
         /\ \E f \in {fw, c, NoCfg} : k = [routes |-> c, fw |-> f, ok |-> FALSE]
  BY Zenon DEF KernelResults
<1>2. /\ routes \in CfgOrNone /\ fw \in CfgOrNone /\ c \in CfgOrNone /\ NoCfg \in CfgOrNone
  BY Zenon DEF TypeInv, CfgOrNone
<1>3. CASE k = [routes |-> c, fw |-> c, ok |-> TRUE]
  BY <1>2, <1>3, Zenon
<1>4. ASSUME "routing" \in Faults, NEW r \in {routes, c},
             k = [routes |-> r, fw |-> fw, ok |-> FALSE]
      PROVE  /\ k.routes = r /\ k.fw = fw /\ k.ok = FALSE
  BY <1>4, Zenon
<1>5. ASSUME "firewall" \in Faults, NEW f \in {fw, c, NoCfg},
             k = [routes |-> c, fw |-> f, ok |-> FALSE]
      PROVE  /\ k.routes = c /\ k.fw = f /\ k.ok = FALSE
  BY <1>5, Zenon
<1> QED
  BY <1>1, <1>2, <1>3, <1>4, <1>5, Zenon

(* A probe that is asked for, and dnsmasq's hash as it was last seen.      *)
LEMMA CompletesProbe ==
    ASSUME TypeInv, ProbeResolver
    PROVE  /\ probe' \in ProbeType
           /\ actual' \in HashOrNone
<1>1. NewProbe \in ProbeType
  BY DEF NewProbe, ProbeType, ProbeStates, HashOrNone
<1> QED
  BY <1>1, Zenon DEF TypeInv, ProbeResolver, HashOrNone

(* The hash of config_ is a hash.                                          *)
LEMMA HashTyped ==
    ASSUME TypeInv
    PROVE  Hash[live] \in HashOrNone
  BY DaemonAssumption, Zenon DEF TypeInv, HashOrNone

(* Events are counted down.                                                *)
LEMMA LeftTyped ==
    ASSUME TypeInv, Event
    PROVE  left' \in Nat /\ env' = env
  BY DEF TypeInv, Event

(* The worker picks the operation up.                                      *)
LEMMA OpBeginKeeps ==
    ASSUME Inv, OpBegin
    PROVE  Inv'
<1>0. TypeInv /\ ActorInv /\ EndInv /\ PhaseInv /\ KernelInv /\ ResolverInv /\ ApplyInv
      /\ CommitInv
  BY Zenon DEF Inv
<1>1. /\ op.at = "begin"
      /\ OpGoes(FirstStep[op.kind], op.ok, op.expect)
      /\ op.kind = "apply" => FirstStep[op.kind] = "prepare"
      /\ op.kind = "start" => FirstStep[op.kind] = "setup"
      /\ op.kind \in {"stop", "restart"} => FirstStep[op.kind] = "teardown"
      /\ UNCHANGED <<env, phase, active, live, store, draft, disk, routes, fw, dns,
            expected, actual, probe, timers, tests, loop, boot, hup, lease, switching,
            left>>
  BY <1>0, OpMovesGoes DEF OpBegin, rtVars, otherThanOp, OpStates, ControlSteps,
     TypeInv, OpType, OpKinds, FirstStep
<1>2. TypeInv'
  BY <1>0, <1>1, Zenon DEF TypeInv, OpGoes
<1>3. ActorInv'
  BY <1>0, <1>1, SameEnvironment DEF ActorInv, Booting, OpGoes, OpType, OpKinds
<1>4. EndInv'
  BY <1>0, <1>1, SameEnvironment, Zenon DEF EndInv
<1>5. PhaseInv'
  BY <1>0, <1>1, SameEnvironment, Zenon DEF PhaseInv, ActorInv, Booting, Reported,
     Placed, OpGoes, OpType, OpKinds
<1>6. KernelInv'
  BY <1>0, <1>1, SameEnvironment, Zenon DEF KernelInv, Booting, Reported, Placed,
     Serving, OpGoes, TypeInv, OpType, OpKinds
<1>7. ResolverInv'
  BY <1>0, <1>1, SameEnvironment DEF ResolverInv, Reported, OpGoes, OpType, OpKinds
<1>8. ApplyInv'
  BY <1>1, Zenon DEF ApplyInv, Applied, Placed, OpGoes
<1>9. CommitInv'
  BY <1>0, <1>1, CommitFrame, Zenon
<1> QED
  BY <1>2, <1>3, <1>4, <1>5, <1>6, <1>7, <1>8, <1>9, Zenon DEF Inv

(* The apply is prepared; a failure ends it.                               *)
LEMMA OpPrepareKeeps ==
    ASSUME Inv, OpPrepare
    PROVE  Inv'
<1>0. TypeInv /\ ActorInv /\ EndInv /\ PhaseInv /\ KernelInv /\ ResolverInv /\ ApplyInv
      /\ CommitInv
  BY DEF Inv
<1>1. /\ op.at = "prepare"
      /\ OpGoes("reconcile", op.ok, op.expect) \/ OpGoes("finish", FALSE, op.expect)
      /\ UNCHANGED <<env, phase, active, live, store, draft, disk, routes, fw, dns,
            expected, actual, probe, timers, tests, loop, boot, hup, lease, switching,
            left>>
  BY <1>0, OpMovesGoes, OpFailsGoes, Zenon DEF OpPrepare, rtVars, otherThanOp, OpStates,
     ControlSteps
<1>2. TypeInv'
  BY <1>0, <1>1, Zenon DEF TypeInv, OpGoes
<1>3. ActorInv'
  BY <1>0, <1>1, SameEnvironment DEF ActorInv, Booting, OpGoes
<1>4. EndInv'
  BY <1>0, <1>1, SameEnvironment, Zenon DEF EndInv
<1>5. PhaseInv'
  BY <1>0, <1>1, SameEnvironment, Zenon DEF PhaseInv, Booting, Reported, Placed, OpGoes
<1>6. KernelInv'
  BY <1>0, <1>1, SameEnvironment, Zenon DEF KernelInv, Booting, Reported, Placed,
     Serving, OpGoes
<1>7. ResolverInv'
  BY <1>0, <1>1, SameEnvironment DEF ResolverInv, Reported, OpGoes
<1>8. ApplyInv'
  BY <1>1, Zenon DEF ApplyInv, Applied, Placed, OpGoes
<1>9. CommitInv'
  BY <1>0, <1>1, CommitFrame, Zenon
<1> QED
  BY <1>2, <1>3, <1>4, <1>5, <1>6, <1>7, <1>8, <1>9 DEF Inv

(* The kernel gets the configuration, or the operation goes on to mark the *)
(* runtime broken.                                                         *)
LEMMA OpReconcileKeeps ==
    ASSUME Inv, OpReconcile
    PROVE  Inv'
<1>0. TypeInv /\ ActorInv /\ EndInv /\ PhaseInv /\ KernelInv /\ ResolverInv /\ ApplyInv
      /\ CommitInv
  BY Zenon DEF Inv
<1>1. /\ op.at = "reconcile" /\ op.cfg \in Configs
      /\ live' = op.cfg /\ timers' \subseteq timers /\ tests' = FALSE
      /\ probe' \in ProbeType
      /\ routes' \in CfgOrNone /\ fw' \in CfgOrNone
      /\ phase' \in RuntimeStates /\ active' \in BOOLEAN /\ expected' \in HashOrNone
      /\ \/ /\ phase \in MayApply /\ phase' = "applying" /\ active' = TRUE
            /\ routes' = op.cfg /\ fw' = op.cfg /\ expected' = Hash[op.cfg]
            /\ OpGoes("decide", op.ok, op.expect)
         \/ /\ phase' = phase /\ expected' = expected
            /\ active' = active \/ (active' = TRUE /\ phase \notin MayApply)
            /\ OpGoes("markBroken", FALSE, op.expect)
      /\ UNCHANGED <<env, store, draft, disk, dns, actual, loop, boot, hup, lease,
            switching, left>>
  <2>1. op.cfg \in Configs /\ Hash[op.cfg] \in HashOrNone /\ active \in BOOLEAN
    BY DaemonAssumption, <1>0, Zenon DEF TypeInv, ActorInv, OpReconcile, HashOrNone
  <2>2. PICK k \in KernelResults(op.cfg) :
          /\ ReconcilePrepared(op.cfg, k)
          /\ IF ReconcileOk(k) THEN OpMoves("decide") ELSE OpFails("markBroken")
    BY Zenon DEF OpReconcile
  <2>3. /\ k.routes \in CfgOrNone /\ k.fw \in CfgOrNone /\ k.ok \in BOOLEAN
        /\ k.ok => k.routes = op.cfg /\ k.fw = op.cfg
    BY <2>1, KernelFacts, <1>0, Zenon
  <2>4. IF ReconcileOk(k) THEN OpGoes("decide", op.ok, op.expect)
                          ELSE OpGoes("markBroken", FALSE, op.expect)
    BY <2>2, OpMovesGoes, OpFailsGoes, <1>0, Zenon DEF OpStates, ControlSteps
  <2>5. probe' \in ProbeType
    BY <2>2, <1>0, Zenon DEF TypeInv, ReconcilePrepared, Outdated, ProbeType
  <2> QED
    BY <2>1, <2>2, <2>3, <2>4, <2>5, PhaseMoves, <1>0, Zenon DEF TypeInv, RuntimeStates,
       OpReconcile, ReconcilePrepared, ReconcileOk, otherThanOp
<1>2. TypeInv'
  BY <1>0, <1>1, Zenon DEF TypeInv, OpGoes
<1>3. ActorInv'
  BY <1>0, <1>1, SameEnvironment DEF ActorInv, Booting, OpGoes
<1>4. EndInv'
  BY <1>0, <1>1, SameEnvironment, Zenon DEF EndInv
<1>5. PhaseInv'
  BY <1>0, <1>1, SameEnvironment, Zenon DEF PhaseInv, MayApply, ActorInv, Quiet,
     Booting, Reported, Placed, OpGoes
<1>6. KernelInv'
  BY <1>0, <1>1, SameEnvironment, Zenon DEF KernelInv, ActorInv, Quiet, Booting,
     Reported, Placed, Serving, OpGoes
<1>7. ResolverInv'
  BY <1>0, <1>1, SameEnvironment, Zenon DEF ResolverInv, ActorInv, Quiet, Booting
<1>8. ApplyInv'
  BY <1>1, Zenon DEF ApplyInv, Applied, Placed, OpGoes
<1>9. CommitInv'
  BY <1>0, <1>1, SameEnvironment, Zenon DEF CommitInv, ActorInv
<1> QED
  BY <1>2, <1>3, <1>4, <1>5, <1>6, <1>7, <1>8, <1>9 DEF Inv

(* The reload is skipped or begun.                                         *)
LEMMA OpDecideKeeps ==
    ASSUME Inv, OpDecide
    PROVE  Inv'
<1>0. TypeInv /\ ActorInv /\ EndInv /\ PhaseInv /\ KernelInv /\ ResolverInv /\ ApplyInv
      /\ CommitInv
  BY DEF Inv
<1>1. /\ op.at = "decide"
      /\ OpGoes("finalize", op.ok, op.expect) \/ OpGoes("reload", op.ok, expected)
      /\ UNCHANGED <<env, phase, active, live, store, draft, disk, routes, fw, dns,
            expected, actual, probe, timers, tests, loop, boot, hup, lease, switching,
            left>>
  BY <1>0, OpMovesGoes, ZenonT(30) DEF OpDecide, rtVars, otherThanOp, OpStates, ControlSteps,
     TypeInv, OpType, OpGoes
<1>2. TypeInv'
  BY <1>0, <1>1, Zenon DEF TypeInv, OpGoes
<1>3. ActorInv'
  BY <1>0, <1>1, SameEnvironment DEF ActorInv, Booting, OpGoes
<1>4. EndInv'
  BY <1>0, <1>1, SameEnvironment, Zenon DEF EndInv
<1>5. PhaseInv'
  BY <1>0, <1>1, SameEnvironment, Zenon DEF PhaseInv, Booting, Placed, OpGoes
<1>6. KernelInv'
  BY <1>0, <1>1, SameEnvironment, Zenon DEF KernelInv, Booting, Reported, Placed,
     Serving
<1>7. ResolverInv'
  BY <1>0, <1>1, SameEnvironment, Zenon DEF ResolverInv, ActorInv, Quiet
<1>8. ApplyInv'
  BY <1>0, <1>1, SameEnvironment, Zenon DEF ApplyInv, Applied, Placed, OpGoes
<1>9. CommitInv'
  BY <1>0, <1>1, CommitFrame, Zenon
<1> QED
  BY <1>2, <1>3, <1>4, <1>5, <1>6, <1>7, <1>8, <1>9, Zenon DEF Inv

(* dnsmasq is reloaded.                                                    *)
LEMMA OpReloadKeeps ==
    ASSUME Inv, OpReload
    PROVE  Inv'
<1>0. TypeInv /\ ActorInv /\ EndInv /\ PhaseInv /\ KernelInv /\ ResolverInv /\ ApplyInv
      /\ CommitInv
  BY Zenon DEF Inv
<1>1. /\ op.at = "reload"
      /\ Served # NoHash => Served = expected /\ loop = "serving"
      /\ dns' \in HashOrNone /\ expected' \in HashOrNone
      /\ \/ /\ Served # NoHash /\ dns' = Served /\ expected' = Hash[live]
            /\ OpGoes("verify", op.ok, IF op.kind = "apply" THEN op.expect ELSE Hash[live])
         \/ /\ dns' \in {dns, Served} /\ expected' = expected
            /\ OpGoes("markBroken", FALSE, op.expect)
      /\ UNCHANGED <<env, phase, active, live, store, draft, disk, routes, fw, actual,
            probe, timers, tests, loop, boot, hup, lease, switching, left>>
  <2>1. Hash[live] \in HashOrNone /\ op.expect \in HashOrNone
    BY HashTyped, <1>0, Zenon DEF TypeInv, OpType
  <2>2. /\ Served # NoHash => Served = expected /\ loop = "serving"
        /\ Served \in HashOrNone
    BY <1>0, Zenon DEF TypeInv, Served, HashOrNone
  <2>3. CASE ReloadOk /\ OpVerifies(IF op.kind = "apply" THEN op.expect ELSE Hash[live])
    BY <2>1, <2>2, <2>3, OpVerifiesGoes, <1>0, Zenon DEF OpReload, ReloadOk, otherThanOp
  <2>4. CASE ReloadFailed /\ OpFails("markBroken")
    BY <2>2, <2>4, OpFailsGoes, <1>0, Zenon DEF TypeInv, OpReload, ReloadFailed,
       otherThanOp, OpStates, ControlSteps
  <2> QED
    BY <2>3, <2>4, Zenon DEF OpReload
<1>2. TypeInv'
  BY <1>0, <1>1, Zenon DEF TypeInv, OpGoes
<1>3. ActorInv'
  BY <1>0, <1>1, SameEnvironment DEF ActorInv, Booting, OpGoes
<1>4. EndInv'
  BY <1>0, <1>1, SameEnvironment, Zenon DEF EndInv, Ending
<1>5. PhaseInv'
  BY <1>0, <1>1, SameEnvironment, Zenon DEF PhaseInv, Booting, Placed, OpGoes
<1>6. KernelInv'
  BY <1>0, <1>1, SameEnvironment, ZenonT(30) DEF KernelInv, Booting, Reported, Placed,
     Serving
<1>7. ResolverInv'
  BY <1>0, <1>1, SameEnvironment DEF ResolverInv, PhaseInv, ActorInv, Quiet, Overlap,
     Booting, Reported, Placed, OpGoes
<1>8. ApplyInv'
  BY <1>0, <1>1, SameEnvironment, Zenon DEF ApplyInv, Applied, Placed, OpGoes
<1>9. CommitInv'
  BY <1>0, <1>1, CommitFrame, Zenon
<1> QED
  BY <1>2, <1>3, <1>4, <1>5, <1>6, <1>7, <1>8, <1>9, Zenon DEF Inv

(* dnsmasq serves the hash, or the operation fails.                        *)
LEMMA OpVerifyKeeps ==
    ASSUME Inv, OpVerify
    PROVE  Inv'
<1>0. TypeInv /\ ActorInv /\ EndInv /\ PhaseInv /\ KernelInv /\ ResolverInv /\ ApplyInv
      /\ CommitInv
  BY Zenon DEF Inv
<1>1. /\ op.at = "verify"
      /\ \/ dns = op.expect /\ OpGoes("finalize", op.ok, op.expect)
         \/ OpGoes("markBroken", FALSE, op.expect)
      /\ UNCHANGED <<env, phase, active, live, store, draft, disk, routes, fw, dns,
            expected, actual, probe, timers, tests, loop, boot, hup, lease, switching,
            left>>
  BY <1>0, OpMovesGoes, OpFailsGoes, Zenon DEF OpVerify, rtVars, otherThanOp, OpStates,
     ControlSteps, Confirmed
<1>2. TypeInv'
  BY <1>0, <1>1, Zenon DEF TypeInv, OpGoes
<1>3. ActorInv'
  BY <1>0, <1>1, SameEnvironment DEF ActorInv, Booting, OpGoes
<1>4. EndInv'
  BY <1>0, <1>1, SameEnvironment, Zenon DEF EndInv
<1>5. PhaseInv'
  BY <1>0, <1>1, SameEnvironment, Zenon DEF PhaseInv, Booting, Placed, OpGoes
<1>6. KernelInv'
  BY <1>0, <1>1, SameEnvironment, Zenon DEF KernelInv, Booting, Reported, Placed,
     Serving
<1>7. ResolverInv'
  BY <1>0, <1>1, SameEnvironment DEF ResolverInv, Reported, OpGoes
<1>8. ApplyInv'
  BY <1>0, <1>1, SameEnvironment, Zenon DEF ApplyInv, Applied, Placed, OpGoes
<1>9. CommitInv'
  BY <1>0, <1>1, CommitFrame, Zenon
<1> QED
  BY <1>2, <1>3, <1>4, <1>5, <1>6, <1>7, <1>8, <1>9, Zenon DEF Inv

(* The state machine is asked for "running".                               *)
LEMMA OpFinalizeKeeps ==
    ASSUME Inv, OpFinalize
    PROVE  Inv'
<1>0. TypeInv /\ ActorInv /\ EndInv /\ PhaseInv /\ KernelInv /\ ResolverInv /\ ApplyInv
      /\ CommitInv
  BY Zenon DEF Inv
<1>1. /\ op.at = "finalize" /\ Runs(op)
      /\ probe' \in ProbeType
      /\ actual' \in HashOrNone /\ tests' = TRUE /\ phase' \in RuntimeStates
      /\ \/ /\ phase \in {"starting", "applying"} /\ phase' = "running"
            /\ OpGoes(IF op.kind = "apply" THEN "write" ELSE "finish", op.ok, op.expect)
         \/ /\ phase \notin {"starting", "applying"} /\ phase' = phase
            /\ OpGoes("markBroken", FALSE, op.expect)
      /\ UNCHANGED <<env, active, live, store, draft, disk, routes, fw, dns, expected,
            timers, loop, boot, hup, lease, switching, left>>
  <2>1. /\ CompleteOk =>
             OpGoes(IF op.kind = "apply" THEN "write" ELSE "finish", op.ok, op.expect)
        /\ ~CompleteOk => OpGoes("markBroken", FALSE, op.expect)
    BY OpMovesGoes, OpFailsGoes, <1>0, Zenon DEF OpFinalize, OpStates, ControlSteps
  <2>2. /\ probe' \in ProbeType
        /\ actual' \in HashOrNone /\ timers' = timers
    BY CompletesProbe, <1>0, Zenon DEF OpFinalize, CompleteRunning
  <2> QED
    BY <2>1, <2>2, PhaseMoves, <1>0, Zenon DEF TypeInv, RuntimeStates, OpFinalize,
       CompleteRunning, CompleteOk, otherThanOp
<1>2. TypeInv'
  BY <1>0, <1>1 DEF TypeInv, OpGoes
<1>3. ActorInv'
  BY <1>0, <1>1, SameEnvironment DEF ActorInv, Booting, OpGoes
<1>4. EndInv'
  BY <1>0, <1>1, SameEnvironment, ZenonT(30) DEF EndInv
<1>5. PhaseInv'
  BY <1>0, <1>1, SameEnvironment DEF PhaseInv, ActorInv, Quiet, Booting, Placed, Ending,
     OpGoes, Runs, LoopActive, TypeInv, LoopStates, OpType, ProbeType
<1>6. KernelInv'
  BY <1>0, <1>1, SameEnvironment, Zenon DEF KernelInv, PhaseInv, ActorInv, Quiet,
     Booting, Reported, Serving
<1>7. ResolverInv'
  BY <1>0, <1>1, SameEnvironment, Zenon DEF ResolverInv, PhaseInv, ActorInv, Quiet,
     Booting, Reported, OpGoes
<1>8. ApplyInv'
  BY <1>0, <1>1, SameEnvironment, Zenon DEF ApplyInv, Applied, Placed, OpGoes
<1>9. CommitInv'
  BY <1>0, <1>1, CommitFrame, Zenon
<1> QED
  BY <1>2, <1>3, <1>4, <1>5, <1>6, <1>7, <1>8, <1>9, Zenon DEF Inv

(* The file is written.                                                    *)
LEMMA OpWriteKeeps ==
    ASSUME Inv, OpWrite
    PROVE  Inv'
<1>0. TypeInv /\ ActorInv /\ EndInv /\ PhaseInv /\ KernelInv /\ ResolverInv /\ ApplyInv
      /\ CommitInv
  BY Zenon DEF Inv
<1>1. /\ op.at = "write" /\ op.cfg \in Configs
      /\ \/ disk' = op.cfg /\ OpGoes("commit", op.ok, op.expect)
         \/ disk' \in {disk, op.cfg} /\ OpGoes("finish", FALSE, op.expect)
      /\ UNCHANGED <<env, phase, active, live, store, draft, routes, fw, dns, expected,
            actual, probe, timers, tests, loop, boot, hup, lease, switching, left>>
  BY <1>0, OpMovesGoes, OpFailsGoes, Zenon DEF OpWrite, rtVars, OpStates, ControlSteps,
     ActorInv
<1>2. TypeInv'
  BY <1>0, <1>1 DEF TypeInv, OpGoes
<1>3. ActorInv'
  BY <1>0, <1>1, SameEnvironment DEF ActorInv, Booting, OpGoes
<1>4. EndInv'
  BY <1>0, <1>1, SameEnvironment, Zenon DEF EndInv
<1>5. PhaseInv'
  BY <1>0, <1>1, SameEnvironment, Zenon DEF PhaseInv, Booting, Reported, Placed, OpGoes
<1>6. KernelInv'
  BY <1>0, <1>1, SameEnvironment, Zenon DEF KernelInv, Booting, Reported, Placed,
     Serving, OpGoes
<1>7. ResolverInv'
  BY <1>0, <1>1, SameEnvironment DEF ResolverInv, PhaseInv, ActorInv, Overlap, Booting,
     Placed, Ending
<1>8. ApplyInv'
  BY <1>0, <1>1, SameEnvironment, Zenon DEF ApplyInv, Applied, OpGoes
<1>9. CommitInv'
  BY <1>0, <1>1, CommitFrame, Zenon
<1> QED
  BY <1>2, <1>3, <1>4, <1>5, <1>6, <1>7, <1>8, <1>9, Zenon DEF Inv

(* The snapshot is replaced and the draft cleared.                         *)
LEMMA OpCommitKeeps ==
    ASSUME Inv, OpCommit
    PROVE  Inv'
<1>0. TypeInv /\ ActorInv /\ EndInv /\ PhaseInv /\ KernelInv /\ ResolverInv /\ ApplyInv
      /\ CommitInv
  BY Zenon DEF Inv
<1>1. /\ op.at = "commit"
      /\ store' = live /\ store' \in Configs /\ draft' \in CfgOrNone
      /\ OpGoes("finish", op.ok, op.expect)
      /\ UNCHANGED <<env, phase, active, live, disk, routes, fw, dns, expected, actual,
            probe, timers, tests, loop, boot, hup, lease, switching, left>>
  BY <1>0, OpMovesGoes, Zenon DEF OpCommit, rtVars, OpStates, TypeInv, CfgOrNone
<1>2. TypeInv'
  BY <1>0, <1>1, Zenon DEF TypeInv, OpGoes
<1>3. ActorInv'
  BY <1>0, <1>1, SameEnvironment DEF ActorInv, Booting, OpGoes
<1>4. EndInv'
  BY <1>0, <1>1, SameEnvironment, Zenon DEF EndInv
<1>5. PhaseInv'
  BY <1>0, <1>1, SameEnvironment, Zenon DEF PhaseInv, Booting, Reported, Placed, Ending,
     OpGoes, OpType
<1>6. KernelInv'
  BY <1>0, <1>1, SameEnvironment, Zenon DEF KernelInv, Booting, Reported, Placed,
     Serving, OpGoes
<1>7. ResolverInv'
  BY <1>0, <1>1, SameEnvironment, Zenon DEF ResolverInv, Quiet, Reported, OpGoes
<1>8. ApplyInv'
  BY <1>0, <1>1, SameEnvironment, Zenon DEF ApplyInv, Applied, OpGoes
<1>9. CommitInv'
  BY <1>0, <1>1, CommitFrame, Zenon
<1> QED
  BY <1>2, <1>3, <1>4, <1>5, <1>6, <1>7, <1>8, <1>9, Zenon DEF Inv

(* The runtime is taken down, for a stop or a restart.                     *)
LEMMA OpTeardownKeeps ==
    ASSUME Inv, OpTeardown
    PROVE  Inv'
<1>0. TypeInv /\ ActorInv /\ EndInv /\ PhaseInv /\ KernelInv /\ ResolverInv /\ ApplyInv
      /\ CommitInv
  BY DEF Inv
<1>1. /\ op.at = "teardown" /\ Runs(op)
      /\ active' = FALSE /\ fw' \in CfgOrNone /\ phase' \in RuntimeStates
      /\ ~active => fw' = fw /\ phase' = phase
      /\ probe' \in ProbeType /\ tests' \in BOOLEAN
      /\ \/ /\ op.kind = "stop" /\ (active => phase' = "stopped")
            /\ OpGoes("fallback", op.ok, op.expect)
         \/ /\ op.kind = "stop" /\ active /\ phase = "stopped" /\ phase' = phase
            /\ OpGoes("markBroken", FALSE, op.expect)
         \/ /\ op.kind # "stop"
            /\ active => phase \in MayApply /\ phase' = "applying"
            /\ OpGoes("setup", op.ok, op.expect)
         \/ /\ op.kind # "stop" /\ active /\ phase' = phase
            /\ OpGoes("markBroken", FALSE, op.expect)
      /\ UNCHANGED <<env, live, store, draft, disk, routes, dns, expected, actual,
            timers, loop, boot, hup, lease, switching, left>>
  <2>1. /\ TeardownOk(op.kind = "stop") =>
             OpGoes(IF op.kind = "stop" THEN "fallback" ELSE "setup", op.ok, op.expect)
        /\ ~TeardownOk(op.kind = "stop") => OpGoes("markBroken", FALSE, op.expect)
    BY OpMovesGoes, OpFailsGoes, <1>0, Zenon DEF OpTeardown, OpStates, ControlSteps
  <2>2. active \in BOOLEAN /\ tests \in BOOLEAN /\ phase \in RuntimeStates /\ fw \in CfgOrNone
        /\ NoCfg \in CfgOrNone /\ "stopped" \in RuntimeStates /\ "applying" \in RuntimeStates
    BY <1>0, Zenon DEF TypeInv, CfgOrNone, RuntimeStates
  <2>3. probe' \in ProbeType
    BY <1>0, Zenon DEF TypeInv, OpTeardown, Teardown, Outdated, ProbeType, rtVars
  <2> QED
    BY <2>1, <2>2, <2>3, PhaseMoves, <1>0, Zenon DEF OpTeardown, Teardown, TeardownOk,
       TeardownTarget, rtVars, otherThanOp
<1>2. TypeInv'
  BY <1>0, <1>1, Zenon DEF TypeInv, OpGoes
<1>3. ActorInv'
  BY <1>0, <1>1, SameEnvironment DEF ActorInv, Booting, OpGoes
<1>4. EndInv'
  BY <1>0, <1>1, SameEnvironment, Zenon DEF EndInv
<1>5. PhaseInv'
  <2>1. CASE ~active
    BY <1>0, <1>1, <2>1, SameEnvironment, SMTT(20) DEF PhaseInv, Quiet, Booting, Reported, Placed,
       OpGoes
  <2>2. CASE active
    BY <1>0, <1>1, SameEnvironment DEF PhaseInv, MayApply, ActorInv, Quiet, Booting,
       Reported, Placed, Ending, OpGoes, Runs, LoopActive
  <2> QED
    BY <2>1, <2>2, ZenonT(30)
<1>6. KernelInv'
  BY <1>0, <1>1, SameEnvironment, Zenon DEF KernelInv, ActorInv, Quiet, Booting,
     Reported, Placed, Serving, OpGoes
<1>7. ResolverInv'
  BY <1>0, <1>1, SameEnvironment, Zenon DEF ResolverInv, Quiet, Overlap, Booting,
     Reported, Placed, Ending, OpGoes
<1>8. ApplyInv'
  BY <1>1, Zenon DEF ApplyInv, Applied, Placed, OpGoes
<1>9. CommitInv'
  BY <1>0, <1>1, SameEnvironment, Zenon DEF CommitInv, ActorInv
<1> QED
  BY <1>2, <1>3, <1>4, <1>5, <1>6, <1>7, <1>8, <1>9, Zenon DEF Inv

(* dnsmasq goes to its fallback.                                           *)
LEMMA OpFallbackKeeps ==
    ASSUME Inv, OpFallback
    PROVE  Inv'
<1>0. TypeInv /\ ActorInv /\ EndInv /\ PhaseInv /\ KernelInv /\ ResolverInv /\ ApplyInv
      /\ CommitInv
  BY DEF Inv
<1>1. /\ op.at = "fallback" /\ dns' \in HashOrNone
      /\ \/ dns' = NoHash /\ OpGoes("finish", op.ok, op.expect)
         \/ dns' \in {dns, NoHash} /\ OpGoes("markBroken", FALSE, op.expect)
      /\ UNCHANGED <<env, phase, active, live, store, draft, disk, routes, fw, expected,
            actual, probe, timers, tests, loop, boot, hup, lease, switching, left>>
  BY <1>0, OpMovesGoes, OpFailsGoes, Zenon DEF OpFallback, rtVars, otherThanOp,
     OpStates, ControlSteps, TypeInv, HashOrNone, Deactivated, DeactivateFailed
<1>2. TypeInv'
  BY <1>0, <1>1, ZenonT(30) DEF TypeInv, OpGoes
<1>3. ActorInv'
  BY <1>0, <1>1, SameEnvironment DEF ActorInv, Booting, OpGoes
<1>4. EndInv'
  BY <1>0, <1>1, SameEnvironment, Zenon DEF EndInv
<1>5. PhaseInv'
  BY <1>0, <1>1, SameEnvironment, Zenon DEF PhaseInv, Booting, Reported, Placed, OpGoes
<1>6. KernelInv'
  BY <1>0, <1>1, SameEnvironment, Zenon DEF KernelInv, Booting, Reported, Placed,
     Serving, OpGoes
<1>7. ResolverInv'
  BY <1>0, <1>1, SameEnvironment, Zenon DEF ResolverInv, PhaseInv, Quiet, Booting,
     Reported, OpGoes
<1>8. ApplyInv'
  BY <1>0, <1>1, Zenon DEF ApplyInv, ActorInv, OpGoes
<1>9. CommitInv'
  BY <1>0, <1>1, CommitFrame, Zenon
<1> QED
  BY <1>2, <1>3, <1>4, <1>5, <1>6, <1>7, <1>8, <1>9, Zenon DEF Inv

(* The runtime is set up from config_, unless it counts as active.         *)
LEMMA OpSetupKeeps ==
    ASSUME Inv, OpSetup
    PROVE  Inv'
<1>0. TypeInv /\ ActorInv /\ EndInv /\ PhaseInv /\ KernelInv /\ ResolverInv /\ ApplyInv
      /\ CommitInv
  BY Zenon DEF Inv
<1>1. /\ op.at = "setup"
      /\ routes' \in CfgOrNone /\ fw' \in CfgOrNone /\ active' \in BOOLEAN
      /\ phase' \in RuntimeStates /\ expected' \in HashOrNone
      /\ probe' \in ProbeType
      /\ \/ /\ active /\ UNCHANGED <<phase, active, routes, fw, expected, probe>>
            /\ OpGoes("reload", op.ok, op.expect)
         \/ /\ ~active /\ active' = TRUE /\ routes' = live /\ fw' = live /\ expected' = Hash[live]
            /\ phase \in MayApply \cup {"applying"} /\ phase' = "applying"
            /\ OpGoes("reload", op.ok, op.expect)
         \/ /\ ~active /\ phase' = phase /\ expected' = expected
            /\ active' => phase \notin MayApply \cup {"applying"}
            /\ OpGoes("markBroken", FALSE, op.expect)
      /\ UNCHANGED <<env, live, store, draft, disk, dns, actual, timers, tests, loop,
            boot, hup, lease, switching, left>>
  <2>1. live \in Configs /\ Hash[live] \in HashOrNone /\ active \in BOOLEAN
        /\ "applying" \in RuntimeStates
    BY DaemonAssumption, <1>0, Zenon DEF TypeInv, HashOrNone, RuntimeStates
  <2>2. PICK k \in KernelResults(live) :
          /\ Setup(k)
          /\ IF SetupOk(k) THEN OpMoves("reload") ELSE OpFails("markBroken")
    BY Zenon DEF OpSetup
  <2>3. /\ k.routes \in CfgOrNone /\ k.fw \in CfgOrNone /\ k.ok \in BOOLEAN
        /\ k.ok => k.routes = live /\ k.fw = live
    BY <2>1, KernelFacts, <1>0, Zenon
  <2>4. IF SetupOk(k) THEN OpGoes("reload", op.ok, op.expect)
                      ELSE OpGoes("markBroken", FALSE, op.expect)
    BY <2>2, OpMovesGoes, OpFailsGoes, <1>0, Zenon DEF OpStates, ControlSteps
  <2>5. probe' \in ProbeType
    BY <2>2, <1>0, Zenon DEF TypeInv, Setup, Outdated, ProbeType, rtVars
  <2>6. CASE active
    BY <2>4, <2>6, <1>0, Zenon DEF TypeInv, OpSetup, Setup, SetupOk, rtVars, otherThanOp
  <2>7. CASE ~active /\ k.ok
    BY <2>1, <2>2, <2>3, <2>4, <2>5, <2>7, PhaseMoves, <1>0, Zenon DEF TypeInv, OpSetup,
       Setup, SetupOk, otherThanOp
  <2>8. CASE ~active /\ ~k.ok
    BY <2>2, <2>3, <2>4, <2>5, <2>8, <1>0, Zenon DEF TypeInv, OpSetup, Setup, SetupOk,
       otherThanOp
  <2> QED
    BY <2>6, <2>7, <2>8, Zenon
<1>2. TypeInv'
  BY <1>0, <1>1, Zenon DEF TypeInv, OpGoes
<1>3. ActorInv'
  BY <1>0, <1>1, SameEnvironment DEF ActorInv, Booting, OpGoes
<1>4. EndInv'
  BY <1>0, <1>1, SameEnvironment, Zenon DEF EndInv
<1>5. PhaseInv'
  BY <1>0, <1>1, SameEnvironment, SMTT(20) DEF PhaseInv, MayApply, Quiet, Booting, Reported,
     Placed, OpGoes
<1>6. KernelInv'
  BY <1>0, <1>1, SameEnvironment DEF KernelInv, PhaseInv, Quiet, Booting, Reported,
     Placed, Serving, OpGoes
<1>7. ResolverInv'
  BY <1>0, <1>1, SameEnvironment, Zenon DEF ResolverInv, Quiet, Reported, Placed, OpGoes
<1>8. ApplyInv'
  BY <1>0, <1>1, Zenon DEF ApplyInv, ActorInv, OpGoes
<1>9. CommitInv'
  BY <1>0, <1>1, SameEnvironment, Zenon DEF CommitInv, ActorInv
<1> QED
  BY <1>2, <1>3, <1>4, <1>5, <1>6, <1>7, <1>8, <1>9, Zenon DEF Inv

(* The failure is reported.                                                *)
LEMMA OpMarkBrokenKeeps ==
    ASSUME Inv, OpMarkBroken
    PROVE  Inv'
<1>0. TypeInv /\ ActorInv /\ EndInv /\ PhaseInv /\ KernelInv /\ ResolverInv /\ ApplyInv
      /\ CommitInv
  BY Zenon DEF Inv
<1>1. /\ op.at = "markBroken"
      /\ Breaks
      /\ phase' \in RuntimeStates
      /\ OpGoes("finish", op.ok, op.expect)
      /\ UNCHANGED <<env, active, live, store, draft, disk, routes, fw, dns, expected,
            actual, probe, timers, tests, loop, boot, hup, lease, switching, left>>
  BY <1>0, OpMovesGoes, PhaseMoves, Zenon DEF OpMarkBroken, otherThanOp, OpStates,
     RuntimeStates, MarkBroken, Breaks
<1>2. TypeInv'
  BY <1>0, <1>1, ZenonT(30) DEF TypeInv, OpGoes
<1>3. ActorInv'
  BY <1>0, <1>1, SameEnvironment, ZenonT(30) DEF ActorInv, Booting, OpGoes
<1>4. EndInv'
  BY <1>0, <1>1, SameEnvironment, Zenon DEF EndInv
<1>5. PhaseInv'
  BY <1>0, <1>1, SameEnvironment, Zenon DEF PhaseInv, ActorInv, Quiet, Booting, Placed,
     OpGoes, Breaks
<1>6. KernelInv'
  BY <1>0, <1>1, SameEnvironment, Zenon DEF KernelInv, Booting, Breaks
<1>7. ResolverInv'
  BY <1>0, <1>1, SameEnvironment, Zenon DEF ResolverInv, Quiet, OpGoes, Breaks
<1>8. ApplyInv'
  BY <1>0, <1>1, Zenon DEF ApplyInv, ActorInv, Applied, Placed, OpGoes
<1>9. CommitInv'
  BY <1>0, <1>1, CommitFrame, Zenon
<1> QED
  BY <1>2, <1>3, <1>4, <1>5, <1>6, <1>7, <1>8, <1>9, Zenon DEF Inv

(* The result is published.                                                *)
LEMMA OpFinishKeeps ==
    ASSUME Inv, OpFinish
    PROVE  Inv'
<1>0. TypeInv /\ ActorInv /\ EndInv /\ PhaseInv /\ KernelInv /\ ResolverInv /\ ApplyInv
      /\ CommitInv
  BY DEF Inv
<1>1. /\ op.at = "finish"
      /\ OpGoes("idle", op.ok, op.expect)
      /\ UNCHANGED <<env, phase, active, live, store, draft, disk, routes, fw, dns,
            expected, actual, probe, timers, tests, loop, boot, hup, lease, switching,
            left>>
  BY <1>0, OpMovesGoes, Zenon DEF OpFinish, rtVars, otherThanOp, OpStates
<1>2. TypeInv'
  BY <1>0, <1>1, Zenon DEF TypeInv, OpGoes
<1>3. ActorInv'
  BY <1>0, <1>1, SameEnvironment DEF ActorInv, Booting, OpGoes
<1>4. EndInv'
  BY <1>0, <1>1, SameEnvironment, Zenon DEF EndInv
<1>5. PhaseInv'
  BY <1>0, <1>1, SameEnvironment, Zenon DEF PhaseInv, Booting, Reported, Placed, OpGoes
<1>6. KernelInv'
  BY <1>0, <1>1, SameEnvironment, Zenon DEF KernelInv, Booting, Reported, Placed,
     Serving, OpGoes
<1>7. ResolverInv'
  BY <1>0, <1>1, SameEnvironment, Zenon DEF ResolverInv, Quiet, Reported, Ending,
     OpGoes, OpType
<1>8. ApplyInv'
  BY <1>1, Zenon DEF ApplyInv, Applied, Placed, OpGoes
<1>9. CommitInv'
  BY <1>0, <1>1, CommitFrame, Zenon
<1> QED
  BY <1>2, <1>3, <1>4, <1>5, <1>6, <1>7, <1>8, <1>9, Zenon DEF Inv

(* Startup puts the routes in.                                             *)
LEMMA BeginStartupKeeps ==
    ASSUME Inv, BeginStartup
    PROVE  Inv'
<1>0. TypeInv /\ ActorInv /\ EndInv /\ PhaseInv /\ KernelInv /\ ResolverInv /\ ApplyInv
      /\ CommitInv
  BY DEF Inv
<1>1. /\ loop = "serving" /\ boot.at = "begin"
      /\ phase' \in RuntimeStates /\ routes' \in CfgOrNone
      /\ \/ /\ routes' = live /\ phase' = phase
            /\ BootGoes("lists")
         \/ /\ routes' = routes /\ Breaks
            /\ BootGoes("failed")
      /\ UNCHANGED <<env, active, live, store, draft, disk, fw, dns, expected, actual,
            probe, timers, tests, loop, op, hup, lease, switching, left>>
  BY <1>0, BootMovesGoes, PhaseMoves, Zenon DEF BeginStartup, otherThanBoot, BootStates,
     TypeInv, RuntimeStates, CfgOrNone, FailStartup, MarkBroken, Breaks
<1>2. TypeInv'
  BY <1>0, <1>1, Zenon DEF TypeInv, BootGoes
<1>3. ActorInv'
  BY <1>0, <1>1, SameEnvironment DEF ActorInv, Booting
<1>4. EndInv'
  BY <1>0, <1>1, SameEnvironment, Zenon DEF EndInv
<1>5. PhaseInv'
  BY <1>0, <1>1, SameEnvironment, Zenon DEF PhaseInv, Booting, BootGoes, Breaks
<1>6. KernelInv'
  BY <1>0, <1>1, SameEnvironment, Zenon DEF KernelInv, Booting, Reported, Serving,
     BootGoes, Breaks
<1>7. ResolverInv'
  BY <1>0, <1>1, SameEnvironment, Zenon DEF ResolverInv, Quiet, Reported, Placed,
     Ending, BootGoes, Breaks
<1>8. ApplyInv'
  BY <1>0, <1>1, SameEnvironment, Zenon DEF ApplyInv, Applied
<1>9. CommitInv'
  BY <1>0, <1>1, CommitFrame, Zenon
<1> QED
  BY <1>2, <1>3, <1>4, <1>5, <1>6, <1>7, <1>8, <1>9, Zenon DEF Inv

(* Startup downloads the lists.                                            *)
LEMMA BootListsKeeps ==
    ASSUME Inv, BootLists
    PROVE  Inv'
<1>0. TypeInv /\ ActorInv /\ EndInv /\ PhaseInv /\ KernelInv /\ ResolverInv /\ ApplyInv
      /\ CommitInv
  BY Zenon DEF Inv
<1>1. /\ boot.at = "lists"
      /\ BootGoes(IF Accepting THEN "afterLists" ELSE "dropped")
         \/ BootGoes(IF Accepting THEN "listsFailed" ELSE "dropped")
      /\ UNCHANGED <<env, phase, active, live, store, draft, disk, routes, fw, dns,
            expected, actual, probe, timers, tests, loop, op, hup, lease, switching,
            left>>
  BY <1>0, PostedGoes, Zenon DEF BootLists, rtVars, otherThanBoot, BootStates
<1>2. TypeInv'
  BY <1>0, <1>1, Zenon DEF TypeInv, BootGoes
<1>3. ActorInv'
  BY <1>0, <1>1, SameEnvironment DEF ActorInv, Booting
<1>4. EndInv'
  BY <1>0, <1>1, SameEnvironment, Zenon DEF EndInv, WorkersIdle
<1>5. PhaseInv'
  BY <1>0, <1>1, SameEnvironment, Zenon DEF PhaseInv, Booting, BootGoes, Accepting
<1>6. KernelInv'
  BY <1>0, <1>1, SameEnvironment, Zenon DEF KernelInv, Booting, Reported, Serving,
     BootGoes
<1>7. ResolverInv'
  BY <1>0, <1>1, SameEnvironment, Zenon DEF ResolverInv, ActorInv, Quiet, Booting,
     Reported, BootGoes, Accepting
<1>8. ApplyInv' /\ CommitInv'
  BY <1>0, <1>1, ApplyFrame, CommitFrame, Zenon
<1> QED
  BY <1>2, <1>3, <1>4, <1>5, <1>6, <1>7, <1>8, Zenon DEF Inv

(* Startup puts the firewall in.                                           *)
LEMMA ContinueStartupKeeps ==
    ASSUME Inv, ContinueStartup
    PROVE  Inv'
<1>0. TypeInv /\ ActorInv /\ EndInv /\ PhaseInv /\ KernelInv /\ ResolverInv /\ ApplyInv
      /\ CommitInv
  BY DEF Inv
<1>1. /\ loop = "serving" /\ boot.at \in {"afterLists", "listsFailed"}
      /\ phase' \in RuntimeStates /\ fw' \in CfgOrNone /\ expected' \in HashOrNone
      /\ \/ /\ boot.at = "afterLists" /\ fw' = live /\ expected' = Hash[live] /\ phase' = phase
            /\ BootGoes("hook")
         \/ /\ fw' = fw \/ "firewall" \in Faults
            /\ expected' = expected
            /\ Breaks
            /\ BootGoes("failed")
      /\ UNCHANGED <<env, active, live, store, draft, disk, routes, dns, actual, probe,
            timers, tests, loop, op, hup, lease, switching, left>>
  <2>1. /\ Hash[live] \in HashOrNone /\ NoCfg \in CfgOrNone /\ live \in CfgOrNone
        /\ "broken" \in RuntimeStates
    BY DaemonAssumption, <1>0, Zenon DEF TypeInv, CfgOrNone, HashOrNone, RuntimeStates
  <2> QED
    BY <2>1, BootMovesGoes, PhaseMoves, <1>0, Zenon DEF TypeInv, ContinueStartup,
       FailStartup, MarkBroken, Breaks, otherThanBoot, BootStates
<1>2. TypeInv'
  BY <1>0, <1>1, Zenon DEF TypeInv, BootGoes
<1>3. ActorInv'
  BY <1>0, <1>1, SameEnvironment DEF ActorInv, Booting
<1>4. EndInv'
  BY <1>0, <1>1, SameEnvironment, Zenon DEF EndInv
<1>5. PhaseInv'
  BY <1>0, <1>1, SameEnvironment, Zenon DEF PhaseInv, Booting, BootGoes, Breaks
<1>6. KernelInv'
  BY <1>0, <1>1, SameEnvironment, Zenon DEF KernelInv, Booting, Reported, Serving,
     BootGoes, Breaks
<1>7. ResolverInv'
  BY <1>0, <1>1, SameEnvironment, Zenon DEF ResolverInv, Quiet, Reported, BootGoes,
     Breaks
<1>8. ApplyInv'
  BY <1>0, <1>1, SameEnvironment, Zenon DEF ApplyInv, ActorInv, Applied, Placed,
     Booting, StartupFails
<1>9. CommitInv'
  BY <1>0, <1>1, SameEnvironment, Zenon DEF CommitInv, ActorInv, Booting
<1> QED
  BY <1>2, <1>3, <1>4, <1>5, <1>6, <1>7, <1>8, <1>9, Zenon DEF Inv

(* Startup reloads dnsmasq.                                                *)
LEMMA BootHookKeeps ==
    ASSUME Inv, BootHook
    PROVE  Inv'
<1>0. TypeInv /\ ActorInv /\ EndInv /\ PhaseInv /\ KernelInv /\ ResolverInv /\ ApplyInv
      /\ CommitInv
  BY Zenon DEF Inv
<1>1. /\ boot.at = "hook"
      /\ dns' \in HashOrNone /\ expected' \in {expected, Hash[live]}
      /\ loop # "serving" => dns' \in {dns, NoHash}
      /\ BootGoes(IF Accepting THEN "afterHook" ELSE "dropped")
         \/ BootGoes(IF Accepting THEN "hookFailed" ELSE "dropped")
      /\ UNCHANGED <<env, phase, active, live, store, draft, disk, routes, fw, actual,
            probe, timers, tests, loop, op, hup, lease, switching, left>>
  <2>1. /\ Served \in HashOrNone
        /\ loop # "serving" => Served = NoHash
    BY <1>0, Zenon DEF TypeInv, Served, HashOrNone
  <2> QED
    BY <2>1, PostedGoes, <1>0, Zenon DEF TypeInv, BootHook, ReloadOk, ReloadFailed,
       otherThanBoot, BootStates
<1>2. TypeInv'
  BY <1>0, <1>1, HashTyped DEF TypeInv, BootGoes
<1>3. ActorInv'
  BY <1>0, <1>1, SameEnvironment DEF ActorInv, Booting
<1>4. EndInv'
  BY <1>0, <1>1, SameEnvironment, Zenon DEF EndInv, Ending, WorkersIdle
<1>5. PhaseInv'
  BY <1>0, <1>1, SameEnvironment, Zenon DEF PhaseInv, Booting, BootGoes, Accepting
<1>6. KernelInv'
  BY <1>0, <1>1, SameEnvironment, Zenon DEF KernelInv, Booting, Reported, Serving
<1>7. ResolverInv'
  BY <1>0, <1>1, SameEnvironment, Zenon DEF ResolverInv, PhaseInv, Quiet, Booting,
     BootGoes
<1>8. ApplyInv' /\ CommitInv'
  BY <1>0, <1>1, ApplyFrame, CommitFrame, Zenon
<1> QED
  BY <1>2, <1>3, <1>4, <1>5, <1>6, <1>7, <1>8, Zenon DEF Inv

(* Startup asks for the verification.                                      *)
LEMMA FinishStartupKeeps ==
    ASSUME Inv, FinishStartup
    PROVE  Inv'
<1>0. TypeInv /\ ActorInv /\ EndInv /\ PhaseInv /\ KernelInv /\ ResolverInv /\ ApplyInv
      /\ CommitInv
  BY DEF Inv
<1>1. /\ loop = "serving" /\ boot.at \in {"afterHook", "hookFailed"}
      /\ phase' \in RuntimeStates /\ expected' \in HashOrNone
      /\ \/ /\ boot.at = "afterHook" /\ expected' = Hash[live] /\ phase' = phase
            /\ boot' \in BootType
            /\ boot'.at = "verify" /\ boot'.expect = Hash[live]
         \/ /\ expected' = expected
            /\ Breaks
            /\ BootGoes("failed")
      /\ UNCHANGED <<env, active, live, store, draft, disk, routes, fw, dns, actual,
            probe, timers, tests, loop, op, hup, lease, switching, left>>
  <2>1. CASE /\ boot.at = "afterHook"
             /\ expected' = Hash[live]
             /\ boot' = [at |-> "verify", expect |-> Hash[live], monitor |-> TRUE]
             /\ UNCHANGED <<phase, active, live, routes, fw, actual, probe, timers, tests>>
    BY <2>1, HashTyped, <1>0, Zenon DEF TypeInv, BootType, BootStates, FinishStartup,
       otherThanBoot
  <2>2. CASE boot.at = "hookFailed" /\ FailStartup
    BY <2>2, BootMovesGoes, PhaseMoves, <1>0, Zenon DEF TypeInv, RuntimeStates,
       BootStates, FinishStartup, FailStartup, MarkBroken, Breaks, otherThanBoot
  <2> QED
    BY <2>1, <2>2, Zenon DEF FinishStartup
<1>2. TypeInv'
  BY <1>0, <1>1, Zenon DEF TypeInv, BootGoes
<1>3. ActorInv'
  BY <1>0, <1>1, SameEnvironment DEF ActorInv, Booting, Breaks, BootType
<1>4. EndInv'
  BY <1>0, <1>1, SameEnvironment, Zenon DEF EndInv
<1>5. PhaseInv'
  BY <1>0, <1>1, SameEnvironment, Zenon DEF PhaseInv, MayApply, ActorInv, Quiet,
     Booting, BootGoes, Breaks
<1>6. KernelInv'
  BY <1>0, <1>1, SameEnvironment, Zenon DEF KernelInv, Booting, Reported, Serving,
     BootGoes, Breaks
<1>7. ResolverInv'
  BY <1>0, <1>1, SameEnvironment, Zenon DEF ResolverInv, Quiet, Reported, BootGoes,
     Breaks
<1>8. ApplyInv' /\ CommitInv'
  BY <1>0, <1>1, ApplyFrame, CommitFrame, Zenon
<1> QED
  BY <1>2, <1>3, <1>4, <1>5, <1>6, <1>7, <1>8, Zenon DEF Inv

(* Startup verifies dnsmasq.                                               *)
LEMMA BootVerifyKeeps ==
    ASSUME Inv, BootVerify
    PROVE  Inv'
<1>0. TypeInv /\ ActorInv /\ EndInv /\ PhaseInv /\ KernelInv /\ ResolverInv /\ ApplyInv
      /\ CommitInv
  BY DEF Inv
<1>1. /\ boot.at = "verify"
      /\ \/ dns = boot.expect /\ BootGoes(IF Accepting THEN "afterVerify" ELSE "dropped")
         \/ BootGoes(IF Accepting THEN "verifyFailed" ELSE "dropped")
      /\ UNCHANGED <<env, phase, active, live, store, draft, disk, routes, fw, dns,
            expected, actual, probe, timers, tests, loop, op, hup, lease, switching,
            left>>
  BY <1>0, PostedGoes, Zenon DEF BootVerify, rtVars, otherThanBoot, BootStates,
     Confirmed
<1>2. TypeInv'
  BY <1>0, <1>1, Zenon DEF TypeInv, BootGoes
<1>3. ActorInv'
  BY <1>0, <1>1, SameEnvironment DEF ActorInv, Booting
<1>4. EndInv'
  BY <1>0, <1>1, SameEnvironment, Zenon DEF EndInv, WorkersIdle
<1>5. PhaseInv'
  BY <1>0, <1>1, SameEnvironment, Zenon DEF PhaseInv, Booting, BootGoes, Accepting
<1>6. KernelInv'
  BY <1>0, <1>1, SameEnvironment, Zenon DEF KernelInv, Booting, Reported, Placed,
     Serving, Ending
<1>7. ResolverInv'
  BY <1>0, <1>1, SameEnvironment, Zenon DEF ResolverInv, ActorInv, Quiet, Booting,
     Reported, Ending, BootGoes, Breaks
<1>8. ApplyInv' /\ CommitInv'
  BY <1>0, <1>1, ApplyFrame, CommitFrame, Zenon
<1> QED
  BY <1>2, <1>3, <1>4, <1>5, <1>6, <1>7, <1>8, Zenon DEF Inv

(* Startup completes.                                                      *)
LEMMA CompleteStartupKeeps ==
    ASSUME Inv, CompleteStartup
    PROVE  Inv'
<1>0. TypeInv /\ ActorInv /\ EndInv /\ PhaseInv /\ KernelInv /\ ResolverInv /\ ApplyInv
      /\ CommitInv
  BY Zenon DEF Inv
<1>1. /\ loop = "serving" /\ boot.at \in {"afterVerify", "verifyFailed"}
      /\ phase' \in RuntimeStates
      /\ probe' \in ProbeType
      /\ actual' \in HashOrNone /\ tests' \in BOOLEAN
      /\ timers' \subseteq timers \cup {"hash"}
      /\ \/ /\ boot.at = "afterVerify" /\ phase \in {"starting", "applying"} /\ phase' = "running"
            /\ BootGoes("done")
         \/ /\ Breaks
            /\ BootGoes("failed")
      /\ UNCHANGED <<env, active, live, store, draft, disk, routes, fw, dns, expected,
            loop, op, hup, lease, switching, left>>
  <2>1. CASE boot.at = "afterVerify" /\ CompleteOk /\ CompleteRunning({"hash"}) /\ BootMoves("done")
    BY <2>1, BootMovesGoes, PhaseMoves, CompletesProbe, <1>0, Zenon DEF RuntimeStates,
       BootStates, CompleteStartup, CompleteOk, CompleteRunning, otherThanBoot
  <2>2. CASE /\ boot.at = "afterVerify"
             /\ ~CompleteOk
             /\ tests' = TRUE
             /\ ProbeResolver
             /\ phase' = Moved(phase, "broken")
             /\ BootMoves("failed")
             /\ UNCHANGED <<active, live, routes, fw, expected, timers>>
    BY <2>2, BootMovesGoes, PhaseMoves, CompletesProbe, <1>0, Zenon DEF RuntimeStates,
       BootStates, Breaks, CompleteStartup, otherThanBoot
  <2>3. CASE boot.at = "verifyFailed" /\ FailStartup
    BY <2>3, BootMovesGoes, PhaseMoves, <1>0, Zenon DEF TypeInv, RuntimeStates,
       BootStates, CompleteStartup, FailStartup, MarkBroken, Breaks, otherThanBoot
  <2> QED
    BY <2>1, <2>2, <2>3, Zenon DEF CompleteStartup
<1>2. TypeInv'
  BY <1>0, <1>1, Zenon DEF TypeInv, BootGoes
<1>3. ActorInv'
  BY <1>0, <1>1, SameEnvironment DEF ActorInv, Booting
<1>4. EndInv'
  BY <1>0, <1>1, SameEnvironment, Zenon DEF EndInv
<1>5. PhaseInv'
  BY <1>0, <1>1, SameEnvironment, Zenon DEF PhaseInv, Booting, BootGoes, Breaks,
     ProbeType
<1>6. KernelInv'
  BY <1>0, <1>1, SameEnvironment, Zenon DEF KernelInv, PhaseInv, Booting, Serving,
     BootGoes, Breaks
<1>7. ResolverInv'
  BY <1>0, <1>1, SameEnvironment, Zenon DEF ResolverInv, Quiet, BootGoes, Breaks
<1>8. ApplyInv' /\ CommitInv'
  BY <1>0, <1>1, ApplyFrame, CommitFrame, Zenon
<1> QED
  BY <1>2, <1>3, <1>4, <1>5, <1>6, <1>7, <1>8, Zenon DEF Inv

(* A SIGHUP takes the lease, or is skipped.                                *)
LEMMA HandleSighupKeeps ==
    ASSUME Inv, "HUP" \in Signals, Early \/ ~Booting, HandleSighup
    PROVE  Inv'
<1>0. TypeInv /\ ActorInv /\ EndInv /\ PhaseInv /\ KernelInv /\ ResolverInv /\ ApplyInv
      /\ CommitInv
  BY DEF Inv
<1>1. /\ loop = "serving"
      /\ left' \in Nat /\ lease' = TRUE
      /\ hup' \in HupType
      /\ \/ lease /\ hup' = hup
         \/ ~lease /\ hup'.at = "read"
      /\ UNCHANGED <<env, phase, active, live, store, draft, disk, routes, fw, dns,
            expected, actual, probe, timers, tests, loop, boot, op, switching>>
  <2>1. [at |-> "read", queued |-> FALSE, cfg |-> NoCfg, expect |-> NoHash,
         confirmed |-> FALSE, ok |-> FALSE]
          \in HupType
    BY DEF HupType, HupStates, CfgOrNone, HashOrNone
  <2>2. CASE lease
    BY <2>2, LeftTyped, <1>0, Zenon DEF TypeInv, HandleSighup, rtVars
  <2>3. CASE ~lease
    <3>1. hup' = [at |-> "read", queued |-> FALSE, cfg |-> NoCfg, expect |-> NoHash,
                  confirmed |-> FALSE, ok |-> FALSE]
      BY <2>3, Zenon DEF HandleSighup
    <3>2. hup'.at = "read"
      BY <3>1, Zenon
    <3> QED
      BY <2>1, <3>1, LeftTyped, <1>0, Zenon DEF HandleSighup, rtVars
  <2> QED
    BY <2>2, <2>3, Zenon
<1>2. TypeInv'
  BY <1>0, <1>1, Zenon DEF TypeInv
<1>3. ActorInv'
  BY <1>0, <1>1, SameEnvironment DEF ActorInv, Booting
<1>4. EndInv'
  BY <1>0, <1>1, SameEnvironment, Zenon DEF EndInv
<1>5. PhaseInv'
  BY <1>0, <1>1, SameEnvironment, Zenon DEF PhaseInv, Booting, Reported
<1>6. CommitInv'
  BY <1>0, <1>1, SameEnvironment, Zenon DEF CommitInv
<1>7. KernelInv' /\ ResolverInv' /\ ApplyInv'
  BY <1>0, <1>1, KernelFrame, ResolverFrame, ApplyFrame, Zenon
<1> QED
  BY <1>2, <1>3, <1>4, <1>5, <1>6, <1>7, Zenon DEF Inv

(* The transaction reads the file.                                         *)
LEMMA HupReadKeeps ==
    ASSUME Inv, HupRead
    PROVE  Inv'
<1>0. TypeInv /\ ActorInv /\ EndInv /\ PhaseInv /\ KernelInv /\ ResolverInv /\ ApplyInv
      /\ CommitInv
  BY Zenon DEF Inv
<1>1. /\ hup.at = "read" /\ disk \in Configs
      /\ HupGoes("apply", disk, hup.expect)
         \/ HupGoes(IF Accepting THEN "release" ELSE "gone", hup.cfg, hup.expect)
      /\ UNCHANGED <<env, phase, active, live, store, draft, disk, routes, fw, dns,
            expected, actual, probe, timers, tests, loop, boot, op, lease, switching,
            left>>
  <2>1. CASE hup' = [hup EXCEPT !.at = "apply", !.queued = LoopActive, !.cfg = disk]
    <3>1. LoopActive \in BOOLEAN
      BY DEF LoopActive
    <3>2. disk \in CfgOrNone
      BY <1>0, Zenon DEF TypeInv, CfgOrNone
    <3>3. HupGoes("apply", disk, hup.expect)
      BY <2>1, <3>1, <3>2, <1>0, Zenon DEF TypeInv, HupStates, HupType, HupGoes
    <3> QED
      BY <3>3, <1>0, Zenon DEF TypeInv, HupRead, rtVars, otherThanHup
  <2>2. CASE "prepare" \in Faults /\ HupEnds(FALSE)
    BY <2>2, HupEndsGoes, <1>0, Zenon DEF TypeInv, HupRead, rtVars, otherThanHup
  <2> QED
    BY <2>1, <2>2, Zenon DEF HupRead
<1>2. TypeInv'
  BY <1>0, <1>1, ZenonT(30) DEF TypeInv, HupGoes
<1>3. ActorInv'
  BY <1>0, <1>1, SameEnvironment DEF ActorInv, Booting, HupGoes
<1>4. EndInv'
  BY <1>0, <1>1, SameEnvironment, Zenon DEF EndInv, WorkersIdle
<1>5. PhaseInv'
  BY <1>0, <1>1, SameEnvironment, Zenon DEF PhaseInv, Booting, Reported, Placed, HupGoes
<1>6. CommitInv'
  BY <1>1, Zenon DEF CommitInv, HupGoes
<1>7. KernelInv' /\ ResolverInv' /\ ApplyInv'
  BY <1>0, <1>1, KernelFrame, ResolverFrame, ApplyFrame, Zenon
<1> QED
  BY <1>2, <1>3, <1>4, <1>5, <1>6, <1>7 DEF Inv

(* The hash is asked for once more.                                        *)
LEMMA HupConfirmKeeps ==
    ASSUME Inv, HupConfirm
    PROVE  Inv'
<1>0. TypeInv /\ ActorInv /\ EndInv /\ PhaseInv /\ KernelInv /\ ResolverInv /\ ApplyInv
      /\ CommitInv
  BY Zenon DEF Inv
<1>1. /\ hup.at = "confirm"
      /\ HupGoes(IF Accepting THEN "commit" ELSE "lost", hup.cfg, hup.expect)
      /\ UNCHANGED <<env, phase, active, live, store, draft, disk, routes, fw, dns,
            expected, actual, probe, timers, tests, loop, boot, op, lease, switching,
            left>>
  <2>1. Accepting \in BOOLEAN
    BY DEF Accepting
  <2>2. PICK ok \in BOOLEAN :
          hup' = [hup EXCEPT !.at = IF Accepting THEN "commit" ELSE "lost",
                             !.queued = Accepting, !.confirmed = ok]
    BY Zenon DEF HupConfirm
  <2>3. hup' \in HupType
    BY <2>1, <2>2, <1>0, Zenon DEF TypeInv, HupStates, HupType
  <2>4. HupGoes(IF Accepting THEN "commit" ELSE "lost", hup.cfg, hup.expect)
    BY <2>2, <2>3 DEF HupGoes
  <2> QED
    BY <2>4, Zenon DEF HupConfirm, rtVars, otherThanHup
<1>2. TypeInv'
  BY <1>0, <1>1, SameEnvironment, Zenon DEF TypeInv, HupGoes
<1>3. ActorInv'
  BY <1>0, <1>1, SameEnvironment DEF ActorInv, Booting, HupGoes
<1>4. EndInv'
  BY <1>0, <1>1, SameEnvironment, Zenon DEF EndInv, WorkersIdle
<1>5. PhaseInv'
  BY <1>0, <1>1, SameEnvironment, Zenon DEF PhaseInv, Quiet, Booting, Reported
<1>6. CommitInv'
  BY <1>0, <1>1, SameEnvironment, Zenon DEF CommitInv
<1>7. KernelInv' /\ ResolverInv' /\ ApplyInv'
  BY <1>0, <1>1, KernelFrame, ResolverFrame, ApplyFrame, Zenon
<1> QED
  BY <1>2, <1>3, <1>4, <1>5, <1>6, <1>7, Zenon DEF Inv

(* The snapshot is replaced if dnsmasq confirmed.                          *)
LEMMA HupCommitKeeps ==
    ASSUME Inv, HupCommit
    PROVE  Inv'
<1>0. TypeInv /\ ActorInv /\ EndInv /\ PhaseInv /\ KernelInv /\ ResolverInv /\ ApplyInv
      /\ CommitInv
  BY Zenon DEF Inv
<1>1. /\ hup.at = "commit" /\ loop = "serving"
      /\ phase' \in RuntimeStates
      /\ HupGoes(IF Accepting THEN "release" ELSE "gone", hup.cfg, hup.expect)
      /\ \/ store' = live /\ phase' = IF phase \in {"starting", "applying"} THEN "running" ELSE phase
         \/ store' = store /\ Breaks
      /\ UNCHANGED <<env, active, live, draft, disk, routes, fw, dns, expected, actual,
            probe, timers, tests, loop, boot, op, lease, switching, left>>
  <2>1. MayMove(phase, "running") \in BOOLEAN
    BY DEF MayMove
  <2> QED
    BY <2>1, HupEndsGoes, PhaseMoves, <1>0, Zenon DEF TypeInv, RuntimeStates, Breaks,
       HupCommit, otherThanHup
<1>2. TypeInv'
  BY <1>0, <1>1 DEF TypeInv, HupGoes
<1>3. ActorInv'
  BY <1>0, <1>1, SameEnvironment DEF ActorInv, Booting, HupGoes
<1>4. EndInv'
  BY <1>0, <1>1, SameEnvironment, Zenon DEF EndInv
<1>5. PhaseInv'
  BY <1>0, <1>1, SameEnvironment, Zenon DEF PhaseInv, ActorInv, Quiet, Booting,
     Reported, HupGoes, Breaks, Overlap
<1>6. KernelInv'
  BY <1>0, <1>1, SameEnvironment, Zenon DEF KernelInv, PhaseInv, ActorInv, Quiet,
     Reported, Serving, Overlap, HupType
<1>7. ResolverInv'
  BY <1>0, <1>1, SameEnvironment, Zenon DEF ResolverInv, PhaseInv, ActorInv, Quiet,
     Overlap, Reported, Breaks
<1>8. ApplyInv'
  BY <1>0, <1>1, SameEnvironment, Zenon DEF ApplyInv, ActorInv, Applied
<1>9. CommitInv'
  BY <1>0, <1>1, SameEnvironment, Zenon DEF CommitInv
<1> QED
  BY <1>2, <1>3, <1>4, <1>5, <1>6, <1>7, <1>8, <1>9, Zenon DEF Inv

(* The lease is given back.                                                *)
LEMMA HupReleaseKeeps ==
    ASSUME Inv, HupRelease
    PROVE  Inv'
<1>0. TypeInv /\ ActorInv /\ EndInv /\ PhaseInv /\ KernelInv /\ ResolverInv /\ ApplyInv
      /\ CommitInv
  BY Zenon DEF Inv
<1>1. /\ hup.at = "release"
      /\ lease' = FALSE
      /\ HupGoes("idle", hup.cfg, hup.expect)
      /\ UNCHANGED <<env, phase, active, live, store, draft, disk, routes, fw, dns,
            expected, actual, probe, timers, tests, loop, boot, op, switching, left>>
  BY <1>0, Zenon DEF HupRelease, rtVars, otherThanHup, HupStates, TypeInv, HupType,
     HupGoes
<1>2. TypeInv'
  BY <1>0, <1>1, Zenon DEF TypeInv, HupGoes
<1>3. ActorInv'
  BY <1>0, <1>1, SameEnvironment DEF ActorInv, Booting, HupGoes
<1>4. EndInv'
  BY <1>0, <1>1, SameEnvironment, Zenon DEF EndInv, WorkersIdle, HupGoes
<1>5. PhaseInv'
  BY <1>0, <1>1, SameEnvironment, Zenon DEF PhaseInv, Booting, Reported, HupGoes
<1>6. CommitInv'
  BY <1>1, Zenon DEF CommitInv, HupGoes
<1>7. KernelInv' /\ ResolverInv' /\ ApplyInv'
  BY <1>0, <1>1, KernelFrame, ResolverFrame, ApplyFrame, Zenon
<1> QED
  BY <1>2, <1>3, <1>4, <1>5, <1>6, <1>7, Zenon DEF Inv

(* The file is applied and confirmed, or the runtime is broken.            *)
LEMMA HupApplyKeeps ==
    ASSUME Inv, HupApply
    PROVE  Inv'
<1>0. TypeInv /\ ActorInv /\ EndInv /\ PhaseInv /\ KernelInv /\ ResolverInv /\ ApplyInv
      /\ CommitInv
  BY Zenon DEF Inv
<1>1. /\ hup.at = "apply" /\ Runs(hup) /\ hup.cfg \in Configs
      /\ live' = hup.cfg /\ timers' \subseteq timers /\ tests' \in BOOLEAN
      /\ phase' \in RuntimeStates /\ active' \in BOOLEAN
      /\ probe' \in ProbeType
      /\ routes' \in CfgOrNone /\ fw' \in CfgOrNone
      /\ dns' \in HashOrNone /\ expected' \in HashOrNone
      /\ active => active'
      /\ \/ /\ loop = "serving" /\ phase' = "running" /\ active' = TRUE
            /\ routes' = hup.cfg /\ fw' = hup.cfg /\ dns' = Hash[hup.cfg]
            /\ HupGoes("confirm", hup.cfg, Hash[hup.cfg])
         \/ /\ Breaks
            /\ loop # "serving" => dns' \in {dns, NoHash}
            /\ HupGoes(IF Accepting THEN "release" ELSE "gone", hup.cfg, hup.expect)
      /\ UNCHANGED <<env, store, draft, disk, actual, loop, boot, op, lease, switching,
            left>>
  <2>1. /\ hup.cfg \in Configs /\ hup.cfg \in CfgOrNone
        /\ Hash[hup.cfg] \in HashOrNone /\ NoHash \in HashOrNone
        /\ active \in BOOLEAN /\ phase \in RuntimeStates
        /\ "broken" \in RuntimeStates /\ "running" \in RuntimeStates /\ "applying" \in RuntimeStates
    BY DaemonAssumption, <1>0, Zenon DEF TypeInv, ActorInv, HupApply, CfgOrNone,
       HashOrNone, RuntimeStates
  <2>2. PICK k \in KernelResults(hup.cfg) :
          LET applied == ReconcileOk(k)
              before == IF k.ok THEN Moved(phase, "applying") ELSE phase IN
          /\ live' = hup.cfg
          /\ routes' = k.routes
          /\ fw' = k.fw
          /\ active' = (active \/ k.ok)
          /\ expected' = IF applied THEN Hash[hup.cfg] ELSE expected
          /\ timers' = timers \ {"hash", "retry"}
          /\ actual' = actual
          /\ \/ /\ applied
                /\ loop = "serving"
                /\ phase' = Moved(before, "running")
                /\ dns' = Hash[hup.cfg]
                /\ tests' = TRUE
                /\ probe' = IF probe.at = "none" THEN NewProbe ELSE Outdated(probe)
                /\ hup' = [hup EXCEPT !.at = "confirm", !.queued = FALSE, !.expect = Hash[hup.cfg]]
             \/ /\ ~applied \/ loop # "serving" \/ {"hook", "verify"} \cap Faults # {}
                /\ phase' = Moved(before, "broken")
                /\ \/ dns' = dns
                   \/ applied /\ dns' = IF loop = "serving" THEN Hash[hup.cfg] ELSE NoHash
                /\ tests' = FALSE
                /\ probe' = Outdated(probe)
                /\ HupEnds(FALSE)
    BY Zenon DEF HupApply
  <2>3. /\ k.routes \in CfgOrNone /\ k.fw \in CfgOrNone /\ k.ok \in BOOLEAN
        /\ k.ok => k.routes = hup.cfg /\ k.fw = hup.cfg
    BY <2>1, KernelFacts, <1>0, Zenon
  <2> DEFINE before == IF k.ok THEN Moved(phase, "applying") ELSE phase
  <2>4. /\ before \in RuntimeStates
        /\ ReconcileOk(k) => before = "applying" /\ k.ok
        /\ before = "shutting_down" <=> phase = "shutting_down"
    BY <2>1, PhaseMoves, <1>0, Zenon DEF ReconcileOk, MayApply
  <2>5. /\ before = "applying" => Moved(before, "running") = "running"
        /\ Moved(before, "broken") = IF phase = "shutting_down" THEN phase ELSE "broken"
    BY <2>4, Moves
  <2> HIDE DEF before
  <2>6. probe' \in ProbeType
    <3>1. NewProbe \in ProbeType
      BY Zenon DEF ProbeType, NewProbe, ProbeStates, HashOrNone
    <3>2. Outdated(probe) \in ProbeType
      BY <1>0, Zenon DEF TypeInv, ProbeType, Outdated
    <3> QED
      BY <2>2, <3>1, <3>2, Zenon
  <2>7. CASE /\ ReconcileOk(k)
             /\ loop = "serving"
             /\ phase' = Moved(before, "running")
             /\ dns' = Hash[hup.cfg]
             /\ tests' = TRUE
             /\ hup' = [hup EXCEPT !.at = "confirm", !.queued = FALSE, !.expect = Hash[hup.cfg]]
    <3>1. HupGoes("confirm", hup.cfg, Hash[hup.cfg])
      BY <2>1, <2>7, <1>0, Zenon DEF TypeInv, HupGoes, HupType, HupStates
    <3> QED
      BY <2>1, <2>2, <2>3, <2>4, <2>5, <2>6, <2>7, <3>1, Zenon DEF HupApply,
         otherThanHup
  <2>8. CASE /\ phase' = Moved(before, "broken")
             /\ \/ dns' = dns
                \/ dns' = IF loop = "serving" THEN Hash[hup.cfg] ELSE NoHash
             /\ tests' = FALSE
             /\ HupEnds(FALSE)
    <3>1. HupGoes(IF Accepting THEN "release" ELSE "gone", hup.cfg, hup.expect)
      BY <2>8, HupEndsGoes, <1>0, Zenon
    <3> QED
      <4>1. /\ live' = hup.cfg /\ routes' = k.routes /\ fw' = k.fw /\ active' = (active \/ k.ok)
            /\ expected' \in HashOrNone /\ timers' \subseteq timers /\ actual' = actual
        BY <2>1, <2>2, <1>0, Zenon DEF TypeInv
      <4>2. /\ Breaks
            /\ phase' \in RuntimeStates
        BY <2>1, <2>5, <2>8, Zenon DEF Breaks
      <4>3. /\ dns' \in HashOrNone
            /\ loop # "serving" => dns' \in {dns, NoHash}
        BY <2>1, <2>8, <1>0, Zenon DEF TypeInv
      <4> QED
        BY <2>1, <2>3, <2>6, <3>1, <4>1, <4>2, <4>3, Zenon DEF HupApply, otherThanHup
  <2> QED
    BY <2>2, <2>7, <2>8, Zenon DEF before
<1>2. TypeInv'
  BY <1>0, <1>1, ZenonT(30) DEF TypeInv, HupGoes
<1>3. ActorInv'
  BY <1>0, <1>1, SameEnvironment DEF ActorInv, Booting, HupGoes, Breaks, Accepting,
     Overlap, HupType, ProbeType
<1>4. EndInv'
  BY <1>0, <1>1, SameEnvironment, Zenon DEF EndInv, Ending, WorkersIdle
<1>5. PhaseInv'
  BY <1>0, <1>1, SameEnvironment, Zenon DEF PhaseInv, ActorInv, Quiet, Booting, Ending,
     HupGoes, Breaks, Overlap
<1>6. KernelInv'
  BY <1>0, <1>1, SameEnvironment, Zenon DEF KernelInv, ActorInv, Quiet, Booting,
     Serving, Breaks
<1>7. ResolverInv'
  BY <1>0, <1>1, SameEnvironment, Zenon DEF ResolverInv, ActorInv, Quiet, Overlap,
     Booting, Breaks
<1>8. ApplyInv'
  BY <1>0, <1>1, SameEnvironment, Zenon DEF ApplyInv, ActorInv, Applied, Placed, Overlap
<1>9. CommitInv'
  BY <1>1, Zenon DEF CommitInv, HupGoes, Accepting
<1> QED
  BY <1>2, <1>3, <1>4, <1>5, <1>6, <1>7, <1>8, <1>9, Zenon DEF Inv

(* A request is accepted.                                                  *)
LEMMA SubmitKeeps ==
    ASSUME Inv, NEW kind \in Requests, Early \/ ~Booting, Submit(kind)
    PROVE  Inv'
<1>0. TypeInv /\ ActorInv /\ EndInv /\ PhaseInv /\ KernelInv /\ ResolverInv /\ ApplyInv
      /\ CommitInv
  BY Zenon DEF Inv
<1>1. /\ op.at = "idle" /\ loop \in {"serving", "leaving", "deactivating"}
      /\ left' \in Nat
      /\ op' \in OpType
      /\ op'.at = "begin" /\ op'.kind = kind
      /\ kind = "apply" => op'.cfg \in Configs
      /\ UNCHANGED <<env, phase, active, live, store, draft, disk, routes, fw, dns,
            expected, actual, probe, timers, tests, loop, boot, hup, lease, switching>>
  <2>1. kind \in OpKinds
    BY DaemonAssumption, <1>0, Zenon DEF TypeInv, Requests
  <2> QED
    BY <2>1, LeftTyped, <1>0, Zenon DEF TypeInv, Submit, rtVars, OpType, OpStates,
       CfgOrNone, HashOrNone
<1>2. TypeInv'
  BY <1>0, <1>1, Zenon DEF TypeInv
<1>3. ActorInv'
  BY <1>0, <1>1, SameEnvironment DEF ActorInv, Booting
<1>4. EndInv'
  BY <1>0, <1>1, SameEnvironment, Zenon DEF EndInv
<1>5. PhaseInv'
  BY <1>0, <1>1, SameEnvironment, Zenon DEF PhaseInv, Booting, Reported, Placed, Ending
<1>6. KernelInv'
  BY <1>0, <1>1, SameEnvironment, Zenon DEF KernelInv, Booting, Reported, Placed,
     Serving
<1>7. ResolverInv'
  BY <1>0, <1>1, SameEnvironment, Zenon DEF ResolverInv, Quiet, Reported
<1>8. ApplyInv'
  BY <1>1, Zenon DEF ApplyInv, Applied, Placed
<1>9. CommitInv'
  BY <1>0, <1>1, CommitFrame, Zenon
<1> QED
  BY <1>2, <1>3, <1>4, <1>5, <1>6, <1>7, <1>8, <1>9, Zenon DEF Inv

(* A draft is staged.                                                      *)
LEMMA StageDraftKeeps ==
    ASSUME Inv, NEW c \in Configs, StageDraft(c)
    PROVE  Inv'
<1>0. TypeInv /\ ActorInv /\ EndInv /\ PhaseInv /\ KernelInv /\ ResolverInv /\ ApplyInv
      /\ CommitInv
  BY Zenon DEF Inv
<1>1. /\ draft' = c /\ left' \in Nat
      /\ UNCHANGED <<env, phase, active, live, store, disk, routes, fw, dns, expected,
            actual, probe, timers, tests, loop, boot, op, hup, lease, switching>>
  BY <1>0, LeftTyped, Zenon DEF StageDraft, rtVars
<1>2. TypeInv'
  BY <1>0, <1>1 DEF TypeInv, CfgOrNone
<1>3. ActorInv' /\ EndInv' /\ PhaseInv' /\ KernelInv' /\ ResolverInv' /\ ApplyInv' /\ CommitInv'
  BY <1>0, <1>1, ActorFrame, EndFrame, PhaseFrame, KernelFrame, ResolverFrame,
     ApplyFrame, CommitFrame, Zenon
<1> QED
  BY <1>2, <1>3, Zenon DEF Inv

(* The file is edited.                                                     *)
LEMMA EditFileKeeps ==
    ASSUME Inv, NEW c \in Configs, "HUP" \in Signals, EditFile(c)
    PROVE  Inv'
<1>0. TypeInv /\ ActorInv /\ EndInv /\ PhaseInv /\ KernelInv /\ ResolverInv /\ ApplyInv
      /\ CommitInv
  BY Zenon DEF Inv
<1>1. /\ disk' = c /\ left' \in Nat
      /\ UNCHANGED <<env, phase, active, live, store, draft, routes, fw, dns, expected,
            actual, probe, timers, tests, loop, boot, op, hup, lease, switching>>
  BY <1>0, LeftTyped, Zenon DEF EditFile, rtVars
<1>2. TypeInv'
  BY <1>0, <1>1, Zenon DEF TypeInv
<1>3. ApplyInv'
  BY <1>0, <1>1, SameEnvironment, Zenon DEF ApplyInv, ActorInv, Applied, Overlap
<1>4. ActorInv' /\ EndInv' /\ PhaseInv' /\ KernelInv' /\ ResolverInv' /\ CommitInv'
  BY <1>0, <1>1, ActorFrame, EndFrame, PhaseFrame, KernelFrame, ResolverFrame,
     CommitFrame, Zenon
<1> QED
  BY <1>2, <1>3, <1>4, Zenon DEF Inv

(* A SIGUSR1 starts the debounce timer.                                    *)
LEMMA HandleSigusr1Keeps ==
    ASSUME Inv, "USR1" \in Signals, HandleSigusr1
    PROVE  Inv'
<1>0. TypeInv /\ ActorInv /\ EndInv /\ PhaseInv /\ KernelInv /\ ResolverInv /\ ApplyInv
      /\ CommitInv
  BY DEF Inv
<1>1. /\ loop = "serving"
      /\ timers' = timers \cup {"usr1"} /\ left' \in Nat
      /\ UNCHANGED <<env, phase, active, live, store, draft, disk, routes, fw, dns,
            expected, actual, probe, tests, loop, boot, op, hup, lease, switching>>
  BY <1>0, LeftTyped, Zenon DEF HandleSigusr1, otherThanRt
<1>2. TypeInv'
  BY <1>0, <1>1, Zenon DEF TypeInv
<1>3. ActorInv'
  BY <1>0, <1>1, SameEnvironment DEF ActorInv, Booting
<1>4. EndInv'
  BY <1>0, <1>1, SameEnvironment, Zenon DEF EndInv
<1>5. PhaseInv' /\ KernelInv' /\ ResolverInv' /\ ApplyInv' /\ CommitInv'
  BY <1>0, <1>1, PhaseFrame, KernelFrame, ResolverFrame, ApplyFrame, CommitFrame, Zenon
<1> QED
  BY <1>2, <1>3, <1>4, <1>5, Zenon DEF Inv

(* The debounced refresh, which waits for the lease.                       *)
LEMMA Sigusr1FiresKeeps ==
    ASSUME Inv, Sigusr1Fires
    PROVE  Inv'
<1>0. TypeInv /\ ActorInv /\ EndInv /\ PhaseInv /\ KernelInv /\ ResolverInv /\ ApplyInv
      /\ CommitInv
  BY Zenon DEF Inv
<1>1. /\ loop = "serving" /\ ~lease
      /\ timers' \subseteq timers
      /\ routes' \in CfgOrNone /\ fw' \in CfgOrNone
      /\ ~RefreshFails => routes' = live /\ fw' = live
      /\ UNCHANGED <<env, phase, active, live, store, draft, disk, dns, expected,
            actual, probe, tests, loop, boot, op, hup, lease, switching, left>>
  <2>1. PICK k \in KernelResults(live) : routes' = k.routes /\ fw' = k.fw
    BY Zenon DEF Sigusr1Fires
  <2>2. /\ k.routes \in CfgOrNone /\ k.fw \in CfgOrNone
        /\ k.ok => k.routes = live /\ k.fw = live
        /\ Faults \cap {"routing", "firewall"} = {} => k.ok
        /\ "firewall" \notin Faults => k.fw \in {live, fw}
    BY KernelFacts, <1>0, Zenon DEF TypeInv
  <2> QED
    BY <2>1, <2>2, <1>0, Zenon DEF Sigusr1Fires, ActorInv, RefreshFails, otherThanRt
<1>2. TypeInv'
  BY <1>0, <1>1, Zenon DEF TypeInv
<1>3. ActorInv'
  BY <1>0, <1>1, SameEnvironment DEF ActorInv, Booting
<1>4. EndInv'
  BY <1>0, <1>1, SameEnvironment, Zenon DEF EndInv
<1>5. KernelInv'
  BY <1>0, <1>1, SameEnvironment, Zenon DEF KernelInv, Reported, Serving
<1>6. ApplyInv'
  BY <1>0, <1>1, SameEnvironment, Zenon DEF ApplyInv, Applied
<1>7. CommitInv'
  BY <1>0, <1>1, Zenon DEF CommitInv, ActorInv
<1>8. PhaseInv' /\ ResolverInv'
  BY <1>0, <1>1, PhaseFrame, ResolverFrame, Zenon
<1> QED
  BY <1>2, <1>3, <1>4, <1>5, <1>6, <1>7, <1>8, Zenon DEF Inv

(* An interface comes or goes.                                             *)
LEMMA InterfaceEventKeeps ==
    ASSUME Inv, "interface" \in Signals, InterfaceEvent
    PROVE  Inv'
<1>0. TypeInv /\ ActorInv /\ EndInv /\ PhaseInv /\ KernelInv /\ ResolverInv /\ ApplyInv
      /\ CommitInv
  BY DEF Inv
<1>1. /\ loop = "serving" /\ left' \in Nat
      /\ routes' \in CfgOrNone /\ fw' \in CfgOrNone
      /\ ~RefreshFails => routes' = live /\ fw' = live
      /\ ~FailsBetween => fw' \in {fw, live}
      /\ UNCHANGED <<env, phase, active, live, store, draft, disk, dns, expected,
            actual, probe, timers, tests, loop, boot, op, hup, lease, switching>>
  <2>1. PICK k \in KernelResults(live) : routes' = k.routes /\ fw' = k.fw
    BY Zenon DEF InterfaceEvent, RefreshKernel
  <2>2. /\ k.routes \in CfgOrNone /\ k.fw \in CfgOrNone
        /\ k.ok => k.routes = live /\ k.fw = live
        /\ Faults \cap {"routing", "firewall"} = {} => k.ok
        /\ "firewall" \notin Faults => k.fw \in {live, fw}
    BY KernelFacts, <1>0, Zenon DEF TypeInv
  <2> QED
    BY <2>1, <2>2, LeftTyped, <1>0, Zenon DEF InterfaceEvent, RefreshFails,
       FailsBetween, RefreshKernel, otherThanRt
<1>2. TypeInv'
  BY <1>0, <1>1, Zenon DEF TypeInv
<1>3. EndInv'
  BY <1>0, <1>1, SameEnvironment, Zenon DEF EndInv
<1>4. KernelInv'
  BY <1>0, <1>1, SameEnvironment, Zenon DEF KernelInv, Reported, Serving
<1>5. ApplyInv'
  BY <1>0, <1>1, SameEnvironment, Zenon DEF ApplyInv, Applied
<1>6. CommitInv'
  BY <1>0, <1>1, SameEnvironment, Zenon DEF CommitInv
<1>7. ActorInv' /\ PhaseInv' /\ ResolverInv'
  BY <1>0, <1>1, ActorFrame, PhaseFrame, ResolverFrame, Zenon
<1> QED
  BY <1>2, <1>3, <1>4, <1>5, <1>6, <1>7, Zenon DEF Inv

(* A selection change is posted.                                           *)
LEMMA UrltestSelectsKeeps ==
    ASSUME Inv, "urltest" \in Signals, UrltestSelects
    PROVE  Inv'
<1>0. TypeInv /\ ActorInv /\ EndInv /\ PhaseInv /\ KernelInv /\ ResolverInv /\ ApplyInv
      /\ CommitInv
  BY Zenon DEF Inv
<1>1. /\ switching' = TRUE /\ left' \in Nat
      /\ UNCHANGED <<env, phase, active, live, store, draft, disk, routes, fw, dns,
            expected, actual, probe, timers, tests, loop, boot, op, hup, lease>>
  BY <1>0, LeftTyped, Zenon DEF UrltestSelects, rtVars, otherThanRt
<1>2. TypeInv'
  BY <1>0, <1>1, Zenon DEF TypeInv
<1>3. ActorInv'
  BY <1>0, <1>1, SameEnvironment DEF ActorInv, Booting
<1>4. EndInv' /\ PhaseInv' /\ KernelInv' /\ ResolverInv' /\ ApplyInv' /\ CommitInv'
  BY <1>0, <1>1, EndFrame, PhaseFrame, KernelFrame, ResolverFrame, ApplyFrame,
     CommitFrame, Zenon
<1> QED
  BY <1>2, <1>3, <1>4, Zenon DEF Inv

(* A selection change is applied.                                          *)
LEMMA UrltestSwitchesKeeps ==
    ASSUME Inv, UrltestSwitches
    PROVE  Inv'
<1>0. TypeInv /\ ActorInv /\ EndInv /\ PhaseInv /\ KernelInv /\ ResolverInv /\ ApplyInv
      /\ CommitInv
  BY DEF Inv
<1>1. /\ loop = "serving" /\ switching' = FALSE
      /\ routes' \in CfgOrNone /\ fw' \in CfgOrNone
      /\ ~RefreshFails => routes' = live /\ fw' = live
      /\ ~FailsBetween => fw' \in {fw, live}
      /\ UNCHANGED <<env, phase, active, live, store, draft, disk, dns, expected,
            actual, probe, timers, tests, loop, boot, op, hup, lease, left>>
  <2>1. PICK k \in KernelResults(live) : routes' = k.routes /\ fw' = k.fw
    BY Zenon DEF UrltestSwitches, RefreshKernel
  <2>2. /\ k.routes \in CfgOrNone /\ k.fw \in CfgOrNone
        /\ k.ok => k.routes = live /\ k.fw = live
        /\ Faults \cap {"routing", "firewall"} = {} => k.ok
        /\ "firewall" \notin Faults => k.fw \in {live, fw}
    BY KernelFacts, <1>0, Zenon DEF TypeInv
  <2> QED
    BY <2>1, <2>2, <1>0, Zenon DEF UrltestSwitches, ActorInv, RefreshFails,
       FailsBetween, RefreshKernel, otherThanRt
<1>2. TypeInv'
  BY <1>0, <1>1, Zenon DEF TypeInv
<1>3. ActorInv'
  BY <1>0, <1>1, SameEnvironment DEF ActorInv, Booting
<1>4. EndInv'
  BY <1>0, <1>1, SameEnvironment, Zenon DEF EndInv
<1>5. KernelInv'
  BY <1>0, <1>1, SameEnvironment, Zenon DEF KernelInv, Reported, Serving
<1>6. ApplyInv'
  BY <1>0, <1>1, SameEnvironment, Zenon DEF ApplyInv, Applied
<1>7. CommitInv'
  BY <1>0, <1>1, SameEnvironment, Zenon DEF CommitInv
<1>8. PhaseInv' /\ ResolverInv'
  BY <1>0, <1>1, PhaseFrame, ResolverFrame, Zenon
<1> QED
  BY <1>2, <1>3, <1>4, <1>5, <1>6, <1>7, <1>8, Zenon DEF Inv

(* A timer asks for a probe.                                               *)
LEMMA ProbeTimerKeeps ==
    ASSUME Inv, ProbeTimer
    PROVE  Inv'
<1>0. TypeInv /\ ActorInv /\ EndInv /\ PhaseInv /\ KernelInv /\ ResolverInv /\ ApplyInv
      /\ CommitInv
  BY DEF Inv
<1>1. /\ loop = "serving"
      /\ probe' \in ProbeType
      /\ actual' \in HashOrNone /\ timers' \subseteq timers
      /\ UNCHANGED <<env, phase, active, live, store, draft, disk, routes, fw, dns,
            expected, tests, loop, boot, op, hup, lease, switching, left>>
  <2>1. CASE probe.at = "none"
    BY <2>1, CompletesProbe, <1>0, Zenon DEF ProbeTimer, otherThanRt
  <2>2. CASE probe.at # "none"
    BY <2>2, <1>0, Zenon DEF TypeInv, ProbeTimer, otherThanRt
  <2> QED
    BY <2>1, <2>2, Zenon
<1>2. TypeInv'
  BY <1>0, <1>1, ZenonT(30) DEF TypeInv
<1>3. ActorInv'
  BY <1>0, <1>1, SameEnvironment DEF ActorInv, Booting
<1>4. EndInv'
  BY <1>0, <1>1, SameEnvironment, Zenon DEF EndInv
<1>5. PhaseInv' /\ KernelInv' /\ ResolverInv' /\ ApplyInv' /\ CommitInv'
  BY <1>0, <1>1, PhaseFrame, KernelFrame, ResolverFrame, ApplyFrame, CommitFrame, Zenon
<1> QED
  BY <1>2, <1>3, <1>4, <1>5 DEF Inv

(* dnsmasq is asked.                                                       *)
LEMMA ProbeAskKeeps ==
    ASSUME Inv, ProbeAsk
    PROVE  Inv'
<1>0. TypeInv /\ ActorInv /\ EndInv /\ PhaseInv /\ KernelInv /\ ResolverInv /\ ApplyInv
      /\ CommitInv
  BY DEF Inv
<1>1. /\ probe.at = "asking" /\ probe'.at = "answered"
      /\ probe' \in ProbeType
      /\ UNCHANGED <<env, phase, active, live, store, draft, disk, routes, fw, dns,
            expected, actual, timers, tests, loop, boot, op, hup, lease, switching,
            left>>
  <2>1. PICK h \in {dns, NoHash} : probe' = [probe EXCEPT !.at = "answered", !.seen = h]
    BY Zenon DEF ProbeAsk
  <2>2. h \in HashOrNone
    BY <1>0, Zenon DEF TypeInv, HashOrNone
  <2> QED
    BY <2>1, <2>2, <1>0, Zenon DEF TypeInv, ProbeType, ProbeStates, ProbeAsk,
       otherThanRt
<1>2. TypeInv'
  BY <1>0, <1>1, Zenon DEF TypeInv
<1>3. EndInv'
  BY <1>0, <1>1, SameEnvironment, Zenon DEF EndInv, WorkersIdle
<1>4. ActorInv' /\ PhaseInv' /\ KernelInv' /\ ResolverInv' /\ ApplyInv' /\ CommitInv'
  BY <1>0, <1>1, ActorFrame, PhaseFrame, KernelFrame, ResolverFrame, ApplyFrame,
     CommitFrame, Zenon
<1> QED
  BY <1>2, <1>3, <1>4, Zenon DEF Inv

(* The answer of the probe is taken or dropped.                            *)
LEMMA ProbeCommitKeeps ==
    ASSUME Inv, ProbeCommit
    PROVE  Inv'
<1>0. TypeInv /\ ActorInv /\ EndInv /\ PhaseInv /\ KernelInv /\ ResolverInv /\ ApplyInv
      /\ CommitInv
  BY Zenon DEF Inv
<1>1. /\ loop = "serving"
      /\ probe' \in ProbeType
      /\ actual' \in HashOrNone /\ timers' \subseteq timers \cup {"retry"}
      /\ UNCHANGED <<env, phase, active, live, store, draft, disk, routes, fw, dns,
            expected, tests, loop, boot, op, hup, lease, switching, left>>
  BY <1>0, Zenon DEF ProbeCommit, TypeInv, HashOrNone, ProbeStates, NoProbe, ProbeType,
     otherThanRt
<1>2. TypeInv'
  BY <1>0, <1>1, SameEnvironment, Zenon DEF TypeInv, ProbeType
<1>3. ActorInv'
  BY <1>0, <1>1, SameEnvironment DEF ActorInv, Booting
<1>4. EndInv'
  BY <1>0, <1>1, SameEnvironment, Zenon DEF EndInv
<1>5. PhaseInv' /\ KernelInv' /\ ResolverInv' /\ ApplyInv' /\ CommitInv'
  BY <1>0, <1>1, PhaseFrame, KernelFrame, ResolverFrame, ApplyFrame, CommitFrame, Zenon
<1> QED
  BY <1>2, <1>3, <1>4, <1>5, Zenon DEF Inv

(* A SIGTERM ends the loop.                                                *)
LEMMA HandleSigtermKeeps ==
    ASSUME Inv, HandleSigterm
    PROVE  Inv'
<1>0. TypeInv /\ ActorInv /\ EndInv /\ PhaseInv /\ KernelInv /\ ResolverInv /\ ApplyInv
      /\ CommitInv
  BY Zenon DEF Inv
<1>1. /\ loop = "serving" /\ loop' = "leaving" /\ left' \in Nat
      /\ UNCHANGED <<env, phase, active, live, store, draft, disk, routes, fw, dns,
            expected, actual, probe, timers, tests, boot, op, hup, lease, switching>>
  BY <1>0, LeftTyped, Zenon DEF HandleSigterm, rtVars, otherThanLoop
<1>2. TypeInv'
  BY <1>0, <1>1, SameEnvironment, Zenon DEF TypeInv, LoopStates
<1>3. EndInv'
  BY <1>1, Zenon DEF EndInv, Ending
<1>4. PhaseInv'
  BY <1>0, <1>1, SameEnvironment, Zenon DEF PhaseInv, Booting, Reported, Ending
<1>5. KernelInv'
  BY <1>0, <1>1, SameEnvironment, ZenonT(30) DEF KernelInv, Reported, Serving
<1>6. ResolverInv'
  BY <1>0, <1>1, SameEnvironment DEF ResolverInv, Reported
<1>7. ActorInv' /\ ApplyInv' /\ CommitInv'
  BY <1>0, <1>1, ActorFrame, ApplyFrame, CommitFrame, Zenon
<1> QED
  BY <1>2, <1>3, <1>4, <1>5, <1>6, <1>7, Zenon DEF Inv

(* run() leaves the loop.                                                  *)
LEMMA BeginShutdownKeeps ==
    ASSUME Inv, BeginShutdown
    PROVE  Inv'
<1>0. TypeInv /\ ActorInv /\ EndInv /\ PhaseInv /\ KernelInv /\ ResolverInv /\ ApplyInv
      /\ CommitInv
  BY DEF Inv
<1>1. /\ loop = "leaving" /\ phase' \in RuntimeStates
      /\ \/ /\ phase \in {"applying", "shutting_down"} /\ phase' = phase
            /\ loop' = "unwinding"
         \/ /\ phase \notin {"applying", "shutting_down"} /\ phase' = "shutting_down"
            /\ loop' = "deactivating"
      /\ UNCHANGED <<env, active, live, store, draft, disk, routes, fw, dns, expected,
            actual, probe, timers, tests, boot, op, hup, lease, switching, left>>
  BY <1>0, PhaseMoves, Zenon DEF BeginShutdown, RuntimeStates, otherThanLoop
<1>2. TypeInv'
  BY <1>0, <1>1, Zenon DEF TypeInv, LoopStates
<1>3. EndInv'
  BY <1>1, Zenon DEF EndInv, Ending
<1>4. PhaseInv'
  BY <1>0, <1>1, SameEnvironment, Zenon DEF PhaseInv, Booting, Ending
<1>5. KernelInv'
  BY <1>0, <1>1, SameEnvironment, ZenonT(30) DEF KernelInv, Serving
<1>6. ResolverInv'
  BY <1>0, <1>1, SameEnvironment DEF ResolverInv
<1>7. ActorInv' /\ ApplyInv' /\ CommitInv'
  BY <1>0, <1>1, ActorFrame, ApplyFrame, CommitFrame, Zenon
<1> QED
  BY <1>2, <1>3, <1>4, <1>5, <1>6, <1>7, Zenon DEF Inv

(* dnsmasq goes to its fallback for good.                                  *)
LEMMA DeactivateResolverKeeps ==
    ASSUME Inv, DeactivateResolver
    PROVE  Inv'
<1>0. TypeInv /\ ActorInv /\ EndInv /\ PhaseInv /\ KernelInv /\ ResolverInv /\ ApplyInv
      /\ CommitInv
  BY Zenon DEF Inv
<1>1. /\ loop = "deactivating" /\ loop' = "joinLifecycle"
      /\ dns' \in {dns, NoHash}
      /\ "hook" \notin Faults => dns' = NoHash
      /\ UNCHANGED <<env, phase, active, live, store, draft, disk, routes, fw, expected,
            actual, probe, timers, tests, boot, op, hup, lease, switching, left>>
  BY Zenon DEF DeactivateResolver, Deactivated, DeactivateFailed, rtVars, otherThanLoop
<1>2. TypeInv'
  BY <1>0, <1>1 DEF TypeInv, LoopStates, HashOrNone
<1>3. EndInv'
  BY <1>1, SameEnvironment, Zenon DEF EndInv
<1>4. PhaseInv'
  BY <1>0, <1>1, SameEnvironment, Zenon DEF PhaseInv, Booting
<1>5. KernelInv'
  BY <1>0, <1>1, SameEnvironment, Zenon DEF KernelInv, Reported, Serving
<1>6. ResolverInv'
  BY <1>0, <1>1, SameEnvironment, Zenon DEF ResolverInv, PhaseInv, Quiet
<1>7. ActorInv' /\ ApplyInv' /\ CommitInv'
  BY <1>0, <1>1, ActorFrame, ApplyFrame, CommitFrame, Zenon
<1> QED
  BY <1>2, <1>3, <1>4, <1>5, <1>6, <1>7, Zenon DEF Inv

(* The lifecycle executor is joined.                                       *)
LEMMA JoinLifecycleKeeps ==
    ASSUME Inv, JoinLifecycle
    PROVE  Inv'
<1>0. TypeInv /\ ActorInv /\ EndInv /\ PhaseInv /\ KernelInv /\ ResolverInv /\ ApplyInv
      /\ CommitInv
  BY Zenon DEF Inv
<1>1. /\ loop = "joinLifecycle" /\ loop' = "joinRest" /\ op.at = "idle"
      /\ UNCHANGED <<env, phase, active, live, store, draft, disk, routes, fw, dns,
            expected, actual, probe, timers, tests, boot, op, hup, lease, switching,
            left>>
  BY Zenon DEF JoinLifecycle, rtVars, otherThanLoop
<1>2. TypeInv'
  BY <1>0, <1>1, Zenon DEF TypeInv, LoopStates
<1>3. EndInv'
  BY <1>0, <1>1, SameEnvironment, Zenon DEF EndInv, Ending
<1>4. PhaseInv'
  BY <1>0, <1>1, SameEnvironment, Zenon DEF PhaseInv, Booting, Ending
<1>5. KernelInv'
  BY <1>0, <1>1, SameEnvironment, Zenon DEF KernelInv, Reported, Serving
<1>6. ResolverInv'
  BY <1>0, <1>1, SameEnvironment, Zenon DEF ResolverInv, Quiet, Reported
<1>7. ActorInv' /\ ApplyInv' /\ CommitInv'
  BY <1>0, <1>1, ActorFrame, ApplyFrame, CommitFrame, Zenon
<1> QED
  BY <1>2, <1>3, <1>4, <1>5, <1>6, <1>7, Zenon DEF Inv

(* The other executors are joined.                                         *)
LEMMA JoinRestKeeps ==
    ASSUME Inv, JoinRest
    PROVE  Inv'
<1>0. TypeInv /\ ActorInv /\ EndInv /\ PhaseInv /\ KernelInv /\ ResolverInv /\ ApplyInv
      /\ CommitInv
  BY Zenon DEF Inv
<1>1. /\ loop = "joinRest" /\ loop' = "cleanup" /\ WorkersIdle
      /\ UNCHANGED <<env, phase, active, live, store, draft, disk, routes, fw, dns,
            expected, actual, probe, timers, tests, boot, op, hup, lease, switching,
            left>>
  BY Zenon DEF JoinRest, rtVars, otherThanLoop
<1>2. TypeInv'
  BY <1>0, <1>1, Zenon DEF TypeInv, LoopStates
<1>3. EndInv'
  BY <1>0, <1>1, SameEnvironment, Zenon DEF EndInv, Ending, WorkersIdle
<1>4. PhaseInv'
  BY <1>0, <1>1, SameEnvironment, Zenon DEF PhaseInv, Quiet, Booting, Ending
<1>5. KernelInv'
  BY <1>0, <1>1, SameEnvironment, Zenon DEF KernelInv, Reported, Serving
<1>6. ResolverInv'
  BY <1>0, <1>1, SameEnvironment DEF ResolverInv, Reported
<1>7. ActorInv' /\ ApplyInv' /\ CommitInv'
  BY <1>0, <1>1, ActorFrame, ApplyFrame, CommitFrame, Zenon
<1> QED
  BY <1>2, <1>3, <1>4, <1>5, <1>6, <1>7, Zenon DEF Inv

(* The rest of run().                                                      *)
LEMMA CleanupKeeps ==
    ASSUME Inv, Cleanup
    PROVE  Inv'
<1>0. TypeInv /\ ActorInv /\ EndInv /\ PhaseInv /\ KernelInv /\ ResolverInv /\ ApplyInv
      /\ CommitInv
  BY Zenon DEF Inv
<1>1. /\ loop = "cleanup" /\ loop' = "done"
      /\ fw' = NoCfg /\ fw' \in CfgOrNone /\ timers' = {} /\ tests' = FALSE
      /\ loop' \in LoopStates
      /\ UNCHANGED <<env, phase, active, live, store, draft, disk, routes, dns,
            expected, actual, probe, boot, op, hup, lease, switching, left>>
  BY Zenon DEF Cleanup, otherThanLoop, LoopStates, CfgOrNone
<1>2. TypeInv'
  BY <1>0, <1>1, ZenonT(30) DEF TypeInv
<1>3. ActorInv'
  BY <1>0, <1>1, SameEnvironment DEF ActorInv, Booting
<1>4. EndInv'
  BY <1>0, <1>1, SameEnvironment, Zenon DEF EndInv, Ending, WorkersIdle
<1>5. PhaseInv'
  BY <1>0, <1>1, SameEnvironment, Zenon DEF PhaseInv, Booting, Ending
<1>6. KernelInv'
  BY <1>0, <1>1, SameEnvironment, ZenonT(30) DEF KernelInv, PhaseInv, Ending
<1>7. ResolverInv'
  BY <1>0, <1>1, SameEnvironment DEF ResolverInv, Reported
<1>8. ApplyInv'
  BY <1>0, <1>1, Zenon DEF ApplyInv, Applied, Placed, EndInv
<1>9. CommitInv'
  BY <1>0, <1>1, Zenon DEF CommitInv, EndInv, WorkersIdle
<1> QED
  BY <1>2, <1>3, <1>4, <1>5, <1>6, <1>7, <1>8, <1>9 DEF Inv

-------------------------------------------------------------------------------
(* The process starts with nothing in the kernel and nobody out.           *)
LEMMA InvInit ==
    ASSUME Init
    PROVE  Inv
<1>1. TypeInv
  <2>1. BootConfig \in Configs /\ BootConfig \in CfgOrNone /\ NoCfg \in CfgOrNone
        /\ NoHash \in HashOrNone
    BY DaemonAssumption DEF CfgOrNone, HashOrNone
  <2>2. env \in Environments /\ left \in Nat
    BY DaemonAssumption, Zenon DEF Init, MaxEvents
  <2>3. boot \in BootType
    BY <2>1, Zenon DEF Init, BootType, BootStates
  <2>4. op \in OpType
    BY <2>1, Zenon DEF Init, OpType, OpKinds, OpStates
  <2>5. hup \in HupType
    BY <2>1, Zenon DEF Init, HupType, HupStates
  <2>6. probe \in ProbeType
    BY <2>1, Zenon DEF Init, ProbeType, NoProbe, ProbeStates
  <2> QED
    BY <2>1, <2>2, <2>3, <2>4, <2>5, <2>6, Zenon DEF Init, TypeInv, RuntimeStates,
       LoopStates
<1>2. ActorInv /\ EndInv /\ ApplyInv /\ CommitInv
  BY Zenon DEF Init, ActorInv, EndInv, Ending, ApplyInv, Applied, Placed, CommitInv
<1>3. PhaseInv /\ KernelInv /\ ResolverInv
  BY Zenon DEF Init, PhaseInv, KernelInv, ResolverInv, Booting, Placed, Ending
<1> QED
  BY <1>1, <1>2, <1>3 DEF Inv

(* Every step of the daemon and of its environment keeps the invariant.    *)
LEMMA InvNext ==
    ASSUME Inv, [Next]_vars
    PROVE  Inv'
<1>1. CASE UserStep
  <2>1. CASE \E kind \in Requests : (Early \/ ~Booting) /\ Submit(kind)
    BY <2>1, SubmitKeeps
  <2>2. CASE \E c \in Configs : "apply" \in Requests /\ StageDraft(c)
    BY <2>2, StageDraftKeeps
  <2>3. CASE \E c \in Configs : "HUP" \in Signals /\ EditFile(c)
    BY <2>3, EditFileKeeps
  <2> QED
    BY <1>1, <2>1, <2>2, <2>3 DEF UserStep
<1>2. CASE SignalStep
  BY <1>2, HandleSighupKeeps, HandleSigusr1Keeps, HandleSigtermKeeps, InterfaceEventKeeps,
     UrltestSelectsKeeps DEF SignalStep
<1>3. CASE StartupStep
  BY <1>3, BeginStartupKeeps, BootListsKeeps, ContinueStartupKeeps, BootHookKeeps,
     FinishStartupKeeps, BootVerifyKeeps, CompleteStartupKeeps DEF StartupStep
<1>4. CASE OperationStep
  BY <1>4, OpBeginKeeps, OpPrepareKeeps, OpReconcileKeeps, OpDecideKeeps, OpReloadKeeps,
     OpVerifyKeeps, OpFinalizeKeeps, OpWriteKeeps, OpCommitKeeps, OpTeardownKeeps,
     OpFallbackKeeps, OpSetupKeeps, OpMarkBrokenKeeps, OpFinishKeeps DEF OperationStep
<1>5. CASE HupStep
  BY <1>5, HupReadKeeps, HupApplyKeeps, HupConfirmKeeps, HupCommitKeeps, HupReleaseKeeps
  DEF HupStep
<1>6. CASE ShutdownStep
  BY <1>6, BeginShutdownKeeps, DeactivateResolverKeeps, JoinLifecycleKeeps, JoinRestKeeps,
     CleanupKeeps DEF ShutdownStep
<1>7. CASE Sigusr1Fires \/ UrltestSwitches \/ ProbeStep
  BY <1>7, Sigusr1FiresKeeps, UrltestSwitchesKeeps, ProbeTimerKeeps, ProbeAskKeeps,
     ProbeCommitKeeps DEF ProbeStep
<1>8. CASE UNCHANGED vars
  <2>1. TypeInv /\ ActorInv /\ EndInv /\ PhaseInv /\ KernelInv /\ ResolverInv /\ ApplyInv
        /\ CommitInv
    BY Zenon DEF Inv
  <2>2. TypeInv'
    BY <1>8, <2>1, Zenon DEF TypeInv, vars, rtVars
  <2>3. ActorInv' /\ EndInv' /\ PhaseInv' /\ KernelInv' /\ ResolverInv' /\ ApplyInv' /\ CommitInv'
    BY <1>8, <2>1, ActorFrame, EndFrame, PhaseFrame, KernelFrame, ResolverFrame, ApplyFrame,
       CommitFrame, Zenon DEF vars, rtVars
  <2> QED
    BY <2>2, <2>3, Zenon DEF Inv
<1> QED
  BY <1>1, <1>2, <1>3, <1>4, <1>5, <1>6, <1>7, <1>8 DEF Next, DaemonStep

(* The inductive invariant holds in every state of the daemon.             *)
THEOREM Invariance == Spec => []Inv
<1>1. Init => Inv
  BY InvInit
<1>2. Inv /\ [Next]_vars => Inv'
  BY InvNext
<1> QED
  BY <1>1, <1>2, PTL DEF Spec

(* run() leaves nothing behind, whatever was out when SIGTERM came and in  *)
(* whatever order the workers end: ShutdownLeavesNothing.                  *)
THEOREM NothingIsLeft == Spec => []ShutdownLeavesNothing
<1>1. Inv => ShutdownLeavesNothing
  BY DEF Inv, EndInv, Ending, ShutdownLeavesNothing
<1> QED
  BY <1>1, Invariance, PTL

(* "running" means that the kernel holds config_, in every environment in  *)
(* which refreshes do not fail and actors do not overlap: RunningIsServing.*)
THEOREM RunningServes == Spec => []RunningIsServing
<1>1. Inv => RunningIsServing
  BY SMTT(20) DEF Inv, KernelInv, Quiet, Serving, RunningIsServing
<1> QED
  BY <1>1, Invariance, PTL

(* dnsmasq serves what the state promises: ResolverMatchesState.           *)
THEOREM ResolverKeepsPromise == Spec => []ResolverMatchesState
<1>1. Inv => ResolverMatchesState
  BY DEF Inv, PhaseInv, ResolverInv, Quiet, ResolverMatchesState
<1> QED
  BY <1>1, Invariance, PTL

(* An apply that reports success is in force everywhere: AppliedEverywhere.*)
THEOREM SuccessIsEverywhere == Spec => []AppliedEverywhere
<1>1. Inv => AppliedEverywhere
  BY DEF Inv, ApplyInv, Applied, AppliedEverywhere
<1> QED
  BY <1>1, Invariance, PTL

(* Who writes config_store_: the snapshot is replaced by the commit of an  *)
(* operation or of a transaction, the draft by the commit or by staging.   *)
Writes ==
    /\ store' # store => OpCommit \/ HupCommit
    /\ draft' # draft => OpCommit \/ \E c \in Configs : StageDraft(c)

(* Every other step leaves both alone.                                     *)
LEMMA Writers ==
    ASSUME [Next]_vars
    PROVE  Writes
<1>1. CASE UserStep
  BY <1>1, Zenon DEF Writes, UserStep, Submit, StageDraft, EditFile
<1>2. CASE SignalStep
  BY <1>2, Zenon DEF Writes, SignalStep, HandleSighup, HandleSigusr1, HandleSigterm,
     InterfaceEvent, UrltestSelects, otherThanRt, otherThanLoop
<1>3. CASE StartupStep
  BY <1>3, Zenon DEF Writes, StartupStep, BeginStartup, BootLists, ContinueStartup, BootHook,
     FinishStartup, BootVerify, CompleteStartup, otherThanBoot
<1>4. CASE OperationStep
  BY <1>4, Zenon DEF Writes, OperationStep, OpBegin, OpPrepare, OpReconcile, OpDecide,
     OpReload, OpVerify, OpFinalize, OpWrite, OpTeardown, OpFallback, OpSetup, OpMarkBroken,
     OpFinish, otherThanOp
<1>5. CASE HupStep
  BY <1>5, Zenon DEF Writes, HupStep, HupRead, HupApply, HupConfirm, HupCommit, HupRelease,
     otherThanHup
<1>6. CASE ShutdownStep
  BY <1>6, Zenon DEF Writes, ShutdownStep, BeginShutdown, DeactivateResolver, JoinLifecycle,
     JoinRest, Cleanup, otherThanLoop
<1>7. CASE Sigusr1Fires \/ UrltestSwitches \/ ProbeStep
  BY <1>7, Zenon DEF Writes, Sigusr1Fires, UrltestSwitches, ProbeStep, ProbeTimer, ProbeAsk,
     ProbeCommit, otherThanRt
<1>8. CASE UNCHANGED vars
  BY <1>8, Zenon DEF Writes, vars
<1> QED
  BY <1>1, <1>2, <1>3, <1>4, <1>5, <1>6, <1>7, <1>8, Zenon DEF Next, DaemonStep

(* The snapshot is replaced by what the kernel and dnsmasq hold:           *)
(* CommitsWhatServes.  Only HupCommit replaces it when nobody submits an   *)
(* operation, and its transaction has come from a successful HupApply with *)
(* nothing in between that changes the firewall, dnsmasq or the state.     *)
THEOREM CommitIsServed == Spec => CommitsWhatServes
<1>1. ASSUME Inv, [Next]_vars, Requests = {}, ~Early, ~FailsBetween, store' # store
      PROVE  store' = live' /\ fw' = store' /\ phase' = "running" /\ dns' = Hash[store']
  <2>1. op.at = "idle"
    BY <1>1 DEF Inv, ActorInv
  <2>2. HupCommit
    BY <1>1, <2>1, Writers, Zenon DEF Writes, OpCommit
  <2>3. ~Overlap /\ Quiet
    BY <1>1, Zenon DEF Overlap, Quiet
  <2>4. phase = "running" /\ fw = live /\ dns = Hash[live]
    BY <1>1, <2>1, <2>2, <2>3, ZenonT(30)
    DEF Inv, PhaseInv, ResolverInv, CommitInv, HupCommit, Reported
  <2>5. Moved(phase, "running") = "running"
    BY <1>1, <2>4, PhaseMoves DEF Inv
  <2> QED
    BY <1>1, <2>2, <2>4, <2>5, Zenon DEF HupCommit, otherThanHup
<1>2. Inv /\ [Next]_vars =>
        [Requests = {} /\ ~Early /\ ~FailsBetween /\ store' # store =>
           store' = live' /\ fw' = store' /\ phase' = "running" /\ dns' = Hash[store']]_vars
  BY <1>1
<1> QED
  BY <1>2, Invariance, PTL DEF Spec, CommitsWhatServes

(* A draft is cleared only by the commit of the operation that submitted   *)
(* it, which has written it to the file and made it config_:               *)
(* DraftNeverLost.                                                         *)
THEOREM DraftIsKept == Spec => DraftNeverLost
<1>1. ASSUME Inv, [Next]_vars, draft # NoCfg, draft' = NoCfg, ~Overlap
      PROVE  disk' = draft /\ store' = draft
  <2>1. ASSUME NEW c \in Configs, StageDraft(c)
        PROVE  FALSE
    BY <1>1, <2>1, DaemonAssumption, Zenon DEF StageDraft
  <2>2. OpCommit
    BY <1>1, <2>1, Writers, ZenonT(30) DEF Writes
  <2>3. op.kind = "apply" /\ live = op.cfg /\ disk = op.cfg
    BY <1>1, <2>2 DEF Inv, ActorInv, ApplyInv, Applied, OpCommit
  <2> QED
    BY <1>1, <2>2, <2>3 DEF OpCommit
<1>2. Inv /\ [Next]_vars =>
        [draft # NoCfg /\ draft' = NoCfg /\ ~Overlap => disk' = draft /\ store' = draft]_vars
  BY <1>1
<1> QED
  BY <1>2, Invariance, PTL DEF Spec, DraftNeverLost
=============================================================================
