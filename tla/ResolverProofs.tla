--------------------------- MODULE ResolverProofs ---------------------------
(***************************************************************************)
(* Proofs about ResolverReload, for any number of operations, outside      *)
(* events, configurations and versions of the lists, and for any sizes of  *)
(* pipes and inputs.                                                       *)
(***************************************************************************)
EXTENDS ResolverReload, Integers, TLAPS

Hashes == [conf : Confs \cup {None, "fallback"}, lists : Versions, keen : Versions]
Ages == {"new", "old", None}
Statuses == {"success", "missing", "failed", "unknown", "off"}
OpStages == {"idle", "reconcile", "decide", "reload", "verify", "finalize", "finish",
             "teardown", "fallback", "setup", "markBroken"}
HelperStages == {"none", "static", "asking", "reading", "got", "fallback", "error",
                 "runtime_stopped", "runtime_shutting_down", "daemon_unavailable", "timeout"}

SyncRecords == [on : BOOLEAN, expected : Hashes, actual : Hashes, ts : Ages,
                status : Statuses, recent : BOOLEAN]
ProbeRecords == [at : {"none", "asking", "answered"}, fresh : BOOLEAN, status : Statuses,
                 hash : Hashes, ts : Ages]
DnsmasqRecords == [at : {"up", "loading", "down"}, has : Hashes, txt : BOOLEAN, ts : Ages,
                   refused : BOOLEAN]
OpRecords == [at : OpStages, kind : {"apply", "stop", "start"}, conf : Confs \cup {None},
              expect : Hashes, ok : BOOLEAN, skipped : BOOLEAN]
HelperRecords == [at : HelperStages, out : 0 .. 2, has : Hashes, ts : Ages, calm : BOOLEAN,
                  refused : BOOLEAN]
StreamRecords == [at : {"none", "queued", "sending"}, conf : Confs \cup {None},
                  lists : Versions, keen : Versions, peer : BOOLEAN]
ServiceRecords == [managed : BOOLEAN, order : {"none", "placed", "done"}, file : BOOLEAN]
BudgetRecords == [ops : Nat, faults : Nat, commands : Nat]
ChildRecords == [at : {"idle", "io", "wait", "grace", "returned"}, kind : Kinds,
                 proc : {"none", "running", "zombie", "gone"}, heirs : BOOLEAN,
                 deaf : BOOLEAN, pipe : Int, left : Int, got : Int, late : BOOLEAN,
                 now : BOOLEAN, timedOut : BOOLEAN,
                 code : {"none", "zero", "error", "signal"},
                 result : {"none", "zero", "error", "failed"}]

KnowledgeOK ==
    /\ config \in Confs /\ generation \in Confs
    /\ lists \in Versions /\ keen \in Versions /\ rci \in Versions
    /\ sync \in SyncRecords /\ probe \in ProbeRecords
    /\ active \in BOOLEAN
    /\ dnsmasq \in DnsmasqRecords

(* The last four conjuncts say which thread the shutdown is in.            *)
ControlOK ==
    /\ alive \in BOOLEAN
    /\ phase \in {"serving", "stopped", "shutting_down"}
    /\ op \in OpRecords
    /\ loop \in {"free", "hook", "await", "after", "closing", "drain"}
    /\ worker \in {"reload", "fallback", "loop", "shutdown", "idle", "await"}
    /\ since \in [op : BOOLEAN, loop : BOOLEAN]
    /\ worker = "loop" => loop = "hook"
    /\ worker = "shutdown" => loop = "closing"
    /\ loop \in {"closing", "drain"} => phase = "shutting_down"
    /\ phase = "shutting_down" /\ alive => loop \in {"closing", "drain"}

OutsideOK ==
    /\ helper \in HelperRecords /\ stream \in StreamRecords /\ service \in ServiceRecords
    /\ budget \in BudgetRecords

TypeOK == KnowledgeOK /\ ControlOK /\ OutsideOK

-----------------------------------------------------------------------------
(* TimeoutLeavesNoProcess is inductive once it is known that a call that   *)
(* has not come to its grace period has not signalled, and that a call     *)
(* returns only when the direct child was reaped.                          *)
ChildInv ==
    /\ child \in ChildRecords
    /\ child.at \in {"idle", "io", "wait"} => ~child.timedOut
    /\ child.at = "returned" => child.proc # "running"
    /\ TimeoutLeavesNoProcess

(* FallbackIsALifecycleDecision: calm says of a conf-script that the       *)
(* runtime was up ever since it began; while it is, only a connection that *)
(* failed is a reason to fall back.                                        *)
HelperInv ==
    /\ helper.calm => alive /\ phase \notin Ended
    /\ helper.at \in FallbackReasons => (helper.calm => helper.refused)
    /\ FallbackIsALifecycleDecision

(* AppliedServes: from its kernel part on, an operation that has not       *)
(* failed is the only one that decides what is generated; and once its     *)
(* reload is confirmed nothing else is on its way into dnsmasq, whoever    *)
(* restarts it, but a shutdown and a connection that fails.                *)
Serving == op.kind # "stop" /\ op.ok /\ ~op.skipped
Generating == {"verify", "finalize", "finish"}

OpInv ==
    /\ op.at # "idle" => alive
    /\ active => phase # "stopped"
    /\ op.at \notin {"idle", "reconcile"} => op.conf = config
    /\ op.at = "reconcile" => op.conf \in Confs
    /\ op.at \in {"reconcile", "decide"} => op.kind = "apply"
    /\ op.at = "setup" => op.kind = "start"
    /\ op.at \in {"teardown", "fallback"} => op.kind = "stop"
    /\ op.at = "markBroken" => ~op.ok
    /\ op.at \in {"decide", "reload", "verify", "finalize"} => active /\ op.kind # "stop"
    /\ op.at \in {"decide", "reload", "verify"} /\ op.kind = "apply"
           => sync.expected.conf = config /\ generation = config
    /\ op.at \in {"reload", "verify"} /\ op.kind = "apply" => op.expect.conf = config
    /\ op.at \in Generating /\ Serving
           => active /\ generation = config /\ sync.expected.conf = config

WorkerInv ==
    /\ worker \in {"reload", "await"} => op.at = "reload"
    /\ worker = "fallback" => op.at = "fallback"
    /\ worker = "await" => service.managed
    /\ op.at \in Generating /\ Serving /\ phase # "shutting_down" => service.managed

DnsmasqInv ==
    /\ dnsmasq.at = "loading" <=> helper.at # "none"
    /\ stream.peer => helper.at = "reading" /\ stream.at # "none"
    /\ op.at \in {"finalize", "finish"} /\ Serving /\ phase # "shutting_down"
           => /\ stream.peer => stream.conf = op.conf
              /\ helper.at = "got" => helper.has.conf = op.conf
              /\ helper.at \in FallbackReasons \cup {"fallback"} => helper.refused
              /\ helper.at # "static"
              /\ dnsmasq.at = "up" /\ ~dnsmasq.refused => dnsmasq.has.conf = op.conf

Inv == TypeOK /\ ChildInv /\ HelperInv /\ OpInv /\ WorkerInv /\ DnsmasqInv

-----------------------------------------------------------------------------
(* What the parts of actions do to the records they update                 *)

(* A conjunct of Inv is kept by every step that leaves its variables.      *)
LEMMA KnowledgeKept ==
    KnowledgeOK /\ UNCHANGED <<config, lists, keen, rci, generation, sync, probe,
                               active, dnsmasq>>
    => KnowledgeOK'
  BY DEF KnowledgeOK

(* The same for the daemon's threads.                                      *)
LEMMA ControlKept == ControlOK /\ UNCHANGED control => ControlOK'
  BY DEF ControlOK, control

(* The same for the conf-script, its stream and the hook's files.          *)
LEMMA OutsideKept == OutsideOK /\ UNCHANGED <<helper, stream, service, budget>> =>
                                              OutsideOK'
  BY DEF OutsideOK

(* The same for the command.                                               *)
LEMMA ChildKept == ChildInv /\ UNCHANGED child => ChildInv'
  BY DEF ChildInv, TimeoutLeavesNoProcess, Alive

(* The same for reasons to fall back.                                      *)
LEMMA HelperKept == HelperInv /\ UNCHANGED <<helper, alive, phase>> => HelperInv'
  BY DEF HelperInv, FallbackIsALifecycleDecision

(* The same for what an operation decides.                                 *)
LEMMA OpKept ==
    OpInv /\ UNCHANGED <<op, alive, phase, active, config, generation, sync>> => OpInv'
  BY DEF OpInv, Serving

(* The same for the hook's worker.                                         *)
LEMMA WorkerKept == WorkerInv /\ UNCHANGED <<worker, op, phase, service>> => WorkerInv'
  BY DEF WorkerInv, Serving

(* The same for what is on its way into dnsmasq.                           *)
LEMMA DnsmasqKept == DnsmasqInv /\ UNCHANGED <<dnsmasq, helper, stream, op, phase>> =>
                                               DnsmasqInv'
  BY DEF DnsmasqInv, Serving

(* Digest of a configuration, NoHash and the fallback's digest are hashes. *)
LEMMA DigestType ==
    ASSUME NEW c \in Confs \cup {None, "fallback"}, NEW l \in Versions, NEW k \in Versions
    PROVE  Digest(c, l, k) \in Hashes /\ Digest(c, l, k).conf = c
  BY DEF Digest, Hashes

(* No hash is a hash, for records that have none yet.                      *)
LEMMA NoHashType == NoHash \in Hashes
  BY VersionsAssumption, DigestType DEF NoHash

(* A timestamp stays one when an apply makes it older.                     *)
LEMMA AgedType == ASSUME NEW t \in Ages, NEW b \in BOOLEAN PROVE Aged(t, b) \in Ages
  BY DEF Aged, Ages

(* An outside event uses up the budget and no more.                        *)
LEMMA FaultType == ASSUME budget \in BudgetRecords, Fault PROVE budget' \in BudgetRecords
  BY DEF Fault, BudgetRecords

(* An operation that moves on keeps everything but its place.              *)
LEMMA OpMovesType ==
    ASSUME op \in OpRecords, NEW a \in OpStages, OpMoves(a)
    PROVE  /\ op' \in OpRecords
           /\ op'.at = a /\ op'.kind = op.kind /\ op'.conf = op.conf
           /\ op'.expect = op.expect /\ op'.ok = op.ok /\ op'.skipped = op.skipped
  BY DEF OpMoves, OpRecords

(* An operation that fails is on its way to "broken" and not ok.           *)
LEMMA OpFailsType ==
    ASSUME op \in OpRecords, OpFails
    PROVE  op' \in OpRecords /\ op'.at = "markBroken" /\ ~op'.ok /\ op'.conf = op.conf
  BY Zenon DEF OpFails, OpRecords, OpStages

(* A probe of an earlier generation is still a probe.                      *)
LEMMA OutdatedType == ASSUME probe \in ProbeRecords PROVE Outdated \in ProbeRecords
  BY Zenon DEF Outdated, ProbeRecords

(* No probe is out: a probe record as well.                                *)
LEMMA NoProbeType == NoProbe \in ProbeRecords
  BY NoHashType DEF NoProbe, ProbeRecords, Statuses, Ages, None

(* update_resolver_config_hash(): snapshot and expected hash are those of  *)
(* the configuration it is given.                                          *)
LEMMA UpdateHashType ==
    ASSUME NEW c \in Confs, NEW k \in Versions, NEW s \in SyncRecords, lists \in Versions,
           UpdateHash(c, k, s)
    PROVE  generation' = c /\ sync' \in SyncRecords /\ sync'.expected.conf = c
<1>1. Digest(c, lists, k) \in Hashes /\ Digest(c, lists, k).conf = c
  BY DigestType
<1> QED
  BY <1>1, Zenon DEF UpdateHash, ExpectHash, SyncRecords

(* The start of an apply makes records older and does not touch what       *)
(* dnsmasq serves or its conf-script has.                                  *)
LEMMA AppliesType ==
    ASSUME KnowledgeOK, OutsideOK, NEW c \in Confs, NEW k \in Versions,
           NEW p \in ProbeRecords, Applies(c, k, p)
    PROVE  /\ generation' = c /\ sync' \in SyncRecords /\ sync'.expected.conf = c
           /\ probe' \in ProbeRecords
           /\ dnsmasq' \in DnsmasqRecords
           /\ dnsmasq'.at = dnsmasq.at /\ dnsmasq'.has = dnsmasq.has
           /\ helper' \in HelperRecords
           /\ helper'.at = helper.at /\ helper'.out = helper.out
           /\ helper'.has = helper.has /\ helper'.calm = helper.calm
           /\ helper'.refused = helper.refused /\ dnsmasq'.refused = dnsmasq.refused
           /\ budget' \in BudgetRecords
<1>1. PICK same \in BOOLEAN :
        /\ StartApply(c, k, p, same)
        /\ helper' = [helper EXCEPT !.ts = Aged(@, same)]
        /\ IF same THEN Fault ELSE UNCHANGED budget
  BY DEF Applies
<1>2. ApplyStarted(sync, Aged(sync.ts, same)) \in SyncRecords
  BY AgedType, Zenon DEF ApplyStarted, SyncRecords, KnowledgeOK
<1>3. generation' = c /\ sync' \in SyncRecords /\ sync'.expected.conf = c
  BY <1>1, <1>2, UpdateHashType DEF StartApply, KnowledgeOK
<1>4. probe' \in ProbeRecords
  BY <1>1, AgedType DEF StartApply, ProbeRecords
<1>5. /\ dnsmasq' \in DnsmasqRecords /\ dnsmasq'.at = dnsmasq.at /\ dnsmasq'.has = dnsmasq.has
      /\ dnsmasq'.refused = dnsmasq.refused
  BY <1>1, AgedType DEF StartApply, DnsmasqRecords, KnowledgeOK
<1>6. /\ helper' \in HelperRecords
      /\ helper'.at = helper.at /\ helper'.out = helper.out
      /\ helper'.has = helper.has /\ helper'.calm = helper.calm
      /\ helper'.refused = helper.refused
  BY <1>1, AgedType DEF HelperRecords, OutsideOK
<1>7. budget' \in BudgetRecords
  BY <1>1, FaultType DEF OutsideOK
<1> QED
  BY <1>3, <1>4, <1>5, <1>6, <1>7

(* refresh_resolver_config_hash_actual_async() leaves the expected hash    *)
(* alone.                                                                  *)
LEMMA ProbeAsyncType ==
    ASSUME KnowledgeOK, ProbeAsync(active, probe, sync)
    PROVE  /\ sync' \in SyncRecords /\ probe' \in ProbeRecords
           /\ sync'.expected = sync.expected
<1>1. RuntimeStopped(sync) \in SyncRecords /\ RuntimeStopped(sync).expected = sync.expected
  BY NoHashType, Zenon DEF RuntimeStopped, SyncRecords, KnowledgeOK, Statuses, Ages, None
<1>2. [NoProbe EXCEPT !.at = "asking", !.fresh = TRUE] \in ProbeRecords
  BY NoProbeType, Zenon DEF ProbeRecords
<1> QED
  BY <1>1, <1>2 DEF ProbeAsync, KnowledgeOK

(* No conf-script is running.                                              *)
LEMMA NoHelperType == NoHelper \in HelperRecords
<1>1. "none" \in HelperStages /\ 0 \in 0 .. 2 /\ None \in Ages
  BY DEF HelperStages, Ages
<1> QED
  BY <1>1, NoHashType DEF NoHelper, HelperRecords

(* A restart begins with a conf-script that asks the daemon when dnsmasq   *)
(* is managed, the daemon is there and the connection does not fail.       *)
LEMMA RestartType ==
    ASSUME OutsideOK, alive \in BOOLEAN, NEW refused \in BOOLEAN, Restart(refused)
    PROVE  /\ dnsmasq' \in DnsmasqRecords /\ dnsmasq'.at = "loading"
           /\ helper' \in HelperRecords /\ helper'.refused = refused
           /\ helper'.calm = (alive /\ phase \notin Ended)
           /\ stream' \in StreamRecords /\ ~stream'.peer
           /\ helper'.at \in {"static", "asking", "daemon_unavailable"}
           /\ service.managed => helper'.at # "static"
           /\ helper'.at = "daemon_unavailable" => ~alive \/ refused
<1>1. /\ Connects(refused) \in {"static", "asking", "daemon_unavailable"}
      /\ service.managed => Connects(refused) # "static"
      /\ Connects(refused) = "daemon_unavailable" => ~alive \/ refused
  BY DEF Connects, OutsideOK, ServiceRecords
<1>2. dnsmasq' \in DnsmasqRecords /\ dnsmasq'.at = "loading"
  BY NoHashType DEF Restart, DnsmasqRecords, Ages, None
<1>3. /\ helper' \in HelperRecords /\ helper'.at = Connects(refused)
      /\ helper'.refused = refused /\ helper'.calm = (alive /\ phase \notin Ended)
  <2>1. Connects(refused) \in HelperStages /\ (alive /\ phase \notin Ended) \in BOOLEAN
    BY <1>1 DEF HelperStages
  <2> QED
    BY <2>1, NoHelperType, Zenon DEF Restart, HelperRecords
<1>4. stream' \in StreamRecords /\ ~stream'.peer
  BY Zenon DEF Restart, OutsideOK, StreamRecords
<1> QED
  BY <1>1, <1>2, <1>3, <1>4

(* No call is under way.                                                   *)
LEMMA NoChildType == NoChild \in ChildRecords /\ ~NoChild.timedOut /\ NoChild.at = "idle"
  BY DEF NoChild, ChildRecords, Kinds

(* A call that is forgotten leaves nothing to say.                         *)
LEMMA NoChildInv == child' = NoChild => ChildInv'
  BY NoChildType DEF ChildInv, TimeoutLeavesNoProcess

(* A call begins.                                                          *)
LEMMA SpawnInv ==
    ASSUME NEW k \in Kinds, Spawn(k) \/ SpawnFails(k) PROVE ChildInv'
<1>1. ASSUME NEW d \in BOOLEAN, NEW a \in {"wait", "io"}, NEW l \in Int,
             child' = [NoChild EXCEPT !.at = a, !.kind = k, !.proc = "running", !.deaf = d,
                                      !.left = l]
      PROVE  ChildInv'
  <2>1. child' \in ChildRecords /\ child'.at = a /\ child'.timedOut = NoChild.timedOut
    BY <1>1, NoChildType, Zenon DEF ChildRecords
  <2> QED
    BY <2>1, NoChildType DEF ChildInv, TimeoutLeavesNoProcess
<1>2. CASE SpawnFails(k)
  <2>1. /\ child' \in ChildRecords /\ child'.at = "returned" /\ child'.proc = NoChild.proc
        /\ child'.timedOut = NoChild.timedOut /\ child'.result = "failed"
    BY <1>2, NoChildType, Zenon DEF SpawnFails, ChildRecords
  <2>2. NoChild.proc # "running"
    BY DEF NoChild
  <2> QED
    BY <2>1, <2>2, NoChildType DEF ChildInv, TimeoutLeavesNoProcess
<1>3. CASE Spawn(k)
  <2>1. PICK d \in BOOLEAN :
          child' = [NoChild EXCEPT !.at = IF k = "exec" THEN "wait" ELSE "io", !.kind = k,
                                   !.proc = "running", !.deaf = d,
                                   !.left = IF k = "pipe" THEN InputSize ELSE 0]
    BY <1>3, Zenon DEF Spawn
  <2>2. /\ (IF k = "exec" THEN "wait" ELSE "io") \in {"wait", "io"}
        /\ (IF k = "pipe" THEN InputSize ELSE 0) \in Int
    BY SizesAssumption
  <2> QED
    BY <1>1, <2>1, <2>2, Zenon
<1> QED
  BY <1>2, <1>3

(* A step of the call, of its command or of the clock                      *)
LEMMA CallInv == ASSUME ChildInv, CallStep \/ Deadline \/ CommandStep PROVE ChildInv'
<1> USE DEF ChildInv, ChildRecords, TimeoutLeavesNoProcess, Alive
<1>1. CASE WriteInput
  <2>1. child.at = "io" /\ ~child.timedOut
    BY <1>1 DEF WriteInput
  <2>2. CASE child' = [child EXCEPT !.at = "wait"]
    BY <2>1, <2>2
  <2>3. ASSUME NEW p \in Int, NEW l \in Int, child' = [child EXCEPT !.pipe = p, !.left = l]
        PROVE  ChildInv'
    BY <2>1, <2>3, Zenon
  <2>4. child.pipe + 1 \in Int /\ child.left - 1 \in Int
    OBVIOUS
  <2> QED
    BY <1>1, <2>2, <2>3, <2>4, ZenonT(40) DEF WriteInput
<1>2. CASE ReadOutput
  <2>1. child.at = "io" /\ ~child.timedOut
    BY <1>2 DEF ReadOutput
  <2>2. CASE child' = [child EXCEPT !.at = "wait", !.now = TRUE]
    BY <2>1, <2>2, Zenon
  <2>3. ASSUME NEW over \in BOOLEAN, NEW a \in {"wait", "io"}, NEW p \in Int, NEW g \in Int,
               child' = [child EXCEPT !.pipe = p, !.got = g, !.now = over, !.at = a]
        PROVE  ChildInv'
    BY <2>1, <2>3, Zenon
  <2>4. CASE child' = [child EXCEPT !.at = "wait"]
    BY <2>1, <2>4
  <2>5. CASE child' = [child EXCEPT !.pipe = @ - 1, !.got = @ + 1,
                                    !.now = child.got + 1 > MaxBytes,
                                    !.at = IF child.got + 1 > MaxBytes THEN "wait" ELSE "io"]
    <3>1. /\ child.pipe - 1 \in Int /\ child.got + 1 \in Int
          /\ (child.got + 1 > MaxBytes) \in BOOLEAN
          /\ (IF child.got + 1 > MaxBytes THEN "wait" ELSE "io") \in {"wait", "io"}
      OBVIOUS
    <3> QED
      BY <2>3, <2>5, <3>1, Zenon
  <2> QED
    BY <1>2, <2>2, <2>4, <2>5 DEF ReadOutput
<1>3. CASE Reap
  BY <1>3, Zenon DEF Reap, Returns, ExitCode
<1>4. CASE Terminate
  <2>1. child.at = "wait" /\ child.proc = "running"
    BY <1>4 DEF Terminate
  <2>2. PICK h \in {FALSE, child.heirs} :
          child' = [(IF child.deaf THEN child ELSE [GroupGone(child) EXCEPT !.heirs = h])
                        EXCEPT !.at = "grace", !.timedOut = TRUE]
    BY <1>4, Zenon DEF Terminate
  <2>3. GroupGone(child) \in ChildRecords
    BY Zenon DEF GroupGone
  <2>4. child' \in ChildRecords /\ child'.at = "grace"
    BY <2>2, <2>3, Zenon
  <2> QED
    BY <2>4
<1>5. CASE ReapInGrace
  BY <1>5, ZenonT(40) DEF ReapInGrace, Returns, ExitCode, GroupGone
<1>6. CASE Kill
  BY <1>6, ZenonT(40) DEF Kill, Returns, ExitCode, GroupGone
<1>7. CASE Deadline
  BY <1>7, Zenon DEF Deadline, InCall
<1>8. CASE ChildUsesPipe
  BY <1>8 DEF ChildUsesPipe
<1>9. CASE ChildForks
  BY <1>9, Zenon DEF ChildForks
<1>10. CASE ChildExits
  BY <1>10, Zenon DEF ChildExits
<1>11. CASE HeirsExit
  BY <1>11, Zenon DEF HeirsExit
<1> QED
  BY <1>1, <1>2, <1>3, <1>4, <1>5, <1>6, <1>7, <1>8, <1>9, <1>10, <1>11 DEF CallStep,
     CommandStep

-----------------------------------------------------------------------------
(* A new operation: apply, stop or start.                                  *)
LEMMA OpSubmitStep == ASSUME Inv, OpSubmit PROVE Inv'
<1> USE DEF Inv, TypeOK
<1>1. op.at = "idle" /\ alive /\ op' \in OpRecords /\ op'.ok /\ ~op'.skipped
      /\ \/ op'.at = "reconcile" /\ op'.kind = "apply" /\ op'.conf \in Confs
         \/ op'.at = "teardown" /\ op'.kind = "stop" /\ op'.conf = config
         \/ op'.at = "setup" /\ op'.kind = "start" /\ op'.conf = config
  BY NoHashType, Zenon DEF OpSubmit, NoOp, OpRecords, OpStages, KnowledgeOK, None
<1>2. budget' \in BudgetRecords
  <2>1. budget.ops > 0 /\ budget' = [budget EXCEPT !.ops = @ - 1]
    BY Zenon DEF OpSubmit
  <2> QED
    BY <2>1 DEF OutsideOK, BudgetRecords
<1>3. UNCHANGED <<knowledge, dnsmasq, alive, phase, loop, worker, since, outside>>
  BY Zenon DEF OpSubmit
<1>4. KnowledgeOK' /\ ChildInv' /\ HelperInv'
  BY KnowledgeKept, ChildKept, HelperKept, Zenon DEF OpSubmit, knowledge, control, outside
<1>5. ControlOK'
  BY <1>1, <1>2, <1>3 DEF ControlOK
<1>6. OutsideOK'
  BY <1>1, <1>2, <1>3 DEF OutsideOK, outside
<1>7. OpInv'
  BY <1>1, <1>2, <1>3 DEF OpInv, Serving, Generating, knowledge
<1>8. WorkerInv'
  BY <1>1, <1>2, <1>3 DEF WorkerInv, Serving, Generating, outside
<1>9. DnsmasqInv'
  BY <1>1, <1>2, <1>3 DEF DnsmasqInv, Serving, outside
<1> QED
  BY <1>4, <1>5, <1>6, <1>7, <1>8, <1>9

(* The kernel part of an apply makes its configuration the one that is     *)
(* generated and expected, or fails.                                       *)
LEMMA OpReconcileStep == ASSUME Inv, OpReconcile PROVE Inv'
<1> USE DEF Inv, TypeOK
<1>1. /\ op.at = "reconcile" /\ loop = "free" /\ op.kind = "apply" /\ op.conf \in Confs /\ alive
      /\ config' = op.conf
      /\ UNCHANGED <<lists, rci, child, alive, loop, worker, since, stream, service>>
  BY DEF OpReconcile, OpInv
<1>2. /\ keen' \in Versions /\ sync' \in SyncRecords /\ probe' \in ProbeRecords
      /\ dnsmasq' \in DnsmasqRecords /\ dnsmasq'.at = dnsmasq.at /\ dnsmasq'.has = dnsmasq.has
      /\ helper' \in HelperRecords /\ helper'.at = helper.at /\ helper'.out = helper.out
      /\ helper'.has = helper.has /\ helper'.calm = helper.calm
      /\ helper'.refused = helper.refused /\ dnsmasq'.refused = dnsmasq.refused
      /\ op' \in OpRecords /\ generation' \in Confs /\ budget' \in BudgetRecords
      /\ \/ /\ active' /\ phase' = "serving" /\ op'.at = "decide" /\ op'.kind = op.kind
            /\ op'.conf = op.conf /\ op'.ok = op.ok /\ op'.skipped = op.skipped
            /\ generation' = config' /\ sync'.expected.conf = config'
         \/ /\ op'.at = "markBroken" /\ ~op'.ok /\ op'.conf = op.conf
            /\ UNCHANGED <<active, phase>>
  <2>1. PICK k \in Versions :
          /\ RefreshKeenetic(k)
          /\ \/ /\ Applies(op.conf, k, Outdated)
                /\ active' = TRUE /\ phase' = "serving"
                /\ OpMoves("decide")
             \/ /\ probe' = Outdated /\ OpFails /\ Fault
                /\ UNCHANGED <<generation, sync, active, dnsmasq, phase, helper>>
    BY DEF OpReconcile
  <2>2. keen' \in Versions /\ Outdated \in ProbeRecords
    BY <2>1, OutdatedType DEF RefreshKeenetic, KnowledgeOK
  <2>3. CASE Applies(op.conf, k, Outdated) /\ active' = TRUE /\ phase' = "serving"
             /\ OpMoves("decide")
    BY <1>1, <2>2, <2>3, AppliesType, OpMovesType, Zenon DEF ControlOK, KnowledgeOK, OpStages
  <2>4. CASE probe' = Outdated /\ OpFails /\ Fault
             /\ UNCHANGED <<generation, sync, active, dnsmasq, phase, helper>>
    BY <2>2, <2>4, OpFailsType, FaultType DEF ControlOK, KnowledgeOK, OutsideOK
  <2> QED
    BY <2>1, <2>3, <2>4, Zenon
<1>3. ChildInv'
  BY ChildKept DEF OpReconcile, knowledge, control, outside
<1>4. KnowledgeOK'
  BY <1>1, <1>2, Zenon DEF KnowledgeOK
<1>5. ControlOK'
  BY <1>1, <1>2 DEF ControlOK
<1>6. OutsideOK'
  BY <1>1, <1>2 DEF OutsideOK
<1>7. HelperInv'
  BY <1>1, <1>2 DEF HelperInv, FallbackIsALifecycleDecision, Ended
<1>8. OpInv'
  BY <1>1, <1>2 DEF OpInv, Serving, Generating
<1>9. WorkerInv'
  BY <1>1, <1>2 DEF WorkerInv, Serving, Generating
<1>10. DnsmasqInv'
  BY <1>1, <1>2 DEF DnsmasqInv, Serving
<1> QED
  BY <1>3, <1>4, <1>5, <1>6, <1>7, <1>8, <1>9, <1>10

(* Skip or reload: what is expected from here on is the hash of the        *)
(* operation's configuration.                                              *)
LEMMA OpDecideStep == ASSUME Inv, OpDecide PROVE Inv'
<1> USE DEF Inv, TypeOK
<1>1. /\ op.at = "decide" /\ op' \in OpRecords /\ op'.kind = op.kind
      /\ op'.conf = op.conf /\ op'.ok = op.ok
      /\ \/ op'.at = "finalize" /\ op'.skipped
         \/ op'.at = "reload" /\ op'.expect = sync.expected
  BY Zenon DEF OpDecide, ControlOK, KnowledgeOK, OpRecords, OpStages, SyncRecords,
     ResolverIsCurrent
<1>2. UNCHANGED <<knowledge, dnsmasq, alive, phase, loop, worker, since, outside>>
  BY DEF OpDecide
<1>3. KnowledgeOK' /\ OutsideOK' /\ ChildInv' /\ HelperInv'
  BY KnowledgeKept, OutsideKept, ChildKept, HelperKept DEF OpDecide, knowledge,
       control, outside
<1>4. ControlOK'
  BY <1>1, <1>2 DEF ControlOK
<1>5. OpInv'
  BY <1>1, <1>2 DEF OpInv, Serving, Generating, knowledge
<1>6. WorkerInv'
  BY <1>1, <1>2 DEF WorkerInv, Serving, Generating, outside
<1>7. DnsmasqInv'
  BY <1>1, <1>2 DEF DnsmasqInv, Serving, outside
<1> QED
  BY <1>3, <1>4, <1>5, <1>6, <1>7

(* A stop takes the calm from a conf-script that is running.               *)
LEMMA OpTeardownStep == ASSUME Inv, OpTeardown PROVE Inv'
<1> USE DEF Inv, TypeOK
<1>1. /\ op.at = "teardown" /\ loop = "free" /\ op' \in OpRecords /\ op'.at = "fallback"
      /\ op'.kind = op.kind /\ op'.conf = op.conf
  BY OpMovesType DEF OpTeardown, ControlOK, OpStages
<1>2. /\ helper' \in HelperRecords /\ helper'.at = helper.at /\ helper'.out = helper.out
      /\ helper'.refused = helper.refused /\ probe' \in ProbeRecords
      /\ \/ ~active' /\ active' \in BOOLEAN /\ phase' = "stopped" /\ ~helper'.calm
         \/ UNCHANGED <<active, phase>> /\ helper'.calm = helper.calm
  BY OutdatedType, Zenon DEF OpTeardown, KnowledgeOK, OutsideOK, HelperRecords
<1>3. UNCHANGED <<config, lists, keen, rci, generation, sync, dnsmasq, alive, loop,
                  worker, since, stream, service, budget>>
  BY DEF OpTeardown
<1>4. ChildInv'
  BY ChildKept DEF OpTeardown, knowledge, control, outside
<1>5. KnowledgeOK'
  BY <1>1, <1>2, <1>3 DEF KnowledgeOK
<1>6. ControlOK'
  BY <1>1, <1>2, <1>3 DEF ControlOK
<1>7. OutsideOK'
  BY <1>1, <1>2, <1>3 DEF OutsideOK
<1>8. HelperInv'
  BY <1>1, <1>2, <1>3 DEF HelperInv, FallbackIsALifecycleDecision
<1>9. OpInv'
  BY <1>1, <1>2, <1>3 DEF OpInv, Serving, Generating
<1>10. WorkerInv'
  BY <1>1, <1>2, <1>3 DEF WorkerInv, Serving, Generating
<1>11. DnsmasqInv'
  BY <1>1, <1>2, <1>3 DEF DnsmasqInv, Serving
<1> QED
  BY <1>4, <1>5, <1>6, <1>7, <1>8, <1>9, <1>10, <1>11

(* The kernel part of a start, as in an apply.                             *)
LEMMA OpSetupStep == ASSUME Inv, OpSetup PROVE Inv'
<1> USE DEF Inv, TypeOK
<1>1. /\ op.at = "setup" /\ loop = "free" /\ op.kind = "start" /\ op.conf = config /\ alive
      /\ config \in Confs
      /\ UNCHANGED <<config, lists, rci, child, alive, loop, worker, since, stream,
                     service>>
  BY DEF OpSetup, OpInv, KnowledgeOK
<1>2. ASSUME ~active PROVE
      /\ keen' \in Versions /\ sync' \in SyncRecords /\ probe' \in ProbeRecords
      /\ dnsmasq' \in DnsmasqRecords /\ dnsmasq'.at = dnsmasq.at /\ dnsmasq'.has = dnsmasq.has
      /\ helper' \in HelperRecords /\ helper'.at = helper.at /\ helper'.out = helper.out
      /\ helper'.has = helper.has /\ helper'.calm = helper.calm
      /\ helper'.refused = helper.refused /\ dnsmasq'.refused = dnsmasq.refused
      /\ op' \in OpRecords /\ generation' \in Confs /\ budget' \in BudgetRecords
      /\ \/ /\ active' /\ phase' = "serving" /\ op'.at = "reload" /\ op'.kind = op.kind
            /\ op'.conf = op.conf /\ op'.ok = op.ok /\ op'.skipped = op.skipped
            /\ generation' = config' /\ sync'.expected.conf = config'
         \/ /\ op'.at = "markBroken" /\ ~op'.ok /\ op'.conf = op.conf
            /\ UNCHANGED <<active, phase>>
  <2>1. PICK k \in Versions :
          /\ RefreshKeenetic(k)
          /\ \/ /\ Applies(config, k, Outdated)
                /\ active' = TRUE /\ phase' = "serving"
                /\ OpMoves("reload")
             \/ /\ probe' = Outdated /\ OpFails /\ Fault
                /\ UNCHANGED <<generation, sync, active, dnsmasq, phase, helper>>
    BY <1>2 DEF OpSetup
  <2>2. keen' \in Versions /\ Outdated \in ProbeRecords
    BY <2>1, OutdatedType DEF RefreshKeenetic, KnowledgeOK
  <2>3. CASE Applies(config, k, Outdated) /\ active' = TRUE /\ phase' = "serving"
             /\ OpMoves("reload")
    BY <1>1, <1>2, <2>2, <2>3, AppliesType, OpMovesType, Zenon DEF ControlOK, KnowledgeOK,
       OpStages
  <2>4. CASE probe' = Outdated /\ OpFails /\ Fault
             /\ UNCHANGED <<generation, sync, active, dnsmasq, phase, helper>>
    BY <2>2, <2>4, OpFailsType, FaultType DEF ControlOK, KnowledgeOK, OutsideOK
  <2> QED
    BY <2>1, <2>3, <2>4, Zenon
<1>3. ASSUME active PROVE
      /\ UNCHANGED <<keen, generation, sync, probe, active, dnsmasq, phase, helper,
                     budget>>
      /\ op' \in OpRecords /\ op'.at = "reload" /\ op'.kind = op.kind /\ op'.conf = op.conf
      /\ op'.ok = op.ok /\ op'.skipped = op.skipped
  BY <1>3, OpMovesType DEF OpSetup, ControlOK, OpStages
<1>4. active \in BOOLEAN
  BY DEF KnowledgeOK
<1>5. ChildInv'
  BY ChildKept DEF OpSetup, knowledge, control, outside
<1>6. KnowledgeOK'
  BY <1>1, <1>2, <1>3, <1>4, Zenon DEF KnowledgeOK
<1>7. ControlOK'
  BY <1>1, <1>2, <1>3, <1>4 DEF ControlOK
<1>8. OutsideOK'
  BY <1>1, <1>2, <1>3, <1>4 DEF OutsideOK
<1>9. HelperInv'
  BY <1>1, <1>2, <1>3, <1>4 DEF HelperInv, FallbackIsALifecycleDecision, Ended
<1>10. OpInv'
  BY <1>1, <1>2, <1>3, <1>4 DEF OpInv, Serving, Generating
<1>11. WorkerInv'
  BY <1>1, <1>2, <1>3, <1>4 DEF WorkerInv, Serving, Generating
<1>12. DnsmasqInv'
  BY <1>1, <1>2, <1>3, <1>4 DEF DnsmasqInv, Serving
<1> QED
  BY <1>5, <1>6, <1>7, <1>8, <1>9, <1>10, <1>11, <1>12

(* The confirmation is where AppliedServes is gained: dnsmasq is up with   *)
(* the expected hash, so no conf-script is under way.                      *)
LEMMA OpVerifyStep == ASSUME Inv, OpVerify PROVE Inv'
<1> USE DEF Inv, TypeOK
<1>1. /\ op.at = "verify"
      /\ op' \in OpRecords /\ budget' \in BudgetRecords
      /\ \/ /\ op'.at = "finalize" /\ op'.kind = op.kind /\ op'.conf = op.conf
            /\ op'.ok = op.ok /\ op'.skipped = op.skipped
            /\ ConfirmationMatches(IF op.kind = "apply" THEN op.expect ELSE sync.expected)
         \/ op'.at = "markBroken" /\ ~op'.ok /\ op'.conf = op.conf
  BY OpMovesType, OpFailsType, FaultType DEF OpVerify, ControlOK, OutsideOK, OpStages
<1>2. UNCHANGED <<knowledge, dnsmasq, alive, phase, loop, worker, since, outside>>
  BY DEF OpVerify
<1>3. KnowledgeOK' /\ ChildInv' /\ HelperInv'
  BY KnowledgeKept, ChildKept, HelperKept, Zenon DEF OpVerify, knowledge, control, outside
<1>4. ControlOK'
  BY <1>1, <1>2 DEF ControlOK
<1>5. OutsideOK'
  BY <1>1, <1>2 DEF OutsideOK, outside
<1>6. OpInv'
  BY <1>1, <1>2, SMTT(30) DEF OpInv, Serving, Generating, knowledge
<1>7. WorkerInv'
  BY <1>1, <1>2, Zenon DEF WorkerInv, Serving, Generating, outside
<1>8. DnsmasqInv'
  BY <1>1, <1>2 DEF DnsmasqInv, Serving, OpInv, Generating, ConfirmationMatches,
       outside, FallbackReasons
<1> QED
  BY <1>3, <1>4, <1>5, <1>6, <1>7, <1>8

(* complete_running_runtime() changes no configuration.                    *)
LEMMA OpFinalizeStep == ASSUME Inv, OpFinalize PROVE Inv'
<1> USE DEF Inv, TypeOK
<1>1. /\ op.at = "finalize" /\ phase # "shutting_down" /\ phase' = "serving"
      /\ op' \in OpRecords /\ op'.at = "finish" /\ op'.kind = op.kind /\ op'.conf = op.conf
      /\ op'.ok = op.ok /\ op'.skipped = op.skipped
  BY OpMovesType DEF OpFinalize, OpInv, ControlOK, OpStages
<1>2. /\ sync' \in SyncRecords /\ probe' \in ProbeRecords
      /\ sync'.expected = sync.expected
  BY ProbeAsyncType DEF OpFinalize
<1>3. UNCHANGED <<config, lists, keen, rci, generation, active, dnsmasq, alive, loop,
                  worker, since, outside>>
  BY DEF OpFinalize
<1>4. OutsideOK' /\ ChildInv'
  BY OutsideKept, ChildKept DEF OpFinalize, knowledge, control, outside
<1>5. KnowledgeOK'
  BY <1>1, <1>2, <1>3 DEF KnowledgeOK
<1>6. ControlOK'
  BY <1>1, <1>2, <1>3 DEF ControlOK
<1>7. HelperInv'
  BY <1>1, <1>2, <1>3 DEF HelperInv, FallbackIsALifecycleDecision, Ended, outside
<1>8. OpInv'
  BY <1>1, <1>2, <1>3 DEF OpInv, Serving, Generating
<1>9. WorkerInv'
  BY <1>1, <1>2, <1>3 DEF WorkerInv, Serving, Generating, outside
<1>10. DnsmasqInv'
  BY <1>1, <1>2, <1>3 DEF DnsmasqInv, Serving, outside
<1> QED
  BY <1>4, <1>5, <1>6, <1>7, <1>8, <1>9, <1>10

(* A failed operation is not ok, and owes nothing.                         *)
LEMMA OpMarkBrokenStep == ASSUME Inv, OpMarkBroken PROVE Inv'
<1> USE DEF Inv, TypeOK
<1>1. /\ op.at = "markBroken" /\ loop = "free" /\ phase' = "serving"
      /\ op' \in OpRecords /\ op'.at = "finish" /\ op'.conf = op.conf /\ ~op'.ok
  BY OpMovesType DEF OpMarkBroken, ControlOK, OpStages, OpInv
<1>2. UNCHANGED <<knowledge, dnsmasq, alive, loop, worker, since, outside>>
  BY DEF OpMarkBroken
<1>3. KnowledgeOK' /\ OutsideOK' /\ ChildInv'
  BY KnowledgeKept, OutsideKept, ChildKept DEF OpMarkBroken, knowledge, control,
       outside
<1>4. ControlOK'
  BY <1>1, <1>2 DEF ControlOK
<1>5. HelperInv'
  BY <1>1, <1>2 DEF HelperInv, FallbackIsALifecycleDecision, Ended, outside
<1>6. OpInv'
  BY <1>1, <1>2 DEF OpInv, Serving, Generating, knowledge
<1>7. WorkerInv'
  BY <1>1, <1>2 DEF WorkerInv, Serving, Generating, outside
<1>8. DnsmasqInv'
  BY <1>1, <1>2 DEF DnsmasqInv, Serving, outside
<1> QED
  BY <1>3, <1>4, <1>5, <1>6, <1>7, <1>8

(* The operation is over.                                                  *)
LEMMA OpFinishStep == ASSUME Inv, OpFinish PROVE Inv'
<1> USE DEF Inv, TypeOK
<1>1. op.at = "finish" /\ op' \in OpRecords /\ op'.at = "idle"
  BY NoHashType DEF OpFinish, NoOp, OpRecords, OpStages, None
<1>2. UNCHANGED <<knowledge, dnsmasq, alive, phase, loop, worker, since, outside>>
  BY DEF OpFinish
<1>3. KnowledgeOK' /\ OutsideOK' /\ ChildInv' /\ HelperInv'
  BY KnowledgeKept, OutsideKept, ChildKept, HelperKept DEF OpFinish, knowledge,
       control, outside
<1>4. ControlOK'
  BY <1>1, <1>2 DEF ControlOK
<1>5. OpInv'
  BY <1>1, <1>2 DEF OpInv, Serving, Generating, knowledge
<1>6. WorkerInv'
  BY <1>1, <1>2 DEF WorkerInv, Serving, Generating, outside
<1>7. DnsmasqInv'
  BY <1>1, <1>2 DEF DnsmasqInv, Serving, outside
<1> QED
  BY <1>3, <1>4, <1>5, <1>6, <1>7

(* The worker takes the hook of the operation that waits for it, or the    *)
(* loop's.                                                                 *)
LEMMA HookBeginsStep == ASSUME Inv, HookBegins PROVE Inv'
<1> USE DEF Inv, TypeOK
<1>1. /\ worker = "idle" /\ since' \in [op : BOOLEAN, loop : BOOLEAN]
      /\ \/ op.at = "reload" /\ worker' = "reload"
         \/ op.at = "fallback" /\ worker' = "fallback"
         \/ worker' = "loop" /\ loop = "hook"
         \/ worker' = "shutdown" /\ loop = "closing"
  BY Zenon DEF HookBegins, ControlOK
<1>2. UNCHANGED <<knowledge, dnsmasq, alive, phase, op, loop, outside>>
  BY DEF HookBegins
<1>3. KnowledgeOK' /\ OutsideOK' /\ ChildInv' /\ HelperInv' /\ OpInv' /\ DnsmasqInv'
  BY KnowledgeKept, OutsideKept, ChildKept, HelperKept, OpKept, DnsmasqKept DEF
       HookBegins, knowledge, control, outside
<1>4. ControlOK'
  BY <1>1, <1>2 DEF ControlOK
<1>5. WorkerInv'
  BY <1>1, <1>2 DEF WorkerInv, Serving, Generating, outside
<1> QED
  BY <1>3, <1>4, <1>5

(* Only the hook of a stop or of the shutdown makes dnsmasq unmanaged.     *)
LEMMA HookOrdersStep == ASSUME Inv, HookOrders PROVE Inv'
<1> USE DEF Inv, TypeOK
<1>1. /\ worker \in {"reload", "fallback", "loop", "shutdown"}
      /\ service' \in ServiceRecords
      /\ worker \in {"reload", "loop"} => service'.managed
  BY Zenon DEF HookOrders, Hooks, Manages, OutsideOK, ServiceRecords
<1>2. UNCHANGED <<op, phase, worker, helper, stream, budget>>
  BY DEF HookOrders, control
<1>3. KnowledgeOK' /\ ControlOK' /\ ChildInv' /\ HelperInv' /\ OpInv' /\ DnsmasqInv'
  BY KnowledgeKept, ControlKept, ChildKept, HelperKept, OpKept, DnsmasqKept DEF
       HookOrders, knowledge, control, outside
<1>4. OutsideOK'
  BY <1>1, <1>2 DEF OutsideOK
<1>5. WorkerInv'
  BY <1>1, <1>2, Zenon DEF WorkerInv, Serving, Generating, ControlOK
<1> QED
  BY <1>3, <1>4, <1>5

(* A reload's hook that has returned well left dnsmasq managed.            *)
LEMMA HookReturnsSucceedsStep == ASSUME Inv, HookReturns(TRUE) PROVE Inv'
<1> USE DEF Inv, TypeOK
<1>1. \/ worker = "fallback" /\ worker' = "idle" /\ op'.at = "finish" /\ op' \in OpRecords
         /\ op'.kind = op.kind /\ op'.conf = op.conf /\ loop' = loop
      \/ worker = "reload" /\ worker' = "await" /\ service.managed /\ op' = op /\ loop' = loop
      \/ worker = "loop" /\ worker' = "idle" /\ op' = op /\ loop' = "await"
      \/ worker = "shutdown" /\ worker' = "idle" /\ op' = op /\ loop' = "drain"
  BY Zenon DEF HookReturns, Hooks, Ordered, Manages, ControlOK, OpRecords, OpStages
<1>2. /\ service' \in ServiceRecords /\ service'.managed = service.managed
  BY DEF HookReturns, OutsideOK, ServiceRecords
<1>3. UNCHANGED <<knowledge, dnsmasq, alive, phase, since, helper, stream, budget>>
  BY DEF HookReturns
<1>4. KnowledgeOK' /\ ChildInv' /\ HelperInv'
  BY KnowledgeKept, ChildKept, HelperKept DEF HookReturns, knowledge, control,
       outside
<1>5. ControlOK'
  BY <1>1, <1>2, <1>3 DEF ControlOK
<1>6. OutsideOK'
  BY <1>1, <1>2, <1>3 DEF OutsideOK
<1>7. OpInv'
  BY <1>1, <1>2, <1>3 DEF OpInv, Serving, Generating, WorkerInv, knowledge
<1>8. WorkerInv'
  BY <1>1, <1>2, <1>3 DEF WorkerInv, Serving, Generating, OpInv
<1>9. DnsmasqInv'
  BY <1>1, <1>2, <1>3 DEF DnsmasqInv, Serving, OpInv, WorkerInv
<1> QED
  BY <1>4, <1>5, <1>6, <1>7, <1>8, <1>9

(* A hook that failed makes its operation fail.                            *)
LEMMA HookReturnsFailsStep == ASSUME Inv, HookReturns(FALSE) PROVE Inv'
<1> USE DEF Inv, TypeOK
<1>1. /\ worker' = "idle"
      /\ \/ worker \in {"reload", "fallback"} /\ loop' = loop
         \/ worker = "loop" /\ loop' = "after"
         \/ worker = "shutdown" /\ loop' = "drain"
      /\ \/ op' \in OpRecords /\ op'.at = "markBroken" /\ ~op'.ok /\ op'.conf = op.conf
            /\ op.at \in {"reload", "fallback"}
         \/ op' = op
  BY Zenon DEF HookReturns, Hooks, ControlOK, OpRecords, OpStages, WorkerInv
<1>2. /\ service' \in ServiceRecords /\ service'.managed = service.managed
  BY DEF HookReturns, OutsideOK, ServiceRecords
<1>3. budget' \in BudgetRecords
  BY FaultType DEF HookReturns, OutsideOK
<1>4. UNCHANGED <<knowledge, dnsmasq, alive, phase, since, helper, stream>>
  BY DEF HookReturns
<1>5. KnowledgeOK' /\ ChildInv' /\ HelperInv'
  BY KnowledgeKept, ChildKept, HelperKept DEF HookReturns, knowledge, control,
       outside
<1>6. ControlOK'
  BY <1>1, <1>2, <1>3, <1>4 DEF ControlOK
<1>7. OutsideOK'
  BY <1>1, <1>2, <1>3, <1>4 DEF OutsideOK
<1>8. OpInv'
  BY <1>1, <1>2, <1>3, <1>4, SMTT(30) DEF OpInv, Serving, Generating, knowledge
<1>9. WorkerInv'
  BY <1>1, <1>2, <1>3, <1>4 DEF WorkerInv, Serving, Generating
<1>10. DnsmasqInv'
  BY <1>1, <1>2, <1>3, <1>4 DEF DnsmasqInv, Serving
<1> QED
  BY <1>5, <1>6, <1>7, <1>8, <1>9, <1>10

(* After a stream the hash is computed again, from the same                *)
(* configuration.                                                          *)
LEMMA OpAwaitsStep == ASSUME Inv, OpAwaits PROVE Inv'
<1> USE DEF Inv, TypeOK
<1>1. /\ worker = "await" /\ worker' = "idle" /\ op.at = "reload" /\ service.managed
      /\ since' \in [op : BOOLEAN, loop : BOOLEAN]
  BY Zenon DEF OpAwaits, WorkerInv, ControlOK
<1>2. /\ op' \in OpRecords /\ sync' \in SyncRecords /\ op'.conf = op.conf
      /\ \/ /\ op'.at = "verify" /\ op'.kind = op.kind /\ op'.expect = op.expect
            /\ generation' = config /\ sync'.expected.conf = config
         \/ op'.at = "markBroken" /\ ~op'.ok /\ UNCHANGED <<generation, sync>>
  BY UpdateHashType, OpMovesType, OpFailsType DEF OpAwaits, KnowledgeOK, ControlOK,
     OpStages
<1>3. UNCHANGED <<config, lists, keen, rci, probe, active, dnsmasq, alive, phase, loop,
                  outside>>
  BY DEF OpAwaits
<1>4. OutsideOK' /\ ChildInv' /\ HelperInv'
  BY OutsideKept, ChildKept, HelperKept DEF OpAwaits, knowledge, control, outside
<1>5. KnowledgeOK'
  BY <1>1, <1>2, <1>3 DEF KnowledgeOK
<1>6. ControlOK'
  BY <1>1, <1>2, <1>3 DEF ControlOK
<1>7. OpInv'
  BY <1>1, <1>2, <1>3 DEF OpInv, Serving, Generating
<1>8. WorkerInv'
  BY <1>1, <1>2, <1>3 DEF WorkerInv, Serving, Generating, outside
<1>9. DnsmasqInv'
  BY <1>1, <1>2, <1>3 DEF DnsmasqInv, Serving, outside
<1> QED
  BY <1>4, <1>5, <1>6, <1>7, <1>8, <1>9

(* The Keenetic task generates from the configuration in force.            *)
LEMMA KeeneticTaskStep == ASSUME Inv, KeeneticTask PROVE Inv'
<1> USE DEF Inv, TypeOK
<1>1. PICK k \in Versions : RefreshKeenetic(k) /\ Applies(config, k, probe)
  BY DEF KeeneticTask
<1>2. /\ keen' \in Versions /\ generation' = config
      /\ sync' \in SyncRecords /\ sync'.expected.conf = config
      /\ probe' \in ProbeRecords /\ dnsmasq' \in DnsmasqRecords
      /\ dnsmasq'.at = dnsmasq.at /\ dnsmasq'.has = dnsmasq.has
      /\ helper' \in HelperRecords /\ helper'.at = helper.at /\ helper'.out = helper.out
      /\ helper'.has = helper.has /\ helper'.calm = helper.calm
      /\ helper'.refused = helper.refused /\ dnsmasq'.refused = dnsmasq.refused
      /\ budget' \in BudgetRecords
  BY <1>1, AppliesType DEF RefreshKeenetic, KnowledgeOK
<1>3. /\ loop = "free" /\ loop' = "hook" /\ since' \in [op : BOOLEAN, loop : BOOLEAN]
      /\ UNCHANGED <<config, lists, rci, active, alive, phase, op, worker, stream,
                     service>>
  BY Zenon DEF KeeneticTask, ControlOK
<1>4. ChildInv' /\ WorkerInv'
  BY ChildKept, WorkerKept DEF KeeneticTask, knowledge, control, outside
<1>5. KnowledgeOK'
  BY <1>1, <1>2, <1>3 DEF KnowledgeOK
<1>6. ControlOK'
  BY <1>1, <1>2, <1>3 DEF ControlOK
<1>7. OutsideOK'
  BY <1>1, <1>2, <1>3 DEF OutsideOK
<1>8. HelperInv'
  BY <1>1, <1>2, <1>3 DEF HelperInv, FallbackIsALifecycleDecision
<1>9. OpInv'
  BY <1>1, <1>2, <1>3 DEF OpInv, Serving, Generating
<1>10. DnsmasqInv'
  BY <1>1, <1>2, <1>3, Zenon DEF DnsmasqInv, Serving
<1> QED
  BY <1>4, <1>5, <1>6, <1>7, <1>8, <1>9, <1>10

(* So does the wait behind its reload.                                     *)
LEMMA LoopAwaitsStep == ASSUME Inv, LoopAwaits PROVE Inv'
<1> USE DEF Inv, TypeOK
<1>1. /\ sync' \in SyncRecords
      /\ \/ generation' = config /\ sync'.expected.conf = config
         \/ UNCHANGED <<generation, sync>>
  BY UpdateHashType DEF LoopAwaits, KnowledgeOK
<1>2. /\ loop = "await" /\ loop' = "after" /\ since' \in [op : BOOLEAN, loop : BOOLEAN]
      /\ UNCHANGED <<config, lists, keen, rci, probe, active, dnsmasq, alive, phase,
                     op, worker>>
  BY Zenon DEF LoopAwaits, ControlOK
<1>3. OutsideOK' /\ ChildInv' /\ HelperInv' /\ WorkerInv' /\ DnsmasqInv'
  BY OutsideKept, ChildKept, HelperKept, WorkerKept, DnsmasqKept DEF LoopAwaits,
       knowledge, control, outside
<1>4. KnowledgeOK'
  BY <1>1, <1>2 DEF KnowledgeOK
<1>5. ControlOK'
  BY <1>1, <1>2 DEF ControlOK
<1>6. OpInv'
  BY <1>1, <1>2 DEF OpInv, Serving, Generating
<1> QED
  BY <1>3, <1>4, <1>5, <1>6

(* The loop goes on and asks dnsmasq what it serves.                       *)
LEMMA LoopResumesStep == ASSUME Inv, LoopResumes PROVE Inv'
<1> USE DEF Inv, TypeOK
<1>1. /\ sync' \in SyncRecords /\ probe' \in ProbeRecords
      /\ sync'.expected = sync.expected
  BY ProbeAsyncType DEF LoopResumes
<1>2. /\ loop = "after" /\ loop' = "free"
      /\ UNCHANGED <<config, lists, keen, rci, generation, active, dnsmasq, alive,
                     phase, op, worker, since>>
  BY DEF LoopResumes
<1>3. OutsideOK' /\ ChildInv' /\ HelperInv' /\ WorkerInv' /\ DnsmasqInv'
  BY OutsideKept, ChildKept, HelperKept, WorkerKept, DnsmasqKept DEF LoopResumes,
       knowledge, control, outside
<1>4. KnowledgeOK'
  BY <1>1, <1>2 DEF KnowledgeOK
<1>5. ControlOK'
  BY <1>1, <1>2 DEF ControlOK
<1>6. OpInv'
  BY <1>1, <1>2 DEF OpInv, Serving, Generating
<1> QED
  BY <1>3, <1>4, <1>5, <1>6

(* The restart that a hook ordered, early or late.                         *)
LEMMA OrderedRestartStep == ASSUME Inv, OrderedRestart PROVE Inv'
<1> USE DEF Inv, TypeOK
<1>1. /\ dnsmasq' \in DnsmasqRecords /\ dnsmasq'.at = "loading"
      /\ helper' \in HelperRecords
      /\ helper'.calm = (alive /\ phase \notin Ended)
      /\ stream' \in StreamRecords /\ ~stream'.peer
      /\ helper'.at \in {"static", "asking", "daemon_unavailable"}
      /\ service.managed => helper'.at # "static"
      /\ helper'.at = "daemon_unavailable" => ~alive \/ helper'.refused
  BY RestartType DEF OrderedRestart, ControlOK
<1>2. /\ service' \in ServiceRecords /\ service'.managed = service.managed
      /\ budget' \in BudgetRecords
  BY FaultType DEF OrderedRestart, OutsideOK, ServiceRecords
<1>3. UNCHANGED <<knowledge, control>>
  BY DEF OrderedRestart
<1>4. ControlOK' /\ ChildInv' /\ OpInv'
  BY ControlKept, ChildKept, OpKept DEF OrderedRestart, knowledge, control, outside
<1>5. KnowledgeOK'
  BY <1>1, <1>2, <1>3 DEF KnowledgeOK, knowledge
<1>6. OutsideOK'
  BY <1>1, <1>2, <1>3 DEF OutsideOK
<1>7. HelperInv'
  BY <1>1, <1>2, <1>3, Zenon DEF HelperInv, FallbackIsALifecycleDecision, control,
       FallbackReasons
<1>8. WorkerInv'
  BY <1>1, <1>2, <1>3 DEF WorkerInv, Serving, Generating, control
<1>9. DnsmasqInv'
  BY <1>1, <1>2, <1>3 DEF DnsmasqInv, Serving, OpInv, WorkerInv, Generating, control,
       FallbackReasons
<1> QED
  BY <1>4, <1>5, <1>6, <1>7, <1>8, <1>9

(* A restart that nobody ordered, between any two steps.                   *)
LEMMA SystemRestartStep == ASSUME Inv, SystemRestart PROVE Inv'
<1> USE DEF Inv, TypeOK
<1>1. /\ dnsmasq' \in DnsmasqRecords /\ dnsmasq'.at = "loading"
      /\ helper' \in HelperRecords
      /\ helper'.calm = (alive /\ phase \notin Ended)
      /\ stream' \in StreamRecords /\ ~stream'.peer
      /\ helper'.at \in {"static", "asking", "daemon_unavailable"}
      /\ service.managed => helper'.at # "static"
      /\ helper'.at = "daemon_unavailable" => ~alive \/ helper'.refused
  BY RestartType DEF SystemRestart, ControlOK
<1>2. budget' \in BudgetRecords
  BY FaultType DEF SystemRestart, OutsideOK
<1>3. UNCHANGED <<knowledge, control, service>>
  BY DEF SystemRestart
<1>4. ControlOK' /\ ChildInv' /\ OpInv' /\ WorkerInv'
  BY ControlKept, ChildKept, OpKept, WorkerKept DEF SystemRestart, knowledge,
       control, outside
<1>5. KnowledgeOK'
  BY <1>1, <1>2, <1>3 DEF KnowledgeOK, knowledge
<1>6. OutsideOK'
  BY <1>1, <1>2, <1>3 DEF OutsideOK
<1>7. HelperInv'
  BY <1>1, <1>2, <1>3, Zenon DEF HelperInv, FallbackIsALifecycleDecision, control,
       FallbackReasons
<1>8. DnsmasqInv'
  BY <1>1, <1>2, <1>3 DEF DnsmasqInv, Serving, OpInv, WorkerInv, Generating, control,
       FallbackReasons
<1> QED
  BY <1>4, <1>5, <1>6, <1>7, <1>8

(* The control socket answers from the snapshot, or that the runtime ends. *)
LEMMA DaemonAcceptsStep == ASSUME Inv, DaemonAccepts PROVE Inv'
<1> USE DEF Inv, TypeOK
<1>1. /\ helper.at = "asking" /\ stream.at = "none"
      /\ helper' \in HelperRecords /\ helper'.out = helper.out /\ helper'.calm = helper.calm
      /\ stream' \in StreamRecords
      /\ \/ /\ phase \in Ended /\ stream' = stream
            /\ helper'.at \in {"runtime_stopped", "runtime_shutting_down"}
         \/ /\ phase \notin Ended /\ helper'.at = "reading"
            /\ stream'.at = "queued" /\ stream'.conf = generation
  BY VersionsAssumption, ZenonT(30) DEF DaemonAccepts, NoStream, OutsideOK, KnowledgeOK,
     HelperRecords,
     HelperStages, StreamRecords, None
<1>2. UNCHANGED <<knowledge, dnsmasq, control, service, budget>>
  BY DEF DaemonAccepts
<1>3. KnowledgeOK' /\ ControlOK' /\ ChildInv' /\ OpInv' /\ WorkerInv'
  BY KnowledgeKept, ControlKept, ChildKept, OpKept, WorkerKept DEF DaemonAccepts,
       knowledge, control, outside
<1>4. OutsideOK'
  BY <1>1, <1>2 DEF OutsideOK
<1>5. HelperInv'
  BY <1>1, <1>2 DEF HelperInv, FallbackIsALifecycleDecision, control, FallbackReasons
<1>6. DnsmasqInv'
  BY <1>1, <1>2 DEF DnsmasqInv, Serving, OpInv, Generating, knowledge, control,
       FallbackReasons, Ended
<1> QED
  BY <1>3, <1>4, <1>5, <1>6

(* The stream gives its reader the configuration it was captured with.     *)
LEMMA StreamSendsStep == ASSUME Inv, StreamSends PROVE Inv'
<1> USE DEF Inv, TypeOK
<1>1. NoStream \in StreamRecords /\ ~NoStream.peer
  BY VersionsAssumption DEF NoStream, StreamRecords, None
<1>2. /\ stream.at \in {"queued", "sending"}
      /\ \/ ~stream.peer /\ stream' = NoStream /\ UNCHANGED <<helper, since>>
         \/ /\ stream.peer /\ UNCHANGED since
            /\ stream' = [stream EXCEPT !.at = "sending", !.keen = keen, !.lists = lists]
            /\ helper' = [helper EXCEPT !.out = 1]
         \/ /\ stream.peer /\ stream' = NoStream
            /\ since' = [op |-> worker \in {"reload", "await"}, loop |-> loop # "free"]
            /\ helper' = [helper EXCEPT !.at = "got", !.out = 2, !.ts = "new",
                             !.has = Digest(stream.conf, stream.lists, stream.keen)]
  BY DEF StreamSends, OutsideOK, StreamRecords
<1>3. /\ stream' \in StreamRecords
      /\ stream'.peer => stream.peer /\ stream'.at = "sending" /\ stream'.conf = stream.conf
  BY <1>1, <1>2, Zenon DEF OutsideOK, KnowledgeOK, StreamRecords
<1>4. /\ helper' \in HelperRecords /\ helper'.calm = helper.calm
      /\ \/ helper' = helper
         \/ stream.peer /\ helper'.at = helper.at /\ helper'.has = helper.has
         \/ /\ stream.peer /\ ~stream'.peer
            /\ helper'.at = "got" /\ helper'.has.conf = stream.conf
  <2>1. PICK h :
          /\ h \in Hashes /\ h.conf = stream.conf
          /\ h = Digest(stream.conf, stream.lists, stream.keen)
    BY DigestType DEF OutsideOK, StreamRecords
  <2>2. CASE helper' = helper
    BY <2>2 DEF OutsideOK
  <2>3. CASE stream.peer /\ helper' = [helper EXCEPT !.out = 1]
    BY <2>3 DEF OutsideOK, HelperRecords
  <2>4. CASE /\ stream.peer /\ stream' = NoStream
             /\ helper' = [helper EXCEPT !.at = "got", !.out = 2, !.ts = "new",
                                !.has = Digest(stream.conf, stream.lists, stream.keen)]
    <3>1. helper' = [helper EXCEPT !.at = "got", !.out = 2, !.ts = "new", !.has = h]
      BY <2>1, <2>4
    <3>2. "got" \in HelperStages /\ 2 \in 0 .. 2 /\ "new" \in Ages /\ helper \in HelperRecords
      BY DEF HelperStages, Ages, OutsideOK
    <3>3. /\ helper' \in HelperRecords /\ helper'.calm = helper.calm
          /\ helper'.at = "got" /\ helper'.has = h
      BY <2>1, <3>1, <3>2, Zenon DEF HelperRecords
    <3> QED
      BY <1>1, <2>1, <2>4, <3>3
  <2> QED
    BY <1>2, <2>2, <2>3, <2>4
<1>5. since' \in [op : BOOLEAN, loop : BOOLEAN]
  <2>1. ASSUME NEW a \in BOOLEAN, NEW b \in BOOLEAN, since' = [op |-> a, loop |-> b]
        PROVE  since' \in [op : BOOLEAN, loop : BOOLEAN]
    BY <2>1
  <2>2. (worker \in {"reload", "await"}) \in BOOLEAN /\ (loop # "free") \in BOOLEAN
    OBVIOUS
  <2>3. CASE since' = [op |-> worker \in {"reload", "await"}, loop |-> loop # "free"]
    BY <2>1, <2>2, <2>3
  <2> QED
    BY <1>2, <2>3 DEF ControlOK
<1>6. UNCHANGED <<knowledge, dnsmasq, alive, phase, op, loop, worker, service, budget>>
  BY DEF StreamSends
<1>7. KnowledgeOK' /\ ChildInv' /\ OpInv' /\ WorkerInv'
  BY KnowledgeKept, ChildKept, OpKept, WorkerKept DEF StreamSends, knowledge,
       control, outside
<1>8. ControlOK'
  BY <1>1, <1>2, <1>3, <1>4, <1>5, <1>6 DEF ControlOK
<1>9. OutsideOK'
  BY <1>1, <1>2, <1>3, <1>4, <1>5, <1>6 DEF OutsideOK
<1>10. HelperInv'
  BY <1>1, <1>2, <1>3, <1>4, <1>5, <1>6 DEF HelperInv, FallbackIsALifecycleDecision,
       DnsmasqInv, FallbackReasons
<1>11. DnsmasqInv'
  BY <1>1, <1>2, <1>3, <1>4, <1>5, <1>6 DEF DnsmasqInv, Serving, FallbackReasons
<1> QED
  BY <1>7, <1>8, <1>9, <1>10, <1>11

(* A timeout is no reason to fall back.                                    *)
LEMMA HelperLosesDaemonStep == ASSUME Inv, HelperLosesDaemon PROVE Inv'
<1> USE DEF Inv, TypeOK
<1>1. /\ helper.at \in {"asking", "reading"}
      /\ helper' \in HelperRecords /\ helper'.at = "timeout" /\ helper'.calm = helper.calm
      /\ stream' \in StreamRecords /\ ~stream'.peer
  BY Zenon DEF HelperLosesDaemon, OutsideOK, HelperRecords, HelperStages, StreamRecords
<1>2. budget' \in BudgetRecords
  BY FaultType DEF HelperLosesDaemon, OutsideOK
<1>3. UNCHANGED <<dnsmasq, control, service>>
  BY DEF HelperLosesDaemon
<1>4. KnowledgeOK' /\ ControlOK' /\ ChildInv' /\ OpInv' /\ WorkerInv'
  BY KnowledgeKept, ControlKept, ChildKept, OpKept, WorkerKept DEF HelperLosesDaemon,
       knowledge, control, outside
<1>5. OutsideOK'
  BY <1>1, <1>2, <1>3 DEF OutsideOK
<1>6. HelperInv'
  BY <1>1, <1>2, <1>3 DEF HelperInv, FallbackIsALifecycleDecision, control,
       FallbackReasons
<1>7. DnsmasqInv'
  BY <1>1, <1>2, <1>3 DEF DnsmasqInv, Serving, control, FallbackReasons
<1> QED
  BY <1>4, <1>5, <1>6, <1>7

(* The conf-script falls back, or fails.                                   *)
LEMMA HelperEndsStep == ASSUME Inv, HelperEnds PROVE Inv'
<1> USE DEF Inv, TypeOK
<1>1. /\ helper.at \in {"runtime_stopped", "runtime_shutting_down", "daemon_unavailable",
                         "timeout"}
      /\ helper' \in HelperRecords /\ helper'.out = helper.out /\ helper'.calm = helper.calm
      /\ helper'.refused = helper.refused
      /\ \/ helper.at \in FallbackReasons /\ helper.out = 0 /\ helper'.at = "fallback"
         \/ helper'.at = "error"
  <2>1. Digest("fallback", 0, 0) \in Hashes
    BY DigestType, VersionsAssumption
  <2> QED
    BY <2>1, Zenon DEF HelperEnds, HelperErrors, FallsBack, OutsideOK, HelperRecords,
       HelperStages, Ages
<1>2. budget' \in BudgetRecords
  BY FaultType DEF HelperEnds, OutsideOK
<1>3. UNCHANGED <<dnsmasq, control, stream, service>>
  BY DEF HelperEnds
<1>4. KnowledgeOK' /\ ControlOK' /\ ChildInv' /\ OpInv' /\ WorkerInv'
  BY KnowledgeKept, ControlKept, ChildKept, OpKept, WorkerKept DEF HelperEnds,
       knowledge, control, outside
<1>5. OutsideOK'
  BY <1>1, <1>2, <1>3 DEF OutsideOK
<1>6. HelperInv'
  BY <1>1, <1>2, <1>3 DEF HelperInv, FallbackIsALifecycleDecision, control,
       FallbackReasons
<1>7. DnsmasqInv'
  BY <1>1, <1>2, <1>3 DEF DnsmasqInv, Serving, control, FallbackReasons
<1> QED
  BY <1>4, <1>5, <1>6, <1>7

(* dnsmasq serves what its conf-script has written.                        *)
LEMMA DnsmasqLoadsStep == ASSUME Inv, DnsmasqLoads PROVE Inv'
<1> USE DEF Inv, TypeOK
<1>1. /\ helper.at \in {"got", "fallback", "static", "error"}
      /\ dnsmasq' \in DnsmasqRecords /\ dnsmasq'.has = helper.has
      /\ dnsmasq'.refused = helper.refused
      /\ dnsmasq'.at = IF helper.at = "error" THEN "down" ELSE "up"
  BY DEF DnsmasqLoads, OutsideOK, HelperRecords, DnsmasqRecords
<1>2. helper' \in HelperRecords /\ helper'.at = "none" /\ ~helper'.calm
  BY NoHelperType DEF DnsmasqLoads, NoHelper
<1>3. UNCHANGED <<knowledge, control, stream, service, budget>>
  BY DEF DnsmasqLoads
<1>4. ControlOK' /\ ChildInv' /\ OpInv' /\ WorkerInv'
  BY ControlKept, ChildKept, OpKept, WorkerKept DEF DnsmasqLoads, knowledge, control,
       outside
<1>5. KnowledgeOK'
  BY <1>1, <1>2, <1>3, Zenon DEF KnowledgeOK, knowledge
<1>6. OutsideOK'
  BY <1>1, <1>2, <1>3 DEF OutsideOK
<1>7. HelperInv'
  BY <1>1, <1>2, <1>3 DEF HelperInv, FallbackIsALifecycleDecision, control,
       FallbackReasons
<1>8. DnsmasqInv'
  BY <1>1, <1>2, <1>3 DEF DnsmasqInv, Serving, control, FallbackReasons
<1> QED
  BY <1>4, <1>5, <1>6, <1>7, <1>8

(* A shutdown takes the calm from a conf-script, and leaves what an        *)
(* operation has brought about to the hook that now comes.                 *)
LEMMA ShutsDownStep == ASSUME Inv, ShutsDown PROVE Inv'
<1> USE DEF Inv, TypeOK
<1>1. /\ loop = "free" /\ loop' = "closing" /\ phase' = "shutting_down"
      /\ UNCHANGED <<knowledge, dnsmasq, child, alive, op, worker, since, stream, service>>
  BY DEF ShutsDown
<1>2. /\ helper' \in HelperRecords /\ ~helper'.calm
      /\ helper'.at = helper.at /\ helper'.out = helper.out
  BY Zenon DEF ShutsDown, OutsideOK, HelperRecords
<1>3. budget' \in BudgetRecords
  BY FaultType DEF ShutsDown, OutsideOK
<1>4. KnowledgeOK' /\ ChildInv'
  BY <1>1, KnowledgeKept, ChildKept DEF knowledge
<1>5. ControlOK'
  BY <1>1 DEF ControlOK
<1>6. OutsideOK'
  BY <1>1, <1>2, <1>3 DEF OutsideOK
<1>7. HelperInv'
  BY <1>1, <1>2 DEF HelperInv, FallbackIsALifecycleDecision
<1>8. OpInv'
  BY <1>1, <1>2 DEF OpInv, Serving, Generating, knowledge
<1>9. WorkerInv'
  BY <1>1, <1>2 DEF WorkerInv
<1>10. DnsmasqInv'
  BY <1>1, <1>2 DEF DnsmasqInv
<1> QED
  BY <1>4, <1>5, <1>6, <1>7, <1>8, <1>9, <1>10

(* The end of the process takes operation, stream and calm with it.        *)
LEMMA GoneStep == ASSUME Inv, DaemonDies \/ ProcessEnds PROVE Inv'
<1> USE DEF Inv, TypeOK
<1>0. Gone /\ budget' \in BudgetRecords
  BY FaultType DEF DaemonDies, ProcessEnds, OutsideOK
<1>1. /\ alive' = FALSE /\ loop' = "free" /\ worker' = "idle"
      /\ since' \in [op : BOOLEAN, loop : BOOLEAN] /\ probe' \in ProbeRecords
  BY <1>0, NoProbeType DEF Gone
<1>2. op' \in OpRecords /\ op'.at = "idle"
  BY <1>0, NoHashType DEF Gone, NoOp, OpRecords, OpStages, None
<1>3. /\ stream' \in StreamRecords /\ ~stream'.peer
  BY <1>0, VersionsAssumption DEF Gone, NoStream, StreamRecords, None
<1>4. /\ helper' \in HelperRecords /\ ~helper'.calm
      /\ helper'.at = helper.at /\ helper'.out = helper.out /\ helper'.refused = helper.refused
  BY <1>0, Zenon DEF Gone, OutsideOK, HelperRecords
<1>5. budget' \in BudgetRecords
  BY <1>0
<1>6. UNCHANGED <<config, lists, keen, rci, generation, sync, active, dnsmasq, phase,
                  service>>
  BY <1>0 DEF Gone
<1>7. KnowledgeOK'
  BY <1>1, <1>2, <1>3, <1>4, <1>5, <1>6 DEF KnowledgeOK
<1>8. ControlOK'
  BY <1>1, <1>2, <1>3, <1>4, <1>5, <1>6, Zenon DEF ControlOK
<1>9. OutsideOK'
  BY <1>1, <1>2, <1>3, <1>4, <1>5, <1>6 DEF OutsideOK
<1>10. ChildInv'
  BY <1>0, NoChildInv DEF Gone
<1>11. HelperInv'
  BY <1>1, <1>2, <1>3, <1>4, <1>5, <1>6 DEF HelperInv, FallbackIsALifecycleDecision
<1>12. OpInv'
  BY <1>1, <1>2, <1>3, <1>4, <1>5, <1>6 DEF OpInv, Serving, Generating
<1>13. WorkerInv'
  BY <1>1, <1>2, <1>3, <1>4, <1>5, <1>6 DEF WorkerInv, Serving, Generating
<1>14. DnsmasqInv'
  BY <1>1, <1>2, <1>3, <1>4, <1>5, <1>6 DEF DnsmasqInv, Serving
<1> QED
  BY <1>7, <1>8, <1>9, <1>10, <1>11, <1>12, <1>13, <1>14

(* A command is started.                                                   *)
LEMMA CommandBeginsStep == ASSUME Inv, CommandBegins PROVE Inv'
<1> USE DEF Inv, TypeOK
<1>1. budget' \in BudgetRecords
  <2>1. budget.commands > 0 /\ budget' = [budget EXCEPT !.commands = @ - 1]
    BY DEF CommandBegins
  <2> QED
    BY <2>1 DEF OutsideOK, BudgetRecords
<1>2. UNCHANGED <<outside>>
  BY DEF CommandBegins
<1>3. PICK k \in Kinds : Spawn(k) \/ SpawnFails(k)
  BY DEF CommandBegins
<1>4. KnowledgeOK' /\ ControlOK' /\ HelperInv' /\ OpInv' /\ WorkerInv' /\ DnsmasqInv'
  BY KnowledgeKept, ControlKept, HelperKept, OpKept, WorkerKept, DnsmasqKept DEF
       CommandBegins, knowledge, control, outside
<1>5. OutsideOK'
  BY <1>1, <1>2, <1>3 DEF OutsideOK, outside
<1>6. ChildInv'
  BY <1>3, SpawnInv
<1> QED
  BY <1>4, <1>5, <1>6

(* The caller of a command has its result.                                 *)
LEMMA CommandReturnsStep == ASSUME Inv, CommandReturns PROVE Inv'
<1> USE DEF Inv, TypeOK
<1>1. KnowledgeOK' /\ ControlOK' /\ OutsideOK' /\ HelperInv' /\ OpInv' /\ WorkerInv'
     /\ DnsmasqInv'
  BY KnowledgeKept, ControlKept, OutsideKept, HelperKept, OpKept, WorkerKept,
       DnsmasqKept DEF CommandReturns, knowledge, control, outside
<1>2. ChildInv'
  BY NoChildInv DEF CommandReturns
<1> QED
  BY <1>1, <1>2

(* The call and its command                                                *)
LEMMA CallsStep == ASSUME Inv, Calls PROVE Inv'
<1> USE DEF Inv, TypeOK
<1>1. KnowledgeOK' /\ ControlOK' /\ OutsideOK' /\ HelperInv' /\ OpInv' /\ WorkerInv' /\ DnsmasqInv'
  BY KnowledgeKept, ControlKept, OutsideKept, HelperKept, OpKept, WorkerKept, DnsmasqKept
     DEF Calls, knowledge, control, outside
<1>2. ChildInv'
  BY CallInv DEF Calls
<1> QED
  BY <1>1, <1>2

(* What the daemon knows of dnsmasq changes, and nothing that an operation *)
(* relies on does.                                                         *)
LEMMA KnowledgeStep ==
    ASSUME Inv, UNCHANGED <<child, control, outside>>, budget' \in BudgetRecords,
           lists' \in Versions, rci' \in Versions, probe' \in ProbeRecords,
           sync' \in SyncRecords, sync'.expected = sync.expected,
           UNCHANGED <<config, keen, generation, active, dnsmasq>>
    PROVE  Inv'
<1> USE DEF Inv, TypeOK
<1>1. ControlOK' /\ ChildInv' /\ HelperInv' /\ WorkerInv' /\ DnsmasqInv'
  BY ControlKept, ChildKept, HelperKept, WorkerKept, DnsmasqKept, Zenon DEF control, outside
<1>2. KnowledgeOK'
  BY DEF KnowledgeOK
<1>3. OutsideOK'
  BY Zenon DEF OutsideOK, outside
<1>4. OpInv'
  BY Zenon DEF OpInv, Serving, control
<1> QED
  BY <1>1, <1>2, <1>3, <1>4

(* An answer, or none, makes a probe record.                               *)
LEMMA ProbeAskType ==
    ASSUME KnowledgeOK, NEW lost \in BOOLEAN, ProbeAsk(lost)
    PROVE  probe' \in ProbeRecords
<1>1. ASSUME NEW st \in {"success", "missing", "failed"}, NEW h \in Hashes, NEW age \in Ages
      PROVE  Answer(probe, st, h, age) \in ProbeRecords
  BY Zenon DEF Answer, ProbeRecords, KnowledgeOK, Statuses
<1>2. dnsmasq.has \in Hashes /\ dnsmasq.ts \in Ages /\ None \in Ages
  BY DEF KnowledgeOK, DnsmasqRecords, Ages
<1>3. QueryTxt(probe) \in ProbeRecords /\ Answer(probe, "failed", NoHash, None) \in ProbeRecords
  BY <1>1, <1>2, NoHashType DEF QueryTxt
<1> QED
  BY <1>3 DEF ProbeAsk

(* commit_resolver_hash_probe_result() leaves the expected hash alone.     *)
LEMMA ProbeCommitType ==
    ASSUME KnowledgeOK, ProbeCommit
    PROVE  probe' \in ProbeRecords /\ sync' \in SyncRecords /\ sync'.expected = sync.expected
<1>1. probe.status \in Statuses /\ probe.hash \in Hashes /\ probe.ts \in Ages
  BY DEF KnowledgeOK, ProbeRecords
<1>2. /\ ProbeSucceeded(sync, probe.hash, probe.ts) \in SyncRecords
      /\ ProbeSucceeded(sync, probe.hash, probe.ts).expected = sync.expected
  BY <1>1, Zenon DEF ProbeSucceeded, SyncRecords, KnowledgeOK, Statuses
<1>3. /\ ProbeFailed(sync, probe.status) \in SyncRecords
      /\ ProbeFailed(sync, probe.status).expected = sync.expected
  BY <1>1, NoHashType, Zenon DEF ProbeFailed, SyncRecords, KnowledgeOK, Ages
<1>4. /\ probe' = NoProbe
      /\ \/ sync' = sync
         \/ sync' = ProbeSucceeded(sync, probe.hash, probe.ts)
         \/ sync' = ProbeFailed(sync, probe.status)
  BY DEF ProbeCommit
<1> QED
  BY <1>2, <1>3, <1>4, NoProbeType DEF KnowledgeOK

(* The TXT probe.                                                          *)
LEMMA ProbesStep == ASSUME Inv, Probes PROVE Inv'
<1> USE DEF Inv, TypeOK
<1>1. UNCHANGED <<child, control, outside>> /\ budget' \in BudgetRecords
  BY FaultType, Zenon DEF Probes, OutsideOK
<1>2. CASE \E lost \in BOOLEAN : ProbeAsk(lost)
  <2>1. UNCHANGED <<config, lists, keen, rci, generation, sync, active, dnsmasq>>
    BY <1>2 DEF ProbeAsk
  <2> QED
    BY <1>1, <1>2, <2>1, ProbeAskType, KnowledgeStep DEF KnowledgeOK
<1>3. CASE ProbeTimer
  <2>1. UNCHANGED <<config, lists, keen, rci, generation, active, dnsmasq>>
    BY <1>3 DEF ProbeTimer
  <2>2. probe' \in ProbeRecords /\ sync' \in SyncRecords /\ sync'.expected = sync.expected
    BY <1>3, ProbeAsyncType DEF ProbeTimer, KnowledgeOK
  <2> QED
    BY <1>1, <2>1, <2>2, KnowledgeStep DEF KnowledgeOK
<1>4. CASE ProbeCommit
  <2>1. UNCHANGED <<config, lists, keen, rci, generation, active, dnsmasq>>
    BY <1>4 DEF ProbeCommit
  <2> QED
    BY <1>1, <1>4, <2>1, ProbeCommitType, KnowledgeStep DEF KnowledgeOK
<1> QED
  BY <1>2, <1>3, <1>4, Zenon DEF Probes

(* Time, the router's DNS proxy and downloads.                             *)
LEMMA WorldStep == ASSUME Inv, World PROVE Inv'
<1> USE DEF Inv, TypeOK
<1>1. UNCHANGED <<child, control, outside>> /\ budget' \in BudgetRecords
  BY FaultType DEF World, OutsideOK
<1>2. /\ lists' \in Versions /\ rci' \in Versions
      /\ sync' \in SyncRecords /\ sync'.expected = sync.expected
      /\ UNCHANGED <<config, keen, generation, probe, active, dnsmasq>>
  <2>1. CASE WindowCloses
    BY <2>1, Zenon DEF WindowCloses, KnowledgeOK, SyncRecords
  <2>2. CASE RciChanges \/ ListsChange
    BY <2>2 DEF RciChanges, ListsChange, KnowledgeOK
  <2> QED
    BY <2>1, <2>2, Zenon DEF World
<1> QED
  BY <1>1, <1>2, KnowledgeStep DEF KnowledgeOK

-----------------------------------------------------------------------------
(* The invariant holds of a converged runtime.                             *)
LEMMA InvInit == Init => Inv
<1> SUFFICES ASSUME Init PROVE Inv
  OBVIOUS
<1>1. config \in Confs /\ 0 \in Versions
  BY ConfsAssumption, VersionsAssumption, Zenon DEF Init
<1>2. dnsmasq.has \in Hashes
  BY <1>1, DigestType, Zenon DEF Init
<1>3. KnowledgeOK
  BY <1>1, <1>2, NoProbeType, Zenon DEF Init, KnowledgeOK, SyncRecords, DnsmasqRecords, Ages,
     Statuses
<1>4. ControlOK
  BY NoHashType, Zenon DEF Init, ControlOK, NoOp, OpRecords, OpStages, None
<1>5. OutsideOK
  <2>1. helper \in HelperRecords
    BY NoHelperType, Zenon DEF Init
  <2>2. stream \in StreamRecords /\ service \in ServiceRecords
    BY <1>1, Zenon DEF Init, NoStream, StreamRecords, ServiceRecords, None
  <2>3. budget \in BudgetRecords
    BY BoundsAssumption, SMTT(30) DEF Init, BudgetRecords
  <2> QED
    BY <2>1, <2>2, <2>3, SMTT(30) DEF OutsideOK
<1>6. ChildInv
  BY NoChildType, Zenon DEF Init, ChildInv, TimeoutLeavesNoProcess
<1>7. HelperInv /\ OpInv /\ WorkerInv /\ DnsmasqInv
  BY Zenon DEF Init, NoOp, NoHelper, NoStream, HelperInv, FallbackIsALifecycleDecision,
     OpInv, WorkerInv,
     DnsmasqInv, Generating, FallbackReasons
<1> QED
  BY <1>3, <1>4, <1>5, <1>6, <1>7 DEF Inv, TypeOK

(* Every step of the daemon, dnsmasq and the outside world keeps it.       *)
LEMMA InvNext == Inv /\ [Next]_vars => Inv'
<1> SUFFICES ASSUME Inv, [Next]_vars PROVE Inv'
  OBVIOUS
<1>1. CASE OpSubmit \/ OpStep
  BY <1>1, OpSubmitStep, OpReconcileStep, OpDecideStep, OpTeardownStep, OpSetupStep,
     OpVerifyStep,
     OpFinalizeStep, OpMarkBrokenStep, OpFinishStep DEF OpStep
<1>2. CASE HookStep
  BY <1>2, HookBeginsStep, HookOrdersStep, HookReturnsSucceedsStep, HookReturnsFailsStep,
     OpAwaitsStep, Zenon DEF HookStep
<1>3. CASE KeeneticTask \/ LoopStep
  BY <1>3, KeeneticTaskStep, LoopAwaitsStep, LoopResumesStep, GoneStep DEF LoopStep
<1>4. CASE DnsmasqStep \/ HelperLosesDaemon \/ SystemRestart \/ ShutsDown \/ DaemonDies
  BY <1>4, OrderedRestartStep, DaemonAcceptsStep, StreamSendsStep, HelperEndsStep,
     DnsmasqLoadsStep, HelperLosesDaemonStep, SystemRestartStep, ShutsDownStep, GoneStep
     DEF DnsmasqStep
<1>5. CASE CommandBegins \/ CommandReturns \/ Calls
  BY <1>5, CommandBeginsStep, CommandReturnsStep, CallsStep
<1>6. CASE Probes \/ World
  BY <1>6, ProbesStep, WorldStep
<1>7. CASE UNCHANGED vars
  BY <1>7, KnowledgeKept, ControlKept, OutsideKept, ChildKept, HelperKept, OpKept,
     WorkerKept,
     DnsmasqKept DEF Inv, TypeOK, vars, knowledge, control, outside
<1> QED
  BY <1>1, <1>2, <1>3, <1>4, <1>5, <1>6, <1>7 DEF Next

(* The inductive invariant.                                                *)
LEMMA InvAlways == Spec => []Inv
  BY InvInit, InvNext, PTL DEF Spec

(* An apply or a start that succeeds has left dnsmasq, whenever it is up   *)
(* and until a shutdown or a restart whose conf-script cannot connect,     *)
(* with the operation's configuration, for                                 *)
(* any number of operations, outside events, configurations and versions   *)
(* of the lists (reload_system_resolver_and_wait() and                     *)
(* wait_for_resolver_config_hash_confirmation()).                          *)
THEOREM ReloadServes == Spec => []AppliedServes
<1>1. Inv => AppliedServes
  BY DEF Inv, DnsmasqInv, Serving, AppliedServes
<1> QED
  BY <1>1, InvAlways, PTL

(* generate-resolver-config emits the fallback only when the runtime was   *)
(* stopped or shutting down, or the daemon's process gone, while it ran,   *)
(* or when it could not connect, and only before any byte of the managed   *)
(* configuration (main.cpp, connect_control_socket()).                     *)
THEOREM FallbackDecided == Spec => []FallbackIsALifecycleDecision
<1>1. Inv => FallbackIsALifecycleDecision
  BY DEF Inv, HelperInv
<1> QED
  BY <1>1, InvAlways, PTL

(* A command that had to be signalled has left no process of its group     *)
(* behind when the call returns, and no call reports an exit status that   *)
(* the command did not have, for inputs, pipes and limits of any size      *)
(* (wait_for_child_until() and child_exit_code()).                         *)
THEOREM NoProcessLeft == Spec => []TimeoutLeavesNoProcess
<1>1. Inv => TimeoutLeavesNoProcess
  BY DEF Inv, ChildInv
<1> QED
  BY <1>1, InvAlways, PTL
=============================================================================
