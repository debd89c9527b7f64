--------------------------- MODULE DaemonLifecycle ---------------------------
(***************************************************************************)
(* Lifecycle operations: POST /api/config/save and /api/service/{start,    *)
(* stop,restart} submit one (submit_lifecycle_operation), the single       *)
(* worker of lifecycle_executor_ executes it (execute_lifecycle_operation).*)
(* At most one is active; the next request gets 409.  The operation takes  *)
(* no part in operation_coordinator_'s lease and looks at no runtime state *)
(* before it starts.                                                       *)
(***************************************************************************)
EXTENDS DaemonRuntime

(* op.at: the step the worker is in.  The steps of ControlSteps are        *)
(* control tasks it waits for.                                             *)
ControlSteps == {"reconcile", "teardown", "setup", "finalize", "commit", "markBroken"}
OpStates == ControlSteps \cup {"idle", "begin", "prepare", "decide", "reload", "verify", "write",
                               "fallback", "finish"}

otherThanOp == <<store, draft, disk, loop, boot, hup, lease, switching, left, env>>

(* The worker reaches a step; a control task is handed to the loop at once.*)
OpMoves(at) ==
    op' = [op EXCEPT !.at = at, !.queued = at \in ControlSteps /\ LoopActive]
OpVerifies(h) ==
    op' = [op EXCEPT !.at = "verify", !.queued = FALSE, !.expect = h]

(* Mutant: an exception is swallowed and the stage tried again.            *)
OpFailsRetrying(at) == op' = [op EXCEPT !.ok = FALSE]

(* The catch block.  Past reconcile or teardown the runtime is marked      *)
(* broken, unless only the commit failed.                                  *)
OpFails(at) ==
    op' = [op EXCEPT !.at = at, !.queued = at \in ControlSteps /\ LoopActive, !.ok = FALSE]

FirstStep == [apply |-> "prepare", start |-> "setup", stop |-> "teardown", restart |-> "teardown"]

(* submit_lifecycle_operation(); save submits the staged configuration.    *)
Submit(kind) ==
    /\ op.at = "idle"
    /\ loop \in {"serving", "leaving", "deactivating"}
    /\ kind = "apply" => draft # NoCfg
    /\ Event
    /\ op' = [kind |-> kind, at |-> "begin", ok |-> TRUE, queued |-> FALSE,
              cfg |-> IF kind = "apply" THEN draft ELSE NoCfg, expect |-> NoHash]
    /\ UNCHANGED <<rtVars, dns, store, draft, disk, loop, boot, hup, lease, switching>>

(* The worker picks the operation up.                                      *)
OpBegin ==
    /\ op.at = "begin"
    /\ OpMoves(FirstStep[op.kind])
    /\ UNCHANGED <<rtVars, dns, otherThanOp>>

(* validate_config() and prepare_runtime_inputs(): nothing is touched yet. *)
OpPrepare ==
    /\ op.at = "prepare"
    /\ OpMoves("reconcile") \/ ("prepare" \in Faults /\ OpFails("finish"))
    /\ UNCHANGED <<rtVars, dns, otherThanOp>>

(* Mutant: a failed reconcile does not mark the runtime broken.            *)
OpReconcileSilent ==
    /\ op.at = "reconcile"
    /\ Runs(op)
    /\ \E k \in KernelResults(op.cfg) :
         /\ ReconcilePrepared(op.cfg, k)
         /\ IF ReconcileOk(k) THEN OpMoves("decide") ELSE OpFails("finish")
    /\ UNCHANGED <<dns, otherThanOp>>

OpReconcile ==
    /\ op.at = "reconcile"
    /\ Runs(op)
    /\ \E k \in KernelResults(op.cfg) :
         /\ ReconcilePrepared(op.cfg, k)
         /\ IF ReconcileOk(k) THEN OpMoves("decide") ELSE OpFails("markBroken")
    /\ UNCHANGED <<dns, otherThanOp>>

(* The hash to confirm is read off the loop.  A resolver that was last     *)
(* seen healthy with that hash is neither reloaded nor verified.           *)
OpDecide ==
    /\ op.at = "decide"
    /\ IF actual = expected /\ expected # NoHash
       THEN OpMoves("finalize")
       ELSE op' = [op EXCEPT !.at = "reload", !.expect = expected]
    /\ UNCHANGED <<rtVars, dns, otherThanOp>>

(* Start and restart read the hash to confirm after the reload.            *)
OpReload ==
    /\ op.at = "reload"
    /\ \/ ReloadOk /\ OpVerifies(IF op.kind = "apply" THEN op.expect ELSE Hash[live])
       \/ ReloadFailed /\ OpFails("markBroken")
    /\ UNCHANGED <<phase, active, live, routes, fw, actual, probe, timers, tests,
                   otherThanOp>>

OpVerify ==
    /\ op.at = "verify"
    /\ \/ Confirmed(op.expect) /\ OpMoves("finalize")
       \/ Unconfirmed(op.expect) /\ OpFails("markBroken")
    /\ UNCHANGED <<rtVars, dns, otherThanOp>>

OpFinalize ==
    /\ op.at = "finalize"
    /\ Runs(op)
    /\ CompleteRunning({})
    /\ IF CompleteOk
       THEN OpMoves(IF op.kind = "apply" THEN "write" ELSE "finish")
       ELSE OpFails("markBroken")
    /\ UNCHANGED <<dns, otherThanOp>>

(* Mutant: the draft of the moment is written instead of the submitted     *)
(* configuration.                                                          *)
OpWriteDraft ==
    /\ op.at = "write"
    /\ \/ disk' = draft /\ OpMoves("commit")
       \/ "write" \in Faults /\ disk' = disk /\ OpFails("finish")
    /\ UNCHANGED <<rtVars, dns, store, draft, loop, boot, hup, lease, switching, left,
                   env>>
(* write_config_atomically(): the whole file or nothing.  It may fail past *)
(* the rename too, at the fsync of the directory.                          *)
OpWrite ==
    /\ op.at = "write"
    /\ \/ disk' = op.cfg /\ OpMoves("commit")
       \/ "write" \in Faults /\ disk' \in {disk, op.cfg} /\ OpFails("finish")
    /\ UNCHANGED <<rtVars, dns, store, draft, loop, boot, hup, lease, switching, left,
                   env>>

(* Mutant: clear_staged() instead of clear_staged_if_matches().            *)
OpCommitClears ==
    /\ op.at = "commit"
    /\ Runs(op)
    /\ store' = live
    /\ draft' = NoCfg
    /\ OpMoves("finish")
    /\ UNCHANGED <<rtVars, dns, disk, loop, boot, hup, lease, switching, left, env>>

(* replace_active(config_) and clear_staged_if_matches(serialized)         *)
OpCommit ==
    /\ op.at = "commit"
    /\ Runs(op)
    /\ store' = live
    /\ draft' = IF draft = op.cfg THEN NoCfg ELSE draft
    /\ OpMoves("finish")
    /\ UNCHANGED <<rtVars, dns, disk, loop, boot, hup, lease, switching, left, env>>

OpTeardown ==
    /\ op.at = "teardown"
    /\ Runs(op)
    /\ Teardown(op.kind = "stop")
    /\ IF TeardownOk(op.kind = "stop")
       THEN OpMoves(IF op.kind = "stop" THEN "fallback" ELSE "setup")
       ELSE OpFails("markBroken")
    /\ UNCHANGED <<dns, otherThanOp>>

(* Mutant: a failed fallback reload only fails the operation.              *)
OpFallbackSilent ==
    /\ op.at = "fallback"
    /\ (Deactivated /\ OpMoves("finish")) \/ (DeactivateFailed /\ OpFails("finish"))
    /\ UNCHANGED <<rtVars, otherThanOp>>

OpFallback ==
    /\ op.at = "fallback"
    /\ (Deactivated /\ OpMoves("finish")) \/ (DeactivateFailed /\ OpFails("markBroken"))
    /\ UNCHANGED <<rtVars, otherThanOp>>

OpSetup ==
    /\ op.at = "setup"
    /\ Runs(op)
    /\ \E k \in KernelResults(live) :
         /\ Setup(k)
         /\ IF SetupOk(k) THEN OpMoves("reload") ELSE OpFails("markBroken")
    /\ UNCHANGED <<dns, otherThanOp>>

OpMarkBroken ==
    /\ op.at = "markBroken"
    /\ Runs(op)
    /\ MarkBroken
    /\ OpMoves("finish")
    /\ UNCHANGED <<dns, otherThanOp>>

(* lifecycle_operations_.finish(): the result is published, the next       *)
(* operation may begin.                                                    *)
OpFinish ==
    /\ op.at = "finish"
    /\ OpMoves("idle")
    /\ UNCHANGED <<rtVars, dns, otherThanOp>>

OperationStep ==
    \/ OpBegin
    \/ OpPrepare
    \/ OpReconcile
    \/ OpDecide
    \/ OpReload
    \/ OpVerify
    \/ OpFinalize
    \/ OpWrite
    \/ OpCommit
    \/ OpTeardown
    \/ OpFallback
    \/ OpSetup
    \/ OpMarkBroken
    \/ OpFinish
===============================================================================
