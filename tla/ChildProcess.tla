---------------------------- MODULE ChildProcess ----------------------------
(***************************************************************************)
(* An external command run by safe_exec(), safe_exec_pipe_stdin() or       *)
(* safe_exec_capture() (util/safe_exec.hpp): the parent that feeds or      *)
(* reads a pipe and waits with a deadline, and the process group of the    *)
(* command, which may stop reading, hold the pipe open, ignore SIGTERM or  *)
(* leave descendants behind.                                               *)
(***************************************************************************)
EXTENDS Naturals, FiniteSets

CONSTANTS
    InputSize,  \* what is written to the command's stdin, in pipe units
    PipeSize,   \* what a pipe holds
    MaxBytes    \* max_bytes of a capture

ASSUME SizesAssumption == InputSize \in Nat

Kinds == {"exec", "pipe", "capture"}

(* at       where the parent is in the call                                *)
(* proc     the direct child, "zombie" until it is reaped                  *)
(* heirs    descendants of the child live in its process group             *)
(* late     the deadline of the call has passed                            *)
(* now      wait_for_child_until() was given a deadline that has passed    *)
(* timedOut ChildWaitResult::timed_out, and the group was signalled        *)
(* code     WEXITSTATUS, or "signal" for a child that was killed           *)
VARIABLE child

NoChild == [at |-> "idle", kind |-> "exec", proc |-> "none", heirs |-> FALSE,
            deaf |-> FALSE, pipe |-> 0, left |-> 0, got |-> 0, late |-> FALSE,
            now |-> FALSE, timedOut |-> FALSE, code |-> "none", result |-> "none"]

Alive == child.proc = "running" \/ child.heirs
InCall == child.at \notin {"idle", "returned"}
GroupGone(c) == [c EXCEPT !.heirs = FALSE,
                          !.code = IF c.proc = "running" THEN "signal" ELSE @,
                          !.proc = IF c.proc = "running" THEN "zombie" ELSE @]

(* fork() and, in both processes, setpgid(); a command that is deaf        *)
(* ignores SIGTERM.                                                        *)
Spawn(k) ==
    /\ child.at = "idle"
    /\ \E d \in BOOLEAN :
         child' = [NoChild EXCEPT !.at = IF k = "exec" THEN "wait" ELSE "io", !.kind = k,
                                  !.proc = "running", !.deaf = d,
                                  !.left = IF k = "pipe" THEN InputSize ELSE 0]

(* pipe2() or fork() failed: -1                                            *)
SpawnFails(k) ==
    /\ child.at = "idle"
    /\ child' = [NoChild EXCEPT !.at = "returned", !.kind = k, !.result = "failed"]

(* The command: it reads or writes its pipe, starts a descendant that      *)
(* inherits the pipe, and exits, with 127 if it could not be executed.     *)
ChildUsesPipe ==
    /\ Alive
    /\ \/ child.kind = "pipe" /\ child.pipe > 0 /\ child' = [child EXCEPT !.pipe = @ - 1]
       \/ child.kind = "capture" /\ child.at = "io" /\ child.pipe < PipeSize
          /\ child' = [child EXCEPT !.pipe = @ + 1]
ChildForks ==
    /\ child.proc = "running" /\ ~child.heirs
    /\ child' = [child EXCEPT !.heirs = TRUE]
ChildExits ==
    /\ child.proc = "running"
    /\ \E c \in {"zero", "error"} : child' = [child EXCEPT !.proc = "zombie", !.code = c]
HeirsExit ==
    /\ child.heirs
    /\ child' = [child EXCEPT !.heirs = FALSE]

Deadline ==
    /\ InCall /\ ~child.late
    /\ child' = [child EXCEPT !.late = TRUE]

(* Mutant: the write loop does not look at the deadline.                   *)
WriteInputPatient ==
    /\ child.at = "io" /\ child.kind = "pipe"
    /\ IF child.left = 0 \/ ~Alive
       THEN child' = [child EXCEPT !.at = "wait"]
       ELSE /\ child.pipe < PipeSize
            /\ child' = [child EXCEPT !.pipe = @ + 1, !.left = @ - 1]

(* The non-blocking writes to stdin end with the input, with the deadline  *)
(* or, when nobody can read any more, with EPIPE; a full pipe is polled.   *)
WriteInput ==
    /\ child.at = "io" /\ child.kind = "pipe"
    /\ IF child.left = 0 \/ child.late \/ ~Alive
       THEN child' = [child EXCEPT !.at = "wait"]
       ELSE /\ child.pipe < PipeSize
            /\ child' = [child EXCEPT !.pipe = @ + 1, !.left = @ - 1]

(* The reads of stdout end with the deadline, with more than max_bytes,    *)
(* and then the child is not waited for any longer, or with the end of     *)
(* file once no process has the pipe open.                                 *)
ReadOutput ==
    /\ child.at = "io" /\ child.kind = "capture"
    /\ IF child.late
       THEN child' = [child EXCEPT !.at = "wait", !.now = TRUE]
       ELSE \/ /\ child.pipe > 0
               /\ LET over == child.got + 1 > MaxBytes
                  IN child' = [child EXCEPT !.pipe = @ - 1, !.got = @ + 1, !.now = over,
                                            !.at = IF over THEN "wait" ELSE "io"]
            \/ /\ child.pipe = 0 /\ ~Alive
               /\ child' = [child EXCEPT !.at = "wait"]

(* child_exit_code(): the child's own exit status, or -1                   *)
ExitCode(c) ==
    IF c.timedOut \/ c.code = "signal" THEN "failed" ELSE c.code
Returns(c) == [c EXCEPT !.at = "returned", !.proc = "gone", !.result = ExitCode(c)]

(* waitpid(WNOHANG) finds the child                                        *)
Reap ==
    /\ child.at = "wait" /\ child.proc = "zombie"
    /\ child' = Returns(child)

(* waitpid() finds it running at the deadline: SIGTERM to the group.  A    *)
(* deaf command, or a descendant of it, may ignore the signal.             *)
Terminate ==
    /\ child.at = "wait" /\ child.proc = "running" /\ (child.late \/ child.now)
    /\ \E h \in {FALSE, child.heirs} :
         LET hit == IF child.deaf THEN child ELSE [GroupGone(child) EXCEPT !.heirs = h]
         IN child' = [hit EXCEPT !.at = "grace", !.timedOut = TRUE]

(* Mutant: a child that left in its grace period is taken for its group.   *)
ReapInGraceOnly ==
    /\ child.at = "grace" /\ child.proc = "zombie"
    /\ child' = Returns(child)

(* The child left in its grace period; its group gets SIGKILL all the same *)
ReapInGrace ==
    /\ child.at = "grace" /\ child.proc = "zombie"
    /\ child' = Returns(GroupGone(child))

(* The grace period is over: SIGKILL to the group and a blocking waitpid() *)
Kill ==
    /\ child.at = "grace" /\ child.proc = "running"
    /\ child' = Returns(GroupGone(child))

CallStep == WriteInput \/ ReadOutput \/ Reap \/ Terminate \/ ReapInGrace \/ Kill
CommandStep == ChildUsesPipe \/ ChildForks \/ ChildExits \/ HeirsExit

-----------------------------------------------------------------------------
(* A call that had to signal its command leaves no process of its group    *)
(* behind and reports -1; any other call reports the exit status of a      *)
(* command that ended by itself, whatever its descendants do               *)
(* (wait_for_child_until() and child_exit_code()).                         *)
TimeoutLeavesNoProcess ==
    child.at = "returned" =>
        /\ child.timedOut => ~Alive /\ child.result = "failed"
        /\ child.result \in {"zero", "error"} => child.result = child.code
=============================================================================
