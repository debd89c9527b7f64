------------------------------ MODULE EventLoop ------------------------------
(***************************************************************************)
(* The thread the daemon lives on (daemon_core.cpp): epoll_wait fetches a  *)
(* batch of events, each event is dispatched to the callback registered    *)
(* for its descriptor, and other threads hand it work through the control  *)
(* queue and an eventfd.  The timers of the Scheduler (scheduler.cpp) are  *)
(* descriptors of this loop.                                               *)
(*                                                                         *)
(* A batch is a copy: an event in it may concern a descriptor that an      *)
(* earlier callback of the batch closed, and whose number the kernel gave  *)
(* to something else since.  A callback is one step, as it runs on the     *)
(* only thread that touches these tables; handle_control_commands() is     *)
(* not, for other threads push and signal while it runs.                   *)
(***************************************************************************)
EXTENDS Integers, Sequences, FiniteSets

CONSTANTS
    Fds,        \* numbers the kernel may give to descriptors opened at run time
    MaxTimers,  \* bound: timers scheduled in a behaviour
    MaxElapses, \* bound: expirations of one timer
    Callers,    \* threads other than the loop, each handing over one task
    Control     \* control_fd_, the eventfd (not a member of Fds)

ASSUME LoopAssumption ==
    /\ Fds \subseteq Nat /\ IsFiniteSet(Fds) /\ Control \notin Fds
    /\ MaxTimers \in Nat

VARIABLES
    file,       \* fd -> what is open there
    readable,   \* the descriptors with something to read
    entries,    \* Scheduler::entries_
    callback,   \* fd -> fd_entries_ (and the epoll interest list)
    batch,      \* the events of this epoll_wait that are not dispatched yet
    loop,       \* where the loop is
    tasks,      \* control_tasks_
    commands,   \* what handle_control_commands() swapped out
    caller,     \* thread -> where its call is
    running,    \* running_, and no exception has left the loop
    nextId,     \* next_id_
    elapses,    \* id -> how often its period has passed
    fires       \* id -> how often its callback ran

loopVars == <<file, readable, entries, callback, batch, loop, tasks, commands,
              caller, running, nextId, elapses, fires>>

Ids == 1..MaxTimers
Free == {f \in Fds : file[f] = "closed"}
EntryAt(f) == {e \in entries : e.fd = f}

(* The timers of the start-up are scheduled (boot, numbered from 1, the    *)
(* first of them repeating), the next one gets the number next, and the    *)
(* threads of C have tasks to hand over.                                   *)
LoopInit(boot, next, C) ==
    /\ file = [f \in Fds |-> IF f \in boot THEN "timer" ELSE "closed"]
    /\ readable = {}
    /\ entries = {[id |-> f, fd |-> f, repeating |-> f = 1] : f \in boot}
    /\ callback = [f \in Fds |-> IF f \in boot THEN "timer" ELSE "none"]
    /\ batch = <<>>
    /\ loop = "wait"
    /\ tasks = <<>>
    /\ commands = <<>>
    /\ caller = [c \in Callers |-> IF c \in C THEN "idle" ELSE "done"]
    /\ running = TRUE
    /\ nextId = next
    /\ elapses = [i \in Ids |-> 0]
    /\ fires = [i \in Ids |-> 0]

(***************************************************************************)
(* The Scheduler's operations, all called on the loop thread, where add_fd *)
(* and remove_fd run inline.  Each is an effect on the tables               *)
(* t = [file, callback, readable, entries, nextId], so that a callback may *)
(* do several of them.                                                     *)
(***************************************************************************)
Tables == [file |-> file, callback |-> callback, readable |-> readable,
           entries |-> entries, nextId |-> nextId]

SetTables(t) ==
    /\ file' = t.file
    /\ callback' = t.callback
    /\ readable' = t.readable
    /\ entries' = t.entries
    /\ nextId' = t.nextId

CanOpen(t) == \E f \in Fds : t.file[f] = "closed"

(* The kernel gives the lowest free number.                                *)
Lowest(S) == CHOOSE f \in S : \A g \in S : f <= g

OpenFd(t, kind) ==
    LET f == Lowest({x \in Fds : t.file[x] = "closed"}) IN
    [t EXCEPT !.file[f] = kind, !.callback[f] = kind]

(* remove_fd() and close(): the callback, the interest and what was        *)
(* readable go with the descriptor.                                        *)
CloseFd(t, f) ==
    [t EXCEPT !.file[f] = "closed", !.callback[f] = "none", !.readable = @ \ {f}]

Schedule(t, repeating) ==
    LET f == Lowest({x \in Fds : t.file[x] = "closed"}) IN
    [OpenFd(t, "timer") EXCEPT
        !.entries = @ \cup {[id |-> t.nextId, fd |-> f, repeating |-> repeating]},
        !.nextId = @ + 1]

CanSchedule(t) == t.nextId \in Ids /\ CanOpen(t)

(* Mutant: cancel() forgets the entry and leaves the descriptor open.      *)
CancelKeepsFd(t, e) == [t EXCEPT !.entries = @ \ {e}]

Cancel(t, e) == [CloseFd(t, e.fd) EXCEPT !.entries = @ \ {e}]

CancelAll(t) ==
    [t EXCEPT
        !.entries = {},
        !.file = [f \in Fds |-> IF \E e \in t.entries : e.fd = f THEN "closed" ELSE @[f]],
        !.callback = [f \in Fds |-> IF \E e \in t.entries : e.fd = f THEN "none" ELSE @[f]],
        !.readable = {f \in @ : ~ \E e \in t.entries : e.fd = f}]

(* What a callback of the daemon does to the timers: nothing, one          *)
(* schedule or cancel, a cancel followed by a schedule (every caller that  *)
(* re-arms a timer), or cancel_all.                                        *)
Effects(t) ==
    LET cancelled == {Cancel(t, e) : e \in t.entries}
        able(u) == IF CanSchedule(u) THEN BOOLEAN ELSE {} IN
    {t, CancelAll(t)} \cup cancelled
        \cup UNION {{Schedule(u, r) : r \in able(u)} : u \in {t} \cup cancelled}

(***************************************************************************)
(* epoll_wait and dispatch_event_fd.                                       *)
(***************************************************************************)
ReadyFds == {f \in readable : f \in Fds => callback[f] # "none"}

(* The events in any order of their descriptors: the kernel's ready list   *)
(* is in the order in which they became ready.  An event also says whether *)
(* the other side of a connection hung up, H.                              *)
EpollWait(H) ==
    /\ loop = "wait"
    /\ running
    /\ ReadyFds # {}
    /\ \E s \in [1 .. Cardinality(ReadyFds) -> ReadyFds] :
          /\ \A i, j \in DOMAIN s : s[i] = s[j] => i = j
          /\ batch' = [i \in DOMAIN s |-> [fd |-> s[i], hup |-> s[i] \in H]]
    /\ loop' = "dispatch"
    /\ UNCHANGED <<file, readable, entries, callback, tasks, commands, caller,
                   running, nextId, elapses, fires>>

BatchDone ==
    /\ loop = "dispatch"
    /\ batch = <<>>
    /\ loop' = "wait"
    /\ UNCHANGED <<file, readable, entries, callback, batch, tasks, commands,
                   caller, running, nextId, elapses, fires>>

(* An event whose descriptor has no callback any more.                     *)
DispatchNothing ==
    /\ loop = "dispatch"
    /\ batch # <<>>
    /\ Head(batch).fd \in Fds
    /\ callback[Head(batch).fd] = "none"
    /\ batch' = Tail(batch)
    /\ UNCHANGED <<file, readable, entries, callback, loop, tasks, commands,
                   caller, running, nextId, elapses, fires>>

(* cb() of the timer at f, whose entry is e: a one-shot is removed first.  *)
Fire(f, e) ==
    LET read == [Tables EXCEPT !.readable = @ \ {f}] IN
    /\ fires' = [fires EXCEPT ![e.id] = @ + 1]
    /\ \E t \in Effects(IF e.repeating THEN read ELSE Cancel(read, e)) : SetTables(t)

(* Mutant: the expiration is not read before the callback runs.            *)
OnTimerUnread(f) == \E e \in EntryAt(f) : Fire(f, e)

(* on_timer(): nothing to read means the event was about a timer that is   *)
(* gone; the descriptor belongs to another one now.                        *)
OnTimer(f) ==
    IF f \in readable
    THEN \E e \in EntryAt(f) : Fire(f, e)
    ELSE UNCHANGED <<file, callback, readable, entries, nextId, fires>>

DispatchTimer ==
    /\ loop = "dispatch"
    /\ batch # <<>>
    /\ Head(batch).fd \in Fds
    /\ callback[Head(batch).fd] = "timer"
    /\ batch' = Tail(batch)
    /\ OnTimer(Head(batch).fd)
    /\ UNCHANGED <<loop, tasks, commands, caller, running, elapses>>

(***************************************************************************)
(* The control queue.                                                      *)
(***************************************************************************)
(* enqueue_control_task(wait) or post_control_task() from another thread:  *)
(* the push under the mutex, then the write to the eventfd.                *)
Push(c, wait) ==
    /\ caller[c] = "idle"
    /\ running
    /\ tasks' = Append(tasks, [by |-> c, wait |-> wait])
    /\ caller' = [caller EXCEPT ![c] = IF wait THEN "wakeThenWait" ELSE "wake"]
    /\ UNCHANGED <<file, readable, entries, callback, batch, loop, commands,
                   running, nextId, elapses, fires>>

WakeControlLoop(c) ==
    /\ caller[c] \in {"wake", "wakeThenWait"}
    /\ caller' = [caller EXCEPT ![c] = IF @ = "wake" THEN "posted" ELSE "waiting"]
    /\ readable' = readable \cup {Control}
    /\ UNCHANGED <<file, entries, callback, batch, loop, tasks, commands, running,
                   nextId, elapses, fires>>

(* handle_control_commands(): read the eventfd empty, then swap the queue. *)
DrainEventfd ==
    /\ loop = "dispatch"
    /\ batch # <<>>
    /\ Head(batch).fd = Control
    /\ readable' = readable \ {Control}
    /\ loop' = "drained"
    /\ UNCHANGED <<file, entries, callback, batch, tasks, commands, caller,
                   running, nextId, elapses, fires>>

SwapTasks ==
    /\ loop = "drained"
    /\ commands' = tasks
    /\ tasks' = <<>>
    /\ loop' = "commands"
    /\ batch' = Tail(batch)
    /\ UNCHANGED <<file, readable, entries, callback, caller, running, nextId,
                   elapses, fires>>

(* A task works on the timers and returns, or it throws.  The exception of *)
(* an awaited task goes into its promise; that of a posted one leaves      *)
(* run_event_loop(), and the promises of the tasks behind it are broken.   *)
RunCommand ==
    /\ loop = "commands"
    /\ commands # <<>>
    /\ LET c == Head(commands).by
           awaited == Head(commands).wait IN
       \/ /\ \E t \in Effects(Tables) : SetTables(t)
          /\ commands' = Tail(commands)
          /\ caller' = [caller EXCEPT ![c] = "done"]
          /\ UNCHANGED <<loop, running>>
       \/ /\ awaited
          /\ commands' = Tail(commands)
          /\ caller' = [caller EXCEPT ![c] = "failed"]
          /\ UNCHANGED <<file, readable, entries, callback, nextId, loop, running>>
       \/ /\ ~awaited
          /\ commands' = <<>>
          /\ caller' = [x \in Callers |->
                          IF \E i \in DOMAIN commands : commands[i].by = x
                          THEN "failed" ELSE caller[x]]
          /\ loop' = "left"
          /\ running' = FALSE
          /\ UNCHANGED <<file, readable, entries, callback, nextId>>
    /\ UNCHANGED <<batch, tasks, elapses, fires>>

(* Mutant: the eventfd is read empty once more after the tasks have run.   *)
CommandsDoneDrain ==
    /\ loop = "commands"
    /\ commands = <<>>
    /\ loop' = "dispatch"
    /\ readable' = readable \ {Control}
    /\ UNCHANGED <<file, entries, callback, batch, tasks, commands, caller,
                   running, nextId, elapses, fires>>

CommandsDone ==
    /\ loop = "commands"
    /\ commands = <<>>
    /\ loop' = "dispatch"
    /\ UNCHANGED <<file, readable, entries, callback, batch, tasks, commands,
                   caller, running, nextId, elapses, fires>>

(* handle_signal() on SIGTERM: the loop ends after this batch.             *)
StopLoop ==
    /\ loop = "dispatch"
    /\ running
    /\ running' = FALSE
    /\ UNCHANGED <<file, readable, entries, callback, batch, loop, tasks, commands,
                   caller, nextId, elapses, fires>>

(***************************************************************************)
(* The kernel: the period of a timer passes.                               *)
(***************************************************************************)
Elapse(f) ==
    /\ file[f] = "timer"
    /\ f \notin readable
    /\ \E e \in EntryAt(f) :
          /\ elapses[e.id] < (IF e.repeating THEN MaxElapses ELSE 1)
          /\ elapses' = [elapses EXCEPT ![e.id] = @ + 1]
    /\ readable' = readable \cup {f}
    /\ UNCHANGED <<file, entries, callback, batch, loop, tasks, commands, caller,
                   running, nextId, fires>>
=============================================================================
