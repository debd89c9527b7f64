--------------------------- MODULE BlockingExecutor ---------------------------
(***************************************************************************)
(* The worker pool every asynchronous part of the daemon runs on           *)
(* (util/blocking_executor): a bounded FIFO queue guarded by one mutex,    *)
(* two condition variables (cv_ wakes workers, space_cv_ wakes callers of  *)
(* submit() that found the queue full), and a shutdown() that lets the     *)
(* workers drain what was accepted before it joins them.                   *)
(*                                                                         *)
(* An action is one critical section of the mutex.  Releasing the mutex    *)
(* and then notifying is two actions, since another thread may run in      *)
(* between.  A condition variable is the set of the threads parked on it:  *)
(* notify_one moves one of them, whichever, and is lost when there is      *)
(* none.  A parked thread may also wake for no reason.                     *)
(***************************************************************************)
EXTENDS Naturals, Sequences, FiniteSets

CONSTANTS
    Workers,        \* worker_count threads
    Tasks,          \* tasks, each handed to the pool once by a thread of its own
    MaxQueueSize,   \* max_queue_size_
    NoTask          \* what an idle worker holds

ASSUME ExecutorAssumption ==
    /\ Workers # {}
    /\ MaxQueueSize \in Nat \ {0}
    /\ NoTask \notin Tasks

VARIABLES
    queue,      \* queue_
    stopping,   \* stopping_ (set together with shutdown_complete_)
    worker,     \* worker -> where its loop is
    job,        \* worker -> the task it took from the queue
    call,       \* task -> where the call that hands it over is
    closer,     \* where the thread that calls shutdown() is
    finished    \* the tasks whose callback has returned or thrown

executorVars == <<queue, stopping, worker, job, call, closer, finished>>

WorkerStates == {"ready", "parked", "running", "exited"}
CallStates   == {"idle", "parked", "woken", "notify", "accepted", "rejected"}
CloserStates == {"open", "wakeWorkers", "wakeCallers", "joining", "joined"}

(***************************************************************************)
(* Handing a task over.                                                    *)
(***************************************************************************)
HasRoom == Len(queue) < MaxQueueSize

(* Mutant: the task is pushed before the checks.                           *)
PushThenRefuse(t) ==
    /\ call' = [call EXCEPT ![t] = IF stopping \/ ~HasRoom THEN "rejected" ELSE "notify"]
    /\ queue' = IF HasRoom THEN Append(queue, t) ELSE queue

(* The tail of enqueue(): under the mutex, refuse or push.  The push is    *)
(* followed by unlock and cv_.notify_one(), the "notify" state.            *)
PushOrRefuse(t) ==
    IF stopping \/ ~HasRoom
    THEN /\ call' = [call EXCEPT ![t] = "rejected"]
         /\ queue' = queue
    ELSE /\ call' = [call EXCEPT ![t] = "notify"]
         /\ queue' = Append(queue, t)

TryPost(t) ==
    /\ call[t] = "idle"
    /\ PushOrRefuse(t)
    /\ UNCHANGED <<stopping, worker, job, closer, finished>>

(* submit(): enqueue() with block_until_room.  A caller whose predicate is *)
(* false parks on space_cv_; one that was woken tests it again.            *)
Submit(t) ==
    /\ call[t] \in {"idle", "woken"}
    /\ IF stopping \/ HasRoom
       THEN PushOrRefuse(t)
       ELSE /\ call' = [call EXCEPT ![t] = "parked"]
            /\ queue' = queue
    /\ UNCHANGED <<stopping, worker, job, closer, finished>>

(* notify_one on cv_ *)
NotifyWorker ==
    LET parked == {w \in Workers : worker[w] = "parked"} IN
    IF parked = {} THEN worker' = worker
    ELSE \E w \in parked : worker' = [worker EXCEPT ![w] = "ready"]

(* notify_one on space_cv_ *)
NotifyCaller ==
    LET parked == {t \in Tasks : call[t] = "parked"} IN
    IF parked = {} THEN call' = call
    ELSE \E t \in parked : call' = [call EXCEPT ![t] = "woken"]

Notify(t) ==
    /\ call[t] = "notify"
    /\ call' = [call EXCEPT ![t] = "accepted"]
    /\ NotifyWorker
    /\ UNCHANGED <<queue, stopping, job, closer, finished>>

(***************************************************************************)
(* worker_loop                                                             *)
(***************************************************************************)
Park(w) ==
    /\ worker[w] = "ready"
    /\ ~stopping
    /\ queue = <<>>
    /\ worker' = [worker EXCEPT ![w] = "parked"]
    /\ UNCHANGED <<queue, stopping, job, call, closer, finished>>

Take(w) ==
    /\ worker[w] = "ready"
    /\ queue # <<>>
    /\ worker' = [worker EXCEPT ![w] = "running"]
    /\ job' = [job EXCEPT ![w] = Head(queue)]
    /\ queue' = Tail(queue)
    /\ NotifyCaller
    /\ UNCHANGED <<stopping, closer, finished>>

(* The callback returns, or throws and is caught: the loop goes on, and    *)
(* the promise of a submit() is settled either way.                        *)
Finish(w) ==
    /\ worker[w] = "running"
    /\ worker' = [worker EXCEPT ![w] = "ready"]
    /\ finished' = finished \cup {job[w]}
    /\ job' = [job EXCEPT ![w] = NoTask]
    /\ UNCHANGED <<queue, stopping, call, closer>>

Exit(w) ==
    /\ worker[w] = "ready"
    /\ stopping
    /\ queue = <<>>
    /\ worker' = [worker EXCEPT ![w] = "exited"]
    /\ UNCHANGED <<queue, stopping, job, call, closer, finished>>

(***************************************************************************)
(* shutdown().  A later call (the destructor's) returns at once.           *)
(***************************************************************************)
BeginShutdown ==
    /\ closer = "open"
    /\ stopping' = TRUE
    /\ closer' = "wakeWorkers"
    /\ UNCHANGED <<queue, worker, job, call, finished>>

WakeWorkers ==
    /\ closer = "wakeWorkers"
    /\ worker' = [w \in Workers |-> IF worker[w] = "parked" THEN "ready" ELSE worker[w]]
    /\ closer' = "wakeCallers"
    /\ UNCHANGED <<queue, stopping, job, call, finished>>

(* Mutant: space_cv_ is forgotten.                                         *)
WakeNoCaller ==
    /\ closer = "wakeCallers"
    /\ closer' = "joining"
    /\ UNCHANGED <<queue, stopping, worker, job, call, finished>>

WakeCallers ==
    /\ closer = "wakeCallers"
    /\ call' = [t \in Tasks |-> IF call[t] = "parked" THEN "woken" ELSE call[t]]
    /\ closer' = "joining"
    /\ UNCHANGED <<queue, stopping, worker, job, finished>>

Join ==
    /\ closer = "joining"
    /\ \A w \in Workers : worker[w] = "exited"
    /\ closer' = "joined"
    /\ UNCHANGED <<queue, stopping, worker, job, call, finished>>

(***************************************************************************)
(* A condition variable may wake a thread that nobody notified.            *)
(***************************************************************************)
SpuriousWorker(w) ==
    /\ worker[w] = "parked"
    /\ worker' = [worker EXCEPT ![w] = "ready"]
    /\ UNCHANGED <<queue, stopping, job, call, closer, finished>>

SpuriousCaller(t) ==
    /\ call[t] = "parked"
    /\ call' = [call EXCEPT ![t] = "woken"]
    /\ UNCHANGED <<queue, stopping, worker, job, closer, finished>>

-------------------------------------------------------------------------------
ExecutorInit ==
    /\ queue = <<>>
    /\ stopping = FALSE
    /\ worker = [w \in Workers |-> "ready"]
    /\ job = [w \in Workers |-> NoTask]
    /\ call = [t \in Tasks |-> "idle"]
    /\ closer = "open"
    /\ finished = {}

CallStep(t)   == TryPost(t) \/ Submit(t) \/ Notify(t) \/ SpuriousCaller(t)
WorkerStep(w) == Park(w) \/ Take(w) \/ Finish(w) \/ Exit(w) \/ SpuriousWorker(w)
CloserStep    == BeginShutdown \/ WakeWorkers \/ WakeCallers \/ Join

ExecutorNext ==
    \/ \E t \in Tasks : CallStep(t)
    \/ \E w \in Workers : WorkerStep(w)
    \/ CloserStep

(* Threads that can run do run: a worker outside a wait, a caller that was *)
(* woken or is about to notify, and shutdown() once it began.  Nobody has  *)
(* to hand a task over or to call shutdown(), no wakeup is spurious by     *)
(* promise, and callbacks end (each has a timeout of its own).             *)
Fairness ==
    /\ \A w \in Workers : WF_executorVars(Park(w) \/ Take(w) \/ Finish(w) \/ Exit(w))
    /\ \A t \in Tasks : WF_executorVars(call[t] = "woken" /\ Submit(t))
    /\ \A t \in Tasks : WF_executorVars(Notify(t))
    /\ WF_executorVars(WakeWorkers \/ WakeCallers \/ Join)

ExecutorSpec == ExecutorInit /\ [][ExecutorNext]_executorVars
FairSpec == ExecutorSpec /\ Fairness

-------------------------------------------------------------------------------
InQueue(t) == \E i \in 1..Len(queue) : queue[i] = t
Running(t) == \E w \in Workers : job[w] = t
Handed(t)  == call[t] \in {"notify", "accepted"}

(* Every variable has its type, and the queue never exceeds its bound.     *)
TypeOK ==
    /\ queue \in Seq(Tasks)
    /\ Len(queue) <= MaxQueueSize
    /\ stopping \in BOOLEAN
    /\ worker \in [Workers -> WorkerStates]
    /\ job \in [Workers -> Tasks \cup {NoTask}]
    /\ call \in [Tasks -> CallStates]
    /\ closer \in CloserStates
    /\ finished \subseteq Tasks

(* A task is in at most one of: the queue (at one place), the hands of one *)
(* worker, the finished ones.                                              *)
OneCopy ==
    /\ \A i, j \in 1..Len(queue) : queue[i] = queue[j] => i = j
    /\ \A v, w \in Workers : job[v] = job[w] /\ job[v] # NoTask => v = w
    /\ \A t \in Tasks : ~(InQueue(t) /\ Running(t))
    /\ \A t \in finished : ~InQueue(t) /\ ~Running(t)

(* enqueue() answered true exactly for the tasks the pool still holds or   *)
(* has run: no accepted task is dropped and no refused one runs.           *)
Accounted ==
    \A t \in Tasks : Handed(t) <=> (InQueue(t) \/ Running(t) \/ t \in finished)

(* No task the pool accepted is lost, run twice or run after a refusal:    *)
(* enqueue()'s result is the truth about what worker_loop will do.         *)
RunExactlyOnce == OneCopy /\ Accounted

(* When shutdown() has joined the workers, everything that was accepted    *)
(* has run (worker_loop drains the queue before it returns).               *)
ShutdownDrains ==
    closer = "joined" => \A t \in Tasks : Handed(t) => t \in finished

(* The executor as its users see it (TaskPool).                            *)
StatusOf(t) ==
    IF t \in finished THEN "done"
    ELSE IF Handed(t) THEN "accepted"
    ELSE IF call[t] \in {"parked", "woken"} THEN "asked"
    ELSE IF call[t] = "rejected" THEN "refused"
    ELSE "none"
Status == [t \in Tasks |-> StatusOf(t)]
Phase == IF closer = "joined" THEN "closed" ELSE IF stopping THEN "closing" ELSE "open"

Pool == INSTANCE TaskPool WITH status <- Status, phase <- Phase

(* The executor implements TaskPool, its fairness included.  Every         *)
(* accepted task runs, whichever worker notify_one picks and whenever      *)
(* shutdown() begins: no wakeup is lost.  A submit() blocked on a full     *)
(* queue returns, since room or shutdown wakes it, and shutdown() returns, *)
(* with nothing that was accepted left behind.                             *)
ImplementsPool == Pool!FairSpec
===============================================================================
