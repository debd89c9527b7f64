------------------------------ MODULE DnsProbe ------------------------------
(***************************************************************************)
(* The DNS test server's TCP side (dns_probe_server.cpp and                *)
(* daemon_dns_probe.cpp) on the event loop: a listener, a client per       *)
(* accepted connection with its partial query, a sweep that closes idle    *)
(* clients every second, and a teardown when a config is applied.  A       *)
(* query is bytes in the code; here a connection delivers "part" of one,   *)
(* a "whole" one or a "bad" one.                                           *)
(***************************************************************************)
EXTENDS EventLoop

CONSTANTS
    Listener,      \* tcp_fd_
    Sweep,         \* tcp_idle_timer_fd_
    Peers,         \* connections, each made once
    MaxTcpClients  \* kMaxTcpClients

ASSUME ProbeAssumption ==
    /\ Listener \notin Fds /\ Sweep \notin Fds
    /\ MaxTcpClients \in Nat
    /\ 1 .. (MaxTimers - 1) \subseteq Fds

VARIABLES
    server,     \* dns_probe_server_ exists
    backlog,    \* connections the kernel holds for the listener
    clients,    \* tcp_clients_: fd -> the buffered part of a query, or absent
    conn,       \* fd -> the connection open there: peer, input, hup, idle
    fate        \* peer -> what became of its connection

probeVars == <<server, backlog, clients, conn, fate>>
vars == <<loopVars, probeVars>>

NoConn == [peer |-> "none", input |-> "none", hup |-> FALSE, idle |-> FALSE]

(* The connections of P are still to be made.                              *)
ProbeInit(P) ==
    /\ backlog = {}
    /\ clients = [f \in Fds |-> "absent"]
    /\ conn = [f \in Fds |-> NoConn]
    /\ fate = [p \in Peers |-> IF p \in P THEN "new" ELSE "answered"]

(* With the test server there is one task, and no timer and every          *)
(* connection, or a timer, one to be scheduled and one connection; without *)
(* it the start-up has scheduled all timers but one.                       *)
Init ==
    \/ /\ server = TRUE /\ ProbeInit(Peers)
       /\ LoopInit({}, MaxTimers + 1, {CHOOSE c \in Callers : TRUE})
    \/ /\ server = TRUE /\ ProbeInit({CHOOSE p \in Peers : TRUE})
       /\ LoopInit({1} \cap (1..(MaxTimers - 1)), MaxTimers, {CHOOSE c \in Callers : TRUE})
    \/ /\ server = FALSE /\ ProbeInit(Peers)
       /\ LoopInit(1..(MaxTimers - 1), MaxTimers, Callers)

ClientFds == {f \in Fds : clients[f] # "absent"}

(***************************************************************************)
(* The peers and the clock.                                                *)
(***************************************************************************)
Connect(p) ==
    /\ server
    /\ fate[p] = "new"
    /\ fate' = [fate EXCEPT ![p] = "pending"]
    /\ backlog' = backlog \cup {p}
    /\ readable' = readable \cup {Listener}
    /\ UNCHANGED <<file, entries, callback, batch, loop, tasks, commands, caller,
                   running, nextId, elapses, fires, server, clients, conn>>

Deliver(f) ==
    /\ file[f] = "client"
    /\ \/ /\ conn[f].input = "none"
          /\ \E i \in {"part", "whole", "bad"} :
                conn' = [conn EXCEPT ![f].input = i]
       \/ /\ ~conn[f].hup
          /\ conn' = [conn EXCEPT ![f].hup = TRUE]
    /\ readable' = readable \cup {f}
    /\ UNCHANGED <<file, entries, callback, batch, loop, tasks, commands, caller,
                   running, nextId, elapses, fires, server, backlog, clients, fate>>

(* Fifteen seconds without a byte, and the sweep's timer ticks.            *)
GoIdle(f) ==
    /\ file[f] = "client"
    /\ ~conn[f].idle
    /\ conn' = [conn EXCEPT ![f].idle = TRUE]
    /\ readable' = readable \cup {Sweep}
    /\ UNCHANGED <<file, entries, callback, batch, loop, tasks, commands, caller,
                   running, nextId, elapses, fires, server, backlog, clients, fate>>

(***************************************************************************)
(* The handlers.                                                           *)
(***************************************************************************)
(* remove_tcp_client, remove_fd and close for every descriptor of S.       *)
CloseClients(S, outcome) ==
    /\ file' = [f \in Fds |-> IF f \in S THEN "closed" ELSE file[f]]
    /\ callback' = [f \in Fds |-> IF f \in S THEN "none" ELSE callback[f]]
    /\ clients' = [f \in Fds |-> IF f \in S THEN "absent" ELSE clients[f]]
    /\ conn' = [f \in Fds |-> IF f \in S THEN NoConn ELSE conn[f]]
    /\ fate' = [p \in Peers |-> IF \E f \in S : conn[f].peer = p THEN outcome ELSE fate[p]]

(* accept_tcp_clients(): takes what the kernel holds, one after the other, *)
(* until nothing is left, accept4() fails for want of a descriptor, or a   *)
(* connection above the limit has been closed.                             *)
AcceptOne(f, p) ==
    /\ file' = [file EXCEPT ![f] = "client"]
    /\ callback' = [callback EXCEPT ![f] = "client"]
    /\ clients' = [clients EXCEPT ![f] = "empty"]
    /\ conn' = [conn EXCEPT ![f] = [NoConn EXCEPT !.peer = p]]
    /\ fate' = [fate EXCEPT ![p] = "open"]

RefuseOne(p) ==
    /\ fate' = [fate EXCEPT ![p] = "refused"]
    /\ UNCHANGED <<file, callback, clients, conn>>

AtLimit == Cardinality(ClientFds) >= MaxTcpClients

DispatchListener ==
    /\ loop = "dispatch"
    /\ batch # <<>>
    /\ Head(batch).fd = Listener
    /\ IF ~server \/ backlog = {}
       THEN /\ batch' = Tail(batch)
            /\ readable' = readable \ {Listener}
            /\ UNCHANGED <<file, callback, clients, conn, fate, backlog>>
       ELSE \E p \in backlog :
            \/ /\ Free = {}
               /\ batch' = Tail(batch)
               /\ UNCHANGED <<file, callback, clients, conn, fate, backlog, readable>>
            \/ /\ Free # {}
               /\ AtLimit
               /\ RefuseOne(p)
               /\ backlog' = backlog \ {p}
               /\ batch' = Tail(batch)
               /\ readable' = IF backlog = {p} THEN readable \ {Listener} ELSE readable
            \/ /\ Free # {}
               /\ ~AtLimit
               /\ AcceptOne(Lowest(Free), p)
               /\ backlog' = backlog \ {p}
               /\ UNCHANGED <<batch, readable>>
    /\ UNCHANGED <<entries, loop, tasks, commands, caller, running, nextId,
                   elapses, fires, server>>

(* handle_tcp_client_readable(): what was read completes a query, either   *)
(* on its own or with the part that was buffered before.                   *)
QueryComplete(f, got) == got \in {"whole", "bad"} \/ (got = "part" /\ clients[f] = "part")

(* handle_dns_probe_tcp_client_events().  The event may be one that was    *)
(* meant for a connection that had this number before.                     *)
DispatchClient ==
    /\ loop = "dispatch"
    /\ batch # <<>>
    /\ Head(batch).fd \in Fds
    /\ callback[Head(batch).fd] = "client"
    /\ batch' = Tail(batch)
    /\ LET f == Head(batch).fd
           got == conn[f].input IN
       /\ readable' = readable \ {f}
       /\ \/ /\ QueryComplete(f, got)
             /\ CloseClients({f}, IF got = "bad" THEN "dropped" ELSE "answered")
          \/ /\ ~QueryComplete(f, got)
             /\ conn[f].hup \/ Head(batch).hup
             /\ CloseClients({f}, "hungUp")
          \/ /\ ~QueryComplete(f, got)
             /\ ~(conn[f].hup \/ Head(batch).hup)
             /\ clients' = [clients EXCEPT ![f] = IF got = "part" THEN "part" ELSE @]
             /\ conn' = [conn EXCEPT ![f].input = "none",
                                     ![f].idle = @ /\ got = "none"]
             /\ UNCHANGED <<file, callback, fate>>
    /\ UNCHANGED <<entries, loop, tasks, commands, caller, running, nextId,
                   elapses, fires, server, backlog>>

(* Mutant: a client with a part of a query buffered is not swept.          *)
IdleWithoutQuery(f) == conn[f].idle /\ clients[f] = "empty"

(* handle_tcp_idle_timeout()                                               *)
Expired(f) == conn[f].idle

DispatchSweep ==
    /\ loop = "dispatch"
    /\ batch # <<>>
    /\ Head(batch).fd = Sweep
    /\ batch' = Tail(batch)
    /\ CloseClients({f \in ClientFds : Expired(f)}, "idle")
    /\ readable' = readable \ ({Sweep} \cup {f \in ClientFds : Expired(f)})
    /\ UNCHANGED <<entries, loop, tasks, commands, caller, running, nextId,
                   elapses, fires, server, backlog>>

(* A control task applies a config: setup_dns_probe() tears the server     *)
(* down, and builds a new one unless the config has none.                  *)
RebuildProbe ==
    /\ loop = "commands"
    /\ server
    /\ file' = [f \in Fds |-> IF f \in ClientFds THEN "closed" ELSE file[f]]
    /\ callback' = [f \in Fds |-> IF f \in ClientFds THEN "none" ELSE callback[f]]
    /\ clients' = [f \in Fds |-> "absent"]
    /\ conn' = [f \in Fds |-> NoConn]
    /\ fate' = [p \in Peers |-> IF p \in backlog \/ \E f \in ClientFds : conn[f].peer = p
                                THEN "torndown" ELSE fate[p]]
    /\ backlog' = {}
    /\ server' \in BOOLEAN
    /\ readable' = readable \ (ClientFds \cup {Listener, Sweep})
    /\ UNCHANGED <<entries, batch, loop, tasks, commands, caller, running, nextId,
                   elapses, fires>>

(***************************************************************************)
(* The system.                                                             *)
(***************************************************************************)
HungUp == {f \in Fds : file[f] = "client" /\ conn[f].hup}

LoopStep ==
    \/ /\ \/ EpollWait(HungUp) \/ BatchDone \/ DispatchNothing \/ DispatchTimer
          \/ DrainEventfd \/ SwapTasks \/ RunCommand \/ CommandsDone
       /\ UNCHANGED probeVars
    \/ DispatchListener \/ DispatchClient \/ DispatchSweep

Others ==
    \/ /\ \/ \E c \in Callers : (\E w \in BOOLEAN : Push(c, w))
          \/ \E f \in Fds : Elapse(f)
          \/ StopLoop
       /\ UNCHANGED probeVars
    \/ RebuildProbe
    \/ \E p \in Peers : Connect(p)
    \/ \E f \in Fds : Deliver(f)

Wakes == \E c \in Callers : WakeControlLoop(c) /\ UNCHANGED probeVars
Clock == \E f \in Fds : GoIdle(f)

Next == LoopStep \/ Others \/ Wakes \/ Clock

(* The loop thread and a caller between its push and its write go on, and  *)
(* time passes; connections, tasks, timers and signals need not come.      *)
Spec == Init /\ [][Next]_vars /\ WF_vars(LoopStep) /\ WF_vars(Wakes) /\ WF_vars(Clock)

(***************************************************************************)
(* Properties.                                                             *)
(***************************************************************************)
(* No timer callback runs unless its own period has passed since it was    *)
(* last run, and none runs after cancel(): the event of a batch that was   *)
(* fetched for a timer which is gone never fires the one that took over    *)
(* its descriptor (on_timer()'s read).                                     *)
FiresOnlyElapsed == \A i \in Ids : fires[i] <= elapses[i]

(* Whatever order callbacks, cancellations, sweeps and teardowns take in a *)
(* batch, the four tables agree: an open descriptor has a callback, a      *)
(* timer descriptor exactly one entry, a client descriptor its buffer, and *)
(* the clients stay within kMaxTcpClients.                                 *)
TablesAgree ==
    /\ \A f \in Fds :
          /\ callback[f] = (IF file[f] = "closed" THEN "none" ELSE file[f])
          /\ Cardinality(EntryAt(f)) = (IF file[f] = "timer" THEN 1 ELSE 0)
          /\ (clients[f] # "absent") <=> (file[f] = "client")
    /\ Cardinality(ClientFds) <= MaxTcpClients

(* Every awaited task is answered while the loop serves: the eventfd is    *)
(* read empty before the queue is swapped, so a push that the swap misses  *)
(* leaves the eventfd readable (handle_control_commands).                  *)
TasksRun == []<>(running => \A c \in Callers : caller[c] \notin {"waiting", "posted"})

(* Every accepted connection is answered, refused, swept or torn down,     *)
(* however little of a query the other side sends.                         *)
ConnectionsEnd == []<>(running => \A p \in Peers : fate[p] # "open")
=============================================================================
