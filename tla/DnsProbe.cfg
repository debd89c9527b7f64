\* Two descriptor numbers for timers and clients, so that a number that one
\* callback of a batch frees is taken by the next; three timers, one of them
\* scheduled while another's event is still in the batch; a limit of one client
\* with two connections.
CONSTANTS
    Fds = {1, 2}
    MaxTimers = 3
    MaxElapses = 1
    Callers = {c1, c2}
    Peers = {p1, p2}
    Control = Control
    Listener = Listener
    Sweep = Sweep
    MaxTcpClients = 1
SPECIFICATION Spec
INVARIANTS FiresOnlyElapsed TablesAgree
PROPERTIES TasksRun ConnectionsEnd
CHECK_DEADLOCK FALSE
