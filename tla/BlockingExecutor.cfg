\* Two workers as in blocking_executor_{2, 64}, a queue of one place so that it
\* fills, three tasks so that two callers compete for the place.
CONSTANTS
    Workers = {w1, w2}
    Tasks = {t1, t2, t3}
    NoTask = NoTask
    MaxQueueSize = 1
SPECIFICATION FairSpec
INVARIANT RunExactlyOnce
PROPERTY ImplementsPool
CHECK_DEADLOCK FALSE
