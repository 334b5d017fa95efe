\* Two waiters and a signaller, or any other mix, on one semaphore of either kind.
\* The process may stop asking.
CONSTANTS
    t1 = t1  t2 = t2  t3 = t3
    s1 = s1
    Thread = {t1, t2, t3}
    Sem = {s1}
    Level2 = 1
    Limit = 1
    NIL = NIL
SPECIFICATION Spec
CHECK_DEADLOCK FALSE
INVARIANTS
    RefsBalanced
    DestroyedUnused
    NoSleeperForgotten
PROPERTIES
    SignalReachesWaiter
