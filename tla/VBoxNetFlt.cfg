\* An instance that is still being destroyed and its successor; a thread that sends.
\* Nobody has to go on using the filter, and a call into freed memory is not followed.
CONSTANTS
    i1 = i1  i2 = i2
    v1 = v1
    Ins = {i1, i2}
    Vm = {v1}
    NIL = NIL
SPECIFICATION Spec
CHECK_DEADLOCK FALSE
INVARIANTS
    RefsBalanced
    IdleIsIdle
    ListIsSound
PROPERTIES
    ClosedWhenUnused
    WaitEnds
