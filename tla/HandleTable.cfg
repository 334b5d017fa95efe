\* Three threads grow a table of two second level tables whose first level
\* table grows twice (CMaxArg is rounded up to four).  No symmetry: there is
\* liveness.
CONSTANTS
    t1 = t1  t2 = t2  t3 = t3
    o1 = o1
    c1 = c1
    Thread = {t1, t2, t3}
    Obj = {o1}
    Ctx = {c1}
    Level2 = 2
    Level1Step = 1
    Threshold = 1
    CMaxArg = 3
    FREE = FREE
SPECIFICATION FairSpec
INVARIANTS
    FreeListSound
    TablesAgree
    NoMemoryLost
PROPERTIES
    RefusedOnlyWhenFull
    DestroyDeletesAll
    ImplementsMap
    AllocReturns
