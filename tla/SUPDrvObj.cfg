\* One shared and one private object, every session releases its shared
\* references before it closes.  No symmetry: there is liveness.
CONSTANTS
    s1 = s1   s2 = s2
    t1 = t1   t2 = t2  t3 = t3
    o1 = o1   o2 = o2
    r1 = r1   r2 = r2  r3 = r3
    NONE = NONE
    Session = {s1, s2}
    Thread = {t1, t2, t3}
    Obj = {o1, o2}
    Shared = {o1}
    Rec = {r1, r2, r3}
    AbruptClose = FALSE
    MaxUse = 2
SPECIFICATION FairSpec
INVARIANTS
    NoDanglingRecord
    DestroyedOnce
PROPERTIES
    RegistrySpec
    UnlinkedIsFreed
    CloseCompletes
