\* Two threads that may both find all bundles full, and link one each; two objects,
\* the memory of which is used again; bundles of two entries.
CONSTANTS
    t1 = t1  t2 = t2
    m1 = m1  m2 = m2
    a1 = a1  a2 = a2
    Thread = {t1, t2}
    Mem = {m1, m2}
    Addr = {a1, a2}
    Entries = 2
    MaxBundle = 3
    MaxMap = 1
    NIL = NIL
SPECIFICATION Spec
SYMMETRY Symmetry
INVARIANTS
    OneOwner
    RoomIsReal
    AddressIsUnique
    SessionLeavesNothing
