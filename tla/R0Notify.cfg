\* Two overlapping events, a client that changes the list under them.
CONSTANTS
    e1 = e1  e2 = e2
    c1 = c1
    k1 = k1  k2 = k2  k3 = k3
    r1 = r1  r2 = r2  r3 = r3
    NONE = NONE
    Event = {e1, e2}
    Client = {c1}
    MaxUsers = 2
    Key = {k1, k2, k3}
    Rec = {r1, r2, r3}
    Bits = 2
    Serialised = TRUE
SPECIFICATION Spec
SYMMETRY Symmetry
INVARIANTS
    EveryoneOnce
    NothingDangles
