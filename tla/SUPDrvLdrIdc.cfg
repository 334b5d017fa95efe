\* A ring-0 client looks up a symbol of an image another session opened.
CONSTANTS
    s1 = s1  s2 = s2
    t1 = t1  t2 = t2
    o1 = o1
    i1 = i1  i2 = i2
    NONE = NONE
    Session = {s1, s2}
    Thread = {t1, t2}
    Obj = {o1}
    Image = {i1, i2}
    MaxUse = 2
    Orderly = TRUE
    Kernel = {s2}
SPECIFICATION IdcSpec
INVARIANTS
    UsedImageExists
