\* Orderly clients: two sessions share images and their code.
CONSTANTS
    s1 = s1  s2 = s2
    t1 = t1  t2 = t2
    o1 = o1
    i1 = i1  i2 = i2
    NONE = NONE
    Session = {s1, s2}
    Thread = {t1, t2}
    Obj = {o1}
    Image = {i1, i2}
    MaxUse = 3
    Orderly = TRUE
    Kernel = {}
SPECIFICATION Spec
SYMMETRY Symmetry
INVARIANTS
    CountsEveryUse
    CodeIsLoaded
    NoDanglingObject
