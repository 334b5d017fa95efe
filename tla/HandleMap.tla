----------------------------- MODULE HandleMap -----------------------------
(***************************************************************************)
(* What a handle table promises its callers: handles name objects until    *)
(* they are freed, and a freed handle is used again only after every       *)
(* handle that was free before it.  How the table grows, and by how many   *)
(* threads at once, does not show.  HandleTable implements this.           *)
(***************************************************************************)
EXTENDS Naturals, Sequences

CONSTANTS
    Obj, Ctx,   \* what a handle stands for, and the context that owns it
    Level2,     \* the number of handles the table grows by
    Limit       \* the number of handles there can be

VARIABLES
    live,    \* does the table exist?
    map,     \* the handles in use, with object and context
    free,    \* the handles that can be issued, oldest first
    issued   \* the handles 0 .. issued-1 are in use or free

vars == <<live, map, free, issued>>

Init == live = FALSE /\ map = <<>> /\ free = <<>> /\ issued = 0

(* RTHandleTableCreateEx. *)
Create ==
    /\ ~live
    /\ live' = TRUE
    /\ map' = <<>> /\ free' = <<>> /\ issued' = 0

(* RTHandleTableAllocWithCtx: the oldest free handle; the table may grow.  *)
Alloc(o, c) ==
    /\ live
    /\ \E n \in {issued, issued + Level2} :
        LET avail == free \o [k \in 1..(n - issued) |-> issued + k - 1]
        IN  /\ n <= Limit
            /\ avail # <<>>
            /\ free' = Tail(avail)
            /\ map' = [h \in DOMAIN map \cup {Head(avail)} |->
                          IF h = Head(avail) THEN <<o, c>> ELSE map[h]]
            /\ issued' = n
    /\ UNCHANGED live

(* RTHandleTableFreeWithCtx: only with the context of the allocation. *)
Free(h, c) ==
    /\ live
    /\ h \in DOMAIN map /\ map[h][2] = c
    /\ map' = [g \in DOMAIN map \ {h} |-> map[g]]
    /\ free' = Append(free, h)
    /\ UNCHANGED <<live, issued>>

(* RTHandleTableDestroy. *)
Destroy ==
    /\ live
    /\ live' = FALSE
    /\ map' = <<>> /\ free' = <<>> /\ issued' = 0

Next ==
    \/ Create
    \/ \E o \in Obj, c \in Ctx : Alloc(o, c)
    \/ \E h \in DOMAIN map, c \in Ctx : Free(h, c)
    \/ Destroy

Spec == Init /\ [][Next]_vars
=============================================================================
