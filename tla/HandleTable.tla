---------------------------- MODULE HandleTable ----------------------------
(***************************************************************************)
(* The handle table with contexts (src/common/misc/handletable.c,          *)
(* handletablectx.c, handletable.h), one per session of the support        *)
(* driver.  The entries live in second level tables of Level2 entries; the *)
(* free ones form a list with a head and a tail, reused in FIFO order.  An *)
(* allocation that finds the list empty adds a second level table, and a   *)
(* larger first level table when that is full.  It allocates memory with   *)
(* the spinlock dropped, and frees what it no longer needs with the        *)
(* spinlock dropped once more, so allocations race each other in between.  *)
(*                                                                         *)
(* One critical section of the spinlock is one action.                     *)
(***************************************************************************)
EXTENDS Naturals, FiniteSets, FiniteSetsExt

CONSTANTS
    Thread, Obj, Ctx,
    Level2,       \* RTHT_LEVEL2_ENTRIES
    Level1Step,   \* PAGE_SIZE / sizeof(void *)
    Threshold,    \* RTHT_LEVEL1_DYN_ALLOC_THRESHOLD
    CMaxArg,      \* the number of handles asked for at creation
    FREE          \* the pvObj of an entry for which RTHT_IS_FREE holds

ASSUME TableAssumption ==
    /\ Level2 \in Nat \ {0} /\ Level1Step \in Nat \ {0}
    /\ Threshold \in Nat /\ CMaxArg \in Nat \ {0}
    /\ FREE \notin Obj

(* The limit is rounded up to whole second level tables. *)
cMax == ((CMaxArg + Level2 - 1) \div Level2) * Level2

MaxLevel1 == cMax \div Level2

(* The first level table is part of the handle table, or grows on demand. *)
Dynamic == MaxLevel1 >= Threshold

Index  == 0..(cMax - 1)
NIL    == cMax                       \* NIL_RTHT_INDEX
LEAF   == 0..(MaxLevel1 - 1)         \* indexes of the first level table
Poison == "poison"                   \* the pvCtx of a free entry
NoArg  == <<>>

VARIABLES
    tab,         \* the handle table
    heapLevel1,  \* allocated first level tables
    heapLevel2,  \* allocated second level tables
    deleted,     \* the indexes the last RTHandleTableDestroy gave to pfnDelete
    pc,          \* where a thread is in RTHandleTableAllocWithCtx
    arg,         \* the object and the context it allocates a handle for
    grow         \* its cLevel1: the new first level size, 0 for no change

heapVars == <<heapLevel1, heapLevel2>>
vars     == <<tab, heapVars, deleted, pc, arg, grow>>

PC == {"idle", "alloc", "memory", "install", "insert"}

TypeOK ==
    /\ tab \in [valid : BOOLEAN,
                pvObj : [Index -> Obj \cup {FREE}],
                pvCtx : [Index -> Ctx \cup {Poison}],
                iNext : [Index -> Index \cup {NIL}],
                papvLevel1 : SUBSET LEAF,
                cCur : 0..cMax, cCurAllocated : 0..cMax, cLevel1 : 0..MaxLevel1,
                iFreeHead : Index \cup {NIL}, iFreeTail : Index \cup {NIL}]
    /\ heapLevel1 \in Nat /\ heapLevel2 \in Nat
    /\ deleted \in SUBSET Index
    /\ pc   \in [Thread -> PC]
    /\ arg  \in [Thread -> (Obj \X Ctx) \cup {NoArg}]
    /\ grow \in [Thread -> 0..MaxLevel1]

(* A table as RTHandleTableCreateEx leaves it; papvLevel1 is the set of    *)
(* first level entries that are not NULL.                                  *)
Fresh(alive) ==
    [valid |-> alive,
     pvObj |-> [i \in Index |-> FREE], pvCtx |-> [i \in Index |-> Poison],
     iNext |-> [i \in Index |-> NIL],
     papvLevel1 |-> {}, cCur |-> 0, cCurAllocated |-> 0,
     cLevel1 |-> IF Dynamic THEN 0 ELSE MaxLevel1,
     iFreeHead |-> NIL, iFreeTail |-> NIL]

Init ==
    /\ tab = Fresh(FALSE)
    /\ heapLevel1 = 0 /\ heapLevel2 = 0
    /\ deleted = {}
    /\ pc   = [t \in Thread |-> "idle"]
    /\ arg  = [t \in Thread |-> NoArg]
    /\ grow = [t \in Thread |-> 0]

-----------------------------------------------------------------------------
(* Operations on a table T inside one critical section. *)

(* The head moves on but the tail is not reset with the last entry. *)
GrabKeepsTail(T, o, c) ==
    LET i == T.iFreeHead
    IN  [T EXCEPT !.iFreeHead = IF i = T.iFreeTail THEN NIL ELSE T.iNext[i],
                  !.cCurAllocated = @ + 1,
                  !.pvObj[i] = o, !.pvCtx[i] = c, !.iNext[i] = NIL]

(* Take the head of the free list for object o and context c; pvObj and    *)
(* iNext share one word, so the entry is no longer a list element.         *)
Grab(T, o, c) ==
    LET i == T.iFreeHead
    IN  [T EXCEPT !.iFreeHead = IF i = T.iFreeTail THEN NIL ELSE T.iNext[i],
                  !.iFreeTail = IF i = T.iFreeTail THEN NIL ELSE @,
                  !.cCurAllocated = @ + 1,
                  !.pvObj[i] = o, !.pvCtx[i] = c, !.iNext[i] = NIL]

(* Append the chain of free entries from..to to the free list. *)
Join(T, from, to) ==
    [T EXCEPT !.iFreeHead = IF T.iFreeTail = NIL THEN from ELSE @,
              !.iFreeTail = to,
              !.iNext = [i \in Index |->
                            IF i = T.iFreeTail THEN from
                            ELSE IF i \in from..to
                                 THEN IF i = to THEN NIL ELSE i + 1
                                 ELSE @[i]]]

(* Add a second level table; its entries are free. *)
AddTable(T) ==
    [Join(T, T.cCur, T.cCur + Level2 - 1)
        EXCEPT !.papvLevel1 = @ \cup {T.cCur \div Level2},
               !.cCur = @ + Level2]

(* Freed entries go to the head of the list. *)
RecycleLifo(T, i) ==
    [T EXCEPT !.pvObj[i] = FREE, !.pvCtx[i] = Poison, !.cCurAllocated = @ - 1,
              !.iNext[i] = T.iFreeHead,
              !.iFreeHead = i,
              !.iFreeTail = IF @ = NIL THEN i ELSE @]

(* Free the entry i. *)
Recycle(T, i) ==
    [Join(T, i, i) EXCEPT !.pvObj[i] = FREE, !.pvCtx[i] = Poison,
                          !.cCurAllocated = @ - 1]

(* The entry index i, if the tables have it. *)
Lookup(T, i) == i < T.cCur /\ i \div Level2 \in T.papvLevel1

(* The first level table never gets its last entry. *)
GrowLevel1Short(T) ==
    IF T.cCur \div Level2 >= T.cLevel1
    THEN Min({T.cLevel1 + Level1Step, MaxLevel1 - 1}) ELSE 0

(* What an expansion asks for: the size of a larger first level table, or  *)
(* 0 when the present one has room.                                        *)
GrowLevel1(T) ==
    IF T.cCur \div Level2 >= T.cLevel1 THEN Min({T.cLevel1 + Level1Step, MaxLevel1}) ELSE 0

-----------------------------------------------------------------------------
(* RTHandleTableAllocWithCtx. *)

Goto(t, l) == pc' = [pc EXCEPT ![t] = l]

Return(t) ==
    /\ Goto(t, "idle")
    /\ arg'  = [arg  EXCEPT ![t] = NoArg]
    /\ grow' = [grow EXCEPT ![t] = 0]

AllocCall(t, o, c) ==
    /\ pc[t] = "idle" /\ tab.valid
    /\ arg' = [arg EXCEPT ![t] = <<o, c>>]
    /\ Goto(t, "alloc")
    /\ UNCHANGED <<tab, heapVars, deleted, grow>>

(* The thread has its entry, drops the lock and returns the handle. *)
Success(t, T) ==
    /\ tab' = Grab(T, arg[t][1], arg[t][2])
    /\ Return(t)
    /\ UNCHANGED deleted

(* The free list has an entry. *)
AllocTake(t) ==
    /\ pc[t] = "alloc" /\ tab.iFreeHead # NIL
    /\ Success(t, tab)
    /\ UNCHANGED heapVars

(* The limit is compared as if it were not rounded up. *)
AllocFullEarly(t) ==
    /\ pc[t] = "alloc" /\ tab.iFreeHead = NIL /\ tab.cCur + Level2 >= cMax
    /\ Return(t)
    /\ UNCHANGED <<tab, heapVars, deleted>>

(* VERR_NO_MORE_HANDLES. *)
AllocFull(t) ==
    /\ pc[t] = "alloc" /\ tab.iFreeHead = NIL /\ tab.cCur >= cMax
    /\ Return(t)
    /\ UNCHANGED <<tab, heapVars, deleted>>

(* The table must grow: compute by how much and drop the lock. *)
AllocExpand(t) ==
    /\ pc[t] = "alloc" /\ tab.iFreeHead = NIL /\ tab.cCur < cMax
    /\ grow' = [grow EXCEPT ![t] = GrowLevel1(tab)]
    /\ Goto(t, "memory")
    /\ UNCHANGED <<tab, heapVars, deleted, arg>>

(* Allocate both tables without the lock. *)
AllocMemory(t) ==
    /\ pc[t] = "memory"
    /\ heapLevel2' = heapLevel2 + 1
    /\ heapLevel1' = heapLevel1 + (IF grow[t] > 0 THEN 1 ELSE 0)
    /\ Goto(t, "install")
    /\ UNCHANGED <<tab, deleted, arg, grow>>

(* VERR_NO_MEMORY, for either table; a first level table is freed again. *)
AllocNoMemory(t) ==
    /\ pc[t] = "memory"
    /\ Return(t)
    /\ UNCHANGED <<tab, heapVars, deleted>>

(* Replace the first level table unless another thread has done it; drop   *)
(* the lock to free the one that is left over.                             *)
InstallLevel1(t) ==
    /\ pc[t] = "install" /\ grow[t] > 0
    /\ IF grow[t] > tab.cLevel1
       THEN /\ tab' = [tab EXCEPT !.cLevel1 = grow[t]]
            /\ heapLevel1' = heapLevel1 - (IF tab.cLevel1 > 0 THEN 1 ELSE 0)
       ELSE /\ heapLevel1' = heapLevel1 - 1
            /\ UNCHANGED tab
    /\ Goto(t, "insert")
    /\ UNCHANGED <<heapLevel2, deleted, arg, grow>>

(* The lock is held and the second level table can be entered. *)
AtInsert(t) == pc[t] = "insert" \/ (pc[t] = "install" /\ grow[t] = 0)

(* The room in the first level table is not looked at again. *)
HasRoomStale(T) == T.cCur < cMax

HasRoom(T) == T.cCur \div Level2 < T.cLevel1 /\ T.cCur < cMax

(* Enter the table; the loop takes its entry in the same critical section. *)
InsertLevel2(t) ==
    /\ AtInsert(t) /\ HasRoom(tab)
    /\ Success(t, AddTable(tab))
    /\ UNCHANGED heapVars

(* The loser forgets the table it brought. *)
LoseLevel2Leaks(t) ==
    /\ AtInsert(t) /\ ~HasRoom(tab)
    /\ Goto(t, "alloc")
    /\ grow' = [grow EXCEPT ![t] = 0]
    /\ UNCHANGED <<tab, heapVars, deleted, arg>>

(* Another thread was faster: free the table without the lock, start over. *)
LoseLevel2(t) ==
    /\ AtInsert(t) /\ ~HasRoom(tab)
    /\ heapLevel2' = heapLevel2 - 1
    /\ Goto(t, "alloc")
    /\ grow' = [grow EXCEPT ![t] = 0]
    /\ UNCHANGED <<tab, heapLevel1, deleted, arg>>

-----------------------------------------------------------------------------
(* RTHandleTableFreeWithCtx on the handle with index i.  The entry must be *)
(* in use in this context; the retain callback may refuse, which leaves    *)
(* the handle alone.                                                       *)
Free(t, i, c) ==
    /\ pc[t] = "idle" /\ tab.valid
    /\ Lookup(tab, i) /\ tab.pvCtx[i] = c /\ tab.pvObj[i] # FREE
    /\ tab' = Recycle(tab, i)
    /\ UNCHANGED <<heapVars, deleted, pc, arg, grow>>

(* RTHandleTableCreateEx. *)
Create ==
    /\ ~tab.valid
    /\ tab' = Fresh(TRUE)
    /\ deleted' = {}
    /\ UNCHANGED <<heapVars, pc, arg, grow>>

(* The indexes the walk of RTHandleTableDestroy hands to pfnDelete: it     *)
(* looks at the next second level table only while it knows that handles   *)
(* are left.                                                               *)
Used(T) == {i \in Index : T.pvObj[i] # FREE}

(* The walk takes cCurAllocated for a bound on the tables. *)
DeletedShort(T) ==
    {i \in Used(T) : i \div Level2 < T.cCurAllocated /\ i \div Level2 \in T.papvLevel1}

Deleted(T) ==
    LET before(k) == {i \in Used(T) : i < k * Level2}
    IN  {i \in Used(T) :
            LET k == i \div Level2
            IN  k < T.cLevel1 /\ k \in T.papvLevel1
                /\ T.cCurAllocated > Cardinality(before(k))}

(* RTHandleTableDestroy, when the last call on the session has returned. *)
Destroy ==
    /\ tab.valid
    /\ \A t \in Thread : pc[t] = "idle"
    /\ deleted' = Deleted(tab)
    /\ heapLevel2' = heapLevel2 - Cardinality({k \in tab.papvLevel1 : k < tab.cLevel1})
    /\ heapLevel1' = heapLevel1 - (IF Dynamic /\ tab.cLevel1 > 0 THEN 1 ELSE 0)
    /\ tab' = Fresh(FALSE)
    /\ UNCHANGED <<pc, arg, grow>>

-----------------------------------------------------------------------------
AllocStep(t) ==
    \/ AllocTake(t) \/ AllocFull(t) \/ AllocExpand(t)
    \/ AllocMemory(t) \/ AllocNoMemory(t)
    \/ InstallLevel1(t) \/ InsertLevel2(t) \/ LoseLevel2(t)

Next ==
    \/ \E t \in Thread :
        \/ \E o \in Obj, c \in Ctx : AllocCall(t, o, c)
        \/ AllocStep(t)
        \/ \E i \in Index, c \in Ctx : Free(t, i, c)
    \/ Create
    \/ Destroy

Spec == Init /\ [][Next]_vars

(* A thread inside an allocation keeps running: the spinlock is free       *)
(* between the critical sections and the allocator returns.                *)
FairSpec == Spec /\ \A t \in Thread : WF_vars(AllocStep(t))

-----------------------------------------------------------------------------
(* Properties. *)

(* The k-th element of the free list, following iNext from the head. *)
Chain[k \in 1..(cMax + 1)] ==
    IF k = 1 THEN tab.iFreeHead
    ELSE IF Chain[k - 1] = NIL THEN NIL ELSE tab.iNext[Chain[k - 1]]

Unused == {i \in 0..(tab.cCur - 1) : tab.pvObj[i] = FREE}

FreeSeq == [k \in 1..Cardinality(Unused) |-> Chain[k]]

(* The free list holds each unused entry once and ends at its tail: the    *)
(* list joined by two allocations that grew the table at the same time is  *)
(* not cut and has no cycle (handletablectx.c, 171-196 and 306-317).       *)
FreeListSound ==
    LET n == Cardinality(Unused)
    IN  /\ {FreeSeq[k] : k \in 1..n} = Unused
        /\ Chain[n + 1] = NIL
        /\ tab.iFreeTail = IF n = 0 THEN NIL ELSE Chain[n]

(* The counters and the two levels agree with the entries: cCurAllocated   *)
(* and cCur are exact, and each index below cCur is reached through a      *)
(* first level entry, whoever installed it (the assertions at              *)
(* handletablectx.c:78, 85, 98, 177 and 192).                              *)
TablesAgree ==
    /\ tab.cCurAllocated = Cardinality(Used(tab))
    /\ tab.cCur = Level2 * Cardinality(tab.papvLevel1)
    /\ Used(tab) \subseteq 0..(tab.cCur - 1)
    /\ \A i \in 0..(tab.cCur - 1) : Lookup(tab, i) /\ i \div Level2 < tab.cLevel1

(* No table is lost or freed twice, whichever thread loses the race to     *)
(* grow, and nothing is left when the handle table is destroyed.           *)
NoMemoryLost ==
    LET carrying == {t \in Thread : pc[t] \in {"install", "insert"}}
        swapping == {t \in Thread : pc[t] = "install" /\ grow[t] > 0}
    IN  /\ heapLevel2 = Cardinality(tab.papvLevel1) + Cardinality(carrying)
        /\ heapLevel1 = Cardinality(swapping)
                        + (IF Dynamic /\ tab.cLevel1 > 0 THEN 1 ELSE 0)

(* An allocation is refused for want of handles only when all of them are  *)
(* in use, also when other threads grow the table or free handles while    *)
(* the lock is dropped (the assertion at handletablectx.c:98).             *)
RefusedOnlyWhenFull ==
    [][\A t \in Thread :
          pc[t] = "alloc" /\ pc'[t] = "idle" /\ UNCHANGED tab
              => Used(tab) = Index]_vars

(* Destroying the table gives every handle in use to the delete callback,  *)
(* although the walk stops early by cCurAllocated (handletable.c:163-196). *)
DestroyDeletesAll ==
    [][tab.valid /\ ~tab'.valid => deleted' = Used(tab)]_vars

(* Clients see a map of handles that are reused in the order of freeing. *)
Map == INSTANCE HandleMap WITH
           live   <- tab.valid,
           map    <- [i \in Used(tab) |-> <<tab.pvObj[i], tab.pvCtx[i]>>],
           free   <- FreeSeq,
           issued <- tab.cCur,
           Limit  <- cMax

ImplementsMap == Map!Spec

(* Losing the race to grow does not make an allocation loop for ever: it   *)
(* returns a handle or an error, whatever the other threads allocate.      *)
AllocReturns == \A t \in Thread : pc[t] # "idle" ~> pc[t] = "idle"
=============================================================================
