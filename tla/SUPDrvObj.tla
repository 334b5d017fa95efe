------------------------------ MODULE SUPDrvObj ------------------------------
(***************************************************************************)
(* The session object registry of the support driver: SUPR0ObjRegister,    *)
(* SUPR0ObjAddRefEx, SUPR0ObjRelease and the object part of                *)
(* supdrvCleanupSession (src/vboxdrv/SUPDrv.c).                            *)
(*                                                                         *)
(* An object is reference counted twice: pObj->cUsage counts every         *)
(* reference, and each session keeps one usage record per object with the  *)
(* references made through that session.  One critical section of the      *)
(* device extension's spinlock is one action; wherever the code drops the  *)
(* spinlock (to allocate a record, to run a destructor) the action ends.   *)
(*                                                                         *)
(* A ring-0 component may publish an object in a directory of its own,     *)
(* guarded by a mutex of its own, so that other sessions find and          *)
(* reference it: the objects in Shared.  Its destructor takes that mutex   *)
(* to withdraw the object.  Such components (the internal network) are     *)
(* not in this repository; the directory follows the contract in the       *)
(* comments of SUPR0ObjAddRefEx.                                           *)
(***************************************************************************)
EXTENDS Naturals, FiniteSets

CONSTANTS
    Session,      \* pSession: one per open of the device
    Thread,       \* kernel threads executing a call for some session
    Obj,          \* one element per object allocation; never reused
    Rec,          \* memory for usage records (SUPDRVUSAGE)
    Shared,       \* the objects their component publishes
    AbruptClose,  \* may a session close while it references shared objects?
    MaxUse,       \* bound: no new reference is asked for at this count
    NONE          \* no thread, no session, no object

ASSUME ObjAssumption ==
    /\ Shared \subseteq Obj
    /\ AbruptClose \in BOOLEAN
    /\ MaxUse \in Nat \ {0}
    /\ NONE \notin Session \cup Thread \cup Obj

VARIABLES
    session,      \* the life of a session
    mem,          \* the memory of an object
    u32Magic,     \* pObj->u32Magic
    cUsage,       \* pObj->cUsage
    pObjs,        \* pDevExt->pObjs, the linked objects
    pUsage,       \* pSession->pUsage, the records of each session
    pUsageFree,   \* pDevExt->pUsageFree, records kept for reuse
    usageMem,     \* the records that are allocated
    recObj,       \* pUsage->pObj
    recUse,       \* pUsage->cUsage
    dir,          \* the component's directory of published objects
    dirOwner,     \* the thread that holds the directory's mutex
    pc, ses, ob   \* where a thread is, its session and its object

heapVars == <<mem, u32Magic, cUsage, pObjs>>
recVars  == <<pUsage, pUsageFree, usageMem, recObj, recUse>>
dirVars  == <<dir, dirOwner>>
thrVars  == <<pc, ses, ob>>
vars     == <<session, heapVars, recVars, dirVars, thrVars>>

(* SUPDRVOBJ_MAGIC and SUPDRVOBJ_MAGIC_DEAD. *)
MAGIC == "magic"
DEAD  == "dead"

(* "init": allocated by a SUPR0ObjRegister that has not linked it yet. *)
MemState == {"none", "init", "alloc", "freed"}

(* Where a thread can be suspended inside a call: the places where the     *)
(* code runs without the spinlock.                                         *)
PC == {"idle", "regAlloc", "addRef", "addAlloc", "dtor", "free",
       "cleanup", "cleanDtor", "cleanFree"}

TypeOK ==
    /\ session    \in [Session -> {"closed", "open", "closing"}]
    /\ mem        \in [Obj -> MemState]
    /\ u32Magic   \in [Obj -> {MAGIC, DEAD}]
    /\ cUsage     \in [Obj -> Nat]
    /\ pObjs      \in SUBSET Obj
    /\ pUsage     \in [Session -> SUBSET Rec]
    /\ pUsageFree \in SUBSET Rec
    /\ usageMem   \in SUBSET Rec
    /\ recObj     \in [Rec -> Obj \cup {NONE}]
    /\ recUse     \in [Rec -> Nat]
    /\ dir        \in SUBSET Shared
    /\ dirOwner   \in Thread \cup {NONE}
    /\ pc         \in [Thread -> PC]
    /\ ses        \in [Thread -> Session \cup {NONE}]
    /\ ob         \in [Thread -> Obj \cup {NONE}]

Init ==
    /\ session    = [s \in Session |-> "closed"]
    /\ mem        = [o \in Obj |-> "none"]
    /\ u32Magic   = [o \in Obj |-> MAGIC]
    /\ cUsage     = [o \in Obj |-> 0]
    /\ pObjs      = {}
    /\ pUsage     = [s \in Session |-> {}]
    /\ pUsageFree = {}
    /\ usageMem   = {}
    /\ recObj     = [r \in Rec |-> NONE]
    /\ recUse     = [r \in Rec |-> 0]
    /\ dir        = {}
    /\ dirOwner   = NONE
    /\ pc         = [t \in Thread |-> "idle"]
    /\ ses        = [t \in Thread |-> NONE]
    /\ ob         = [t \in Thread |-> NONE]

-----------------------------------------------------------------------------
(* Thread bookkeeping: a call starts in an open session, is suspended with *)
(* Goto and is over with Return.                                           *)

CanCall(t, s) == pc[t] = "idle" /\ session[s] = "open"

Goto(t, l, s, o) ==
    /\ pc'  = [pc  EXCEPT ![t] = l]
    /\ ses' = [ses EXCEPT ![t] = s]
    /\ ob'  = [ob  EXCEPT ![t] = o]

Return(t) == Goto(t, "idle", NONE, NONE)

(* The usage records session s has for object o. *)
Records(s, o) == {r \in pUsage[s] : recObj[r] = o}

(* RTMemAlloc of a usage record: any record not allocated so far. *)
Allocatable == Rec \ usageMem

(* Wrong forms of the operators below: a check, a reset or a free dropped, *)
(* a comparison or an amount off.  No action uses them.                    *)
IsAlive_Unchecked(o)   == TRUE
AreLast_OffByOne(o, n) == cUsage[o] < n
DropUses_One(o, n)     == cUsage' = [cUsage EXCEPT ![o] = @ - 1]
Unlink_Missing(o)      == UNCHANGED pObjs
Free_Missing(o)        == UNCHANGED mem

(* The object is not being destroyed, as far as its magic tells. *)
IsAlive(o) == u32Magic[o] = MAGIC

(* n references are all the references the object has. *)
AreLast(o, n) == cUsage[o] <= n

DropUses(o, n) == cUsage' = [cUsage EXCEPT ![o] = @ - n]

(* A session's record counts more references than the one being released. *)
HasMore(r) == recUse[r] > 1

Unlink(o) == pObjs' = pObjs \ {o}

(* RTMemFree(pObj).  A dangling record (see NoDanglingRecord) reads what    *)
(* the freed memory last contained, one of the things it may read.  The    *)
(* address is not given out again: that a dangling record or a lookup is   *)
(* taken for one of a new object at the same address is not in the model.  *)
Free(o) == mem' = [mem EXCEPT ![o] = "freed"]

-----------------------------------------------------------------------------
(* supdrvCreateSession, as far as the registry is concerned: no records. *)
CreateSession(s) ==
    /\ session[s] = "closed"
    /\ session' = [session EXCEPT ![s] = "open"]
    /\ UNCHANGED <<heapVars, recVars, dirVars, thrVars>>

(* SUPR0ObjRegister, second half: link the object with one reference and   *)
(* give the session its record for it.  The component publishes a shared   *)
(* object while it still holds its mutex.                                  *)
Insert(s, o, r) ==
    /\ mem'      = [mem      EXCEPT ![o] = "alloc"]
    /\ u32Magic' = [u32Magic EXCEPT ![o] = MAGIC]
    /\ cUsage'   = [cUsage   EXCEPT ![o] = 1]
    /\ pObjs'    = pObjs \cup {o}
    /\ pUsage'   = [pUsage   EXCEPT ![s] = @ \cup {r}]
    /\ recObj'   = [recObj   EXCEPT ![r] = o]
    /\ recUse'   = [recUse   EXCEPT ![r] = 1]
    /\ dir'      = dir \cup ({o} \cap Shared)

(* SUPR0ObjRegister with a record on the free list: one critical section. *)
RegisterReuse(t, s, o) ==
    /\ CanCall(t, s)
    /\ mem[o] = "none"
    /\ o \in Shared => dirOwner = NONE
    /\ \E r \in pUsageFree :
         /\ pUsageFree' = pUsageFree \ {r}
         /\ Insert(s, o, r)
    /\ UNCHANGED <<session, usageMem, dirOwner, thrVars>>

(* SUPR0ObjRegister with an empty free list: the spinlock is released to   *)
(* allocate a record, the object is initialised but not linked.            *)
RegisterNoRecord(t, s, o) ==
    /\ CanCall(t, s)
    /\ mem[o] = "none"
    /\ pUsageFree = {}
    /\ IF o \in Shared THEN dirOwner = NONE /\ dirOwner' = t
                       ELSE UNCHANGED dirOwner
    /\ mem' = [mem EXCEPT ![o] = "init"]
    /\ Goto(t, "regAlloc", s, o)
    /\ UNCHANGED <<session, u32Magic, cUsage, pObjs, recVars, dir>>

UnlockDir(t) == dirOwner' = IF dirOwner = t THEN NONE ELSE dirOwner

RegisterInsert(t) ==
    /\ pc[t] = "regAlloc"
    /\ \E r \in Allocatable :
         /\ usageMem' = usageMem \cup {r}
         /\ Insert(ses[t], ob[t], r)
    /\ UnlockDir(t)
    /\ Return(t)
    /\ UNCHANGED <<session, pUsageFree>>

(* No memory for the record: the object is freed and NULL returned. *)
RegisterFail(t) ==
    /\ pc[t] = "regAlloc"
    /\ mem' = [mem EXCEPT ![ob[t]] = "none"]
    /\ UnlockDir(t)
    /\ Return(t)
    /\ UNCHANGED <<session, u32Magic, cUsage, pObjs, recVars, dir>>

-----------------------------------------------------------------------------
(* SUPR0ObjAddRef.  A component finds the object in its directory and      *)
(* calls with its mutex held, which is how it protects itself "against     *)
(* potential race with the destructor".                                    *)
AddRefLookup(t, s, o) ==
    /\ CanCall(t, s)
    /\ dirOwner = NONE
    /\ o \in dir
    /\ cUsage[o] < MaxUse
    /\ dirOwner' = t
    /\ Goto(t, "addRef", s, o)
    /\ UNCHANGED <<session, heapVars, recVars, dir>>

(* Wrong: without looking for the session's record first. *)
Reference_NoSearch(s, o, r) ==
    /\ cUsage' = [cUsage EXCEPT ![o] = @ + 1]
    /\ pUsage' = [pUsage EXCEPT ![s] = @ \cup {r}]
    /\ recObj' = [recObj EXCEPT ![r] = o]
    /\ recUse' = [recUse EXCEPT ![r] = 1]
    /\ pUsageFree' = pUsageFree \ {r}

(* Wrong: the spare record goes to the free list whether it is used or not. *)
Reference_AlwaysFree(s, o, r) ==
    /\ cUsage' = [cUsage EXCEPT ![o] = @ + 1]
    /\ pUsageFree' = pUsageFree \cup {r}
    /\ \/ \E e \in Records(s, o) :
            /\ recUse' = [recUse EXCEPT ![e] = @ + 1]
            /\ UNCHANGED <<pUsage, recObj>>
       \/ /\ Records(s, o) = {}
          /\ pUsage' = [pUsage EXCEPT ![s] = @ \cup {r}]
          /\ recObj' = [recObj EXCEPT ![r] = o]
          /\ recUse' = [recUse EXCEPT ![r] = 1]

(* The reference itself: count it, then either the session's record counts *)
(* it too and the spare record r goes to the free list, or r becomes the   *)
(* session's record.                                                       *)
Reference(s, o, r) ==
    /\ cUsage' = [cUsage EXCEPT ![o] = @ + 1]
    /\ \/ \E e \in Records(s, o) :
            /\ recUse'     = [recUse EXCEPT ![e] = @ + 1]
            /\ pUsageFree' = pUsageFree \cup {r}
            /\ UNCHANGED <<pUsage, recObj>>
       \/ /\ Records(s, o) = {}
          /\ pUsage'     = [pUsage EXCEPT ![s] = @ \cup {r}]
          /\ recObj'     = [recObj EXCEPT ![r] = o]
          /\ recUse'     = [recUse EXCEPT ![r] = 1]
          /\ pUsageFree' = pUsageFree \ {r}

(* First critical section, the object is already being destroyed. *)
AddRefDead(t) ==
    /\ pc[t] = "addRef"
    /\ ~IsAlive(ob[t])
    /\ UnlockDir(t)
    /\ Return(t)
    /\ UNCHANGED <<session, heapVars, recVars, dir>>

(* First critical section with a record on the free list. *)
AddRefReuse(t) ==
    /\ pc[t] = "addRef"
    /\ IsAlive(ob[t])
    /\ \E r \in pUsageFree : Reference(ses[t], ob[t], r)
    /\ UnlockDir(t)
    /\ Return(t)
    /\ UNCHANGED <<session, mem, u32Magic, pObjs, usageMem, dir>>

(* First critical section without one: the spinlock is dropped. *)
AddRefNoRecord(t) ==
    /\ pc[t] = "addRef"
    /\ IsAlive(ob[t])
    /\ pUsageFree = {}
    /\ pc' = [pc EXCEPT ![t] = "addAlloc"]
    /\ UNCHANGED <<session, heapVars, recVars, dirVars, ses, ob>>

AddRefNoMemory(t) ==
    /\ pc[t] = "addAlloc"
    /\ UnlockDir(t)
    /\ Return(t)
    /\ UNCHANGED <<session, heapVars, recVars, dir>>

(* Second critical section, with a newly allocated record. *)
AddRefAlloc(t) ==
    /\ pc[t] = "addAlloc"
    /\ IsAlive(ob[t])
    /\ \E r \in Allocatable :
         /\ usageMem' = usageMem \cup {r}
         /\ Reference(ses[t], ob[t], r)
    /\ UnlockDir(t)
    /\ Return(t)
    /\ UNCHANGED <<session, mem, u32Magic, pObjs, dir>>

(* Second critical section, the object died meanwhile: VERR_WRONG_ORDER.   *)
(* The code returns without putting the new record anywhere.               *)
AddRefDiedMeanwhile(t) ==
    /\ pc[t] = "addAlloc"
    /\ ~IsAlive(ob[t])
    /\ \E r \in Allocatable : usageMem' = usageMem \cup {r}
    /\ UnlockDir(t)
    /\ Return(t)
    /\ UNCHANGED <<session, heapVars, pUsage, pUsageFree, recObj, recUse, dir>>

(* SUPR0ObjAddRefEx with fNoBlocking: only for an object the session       *)
(* already references (supdrvSessionObjHandleRetain), so the session's     *)
(* record is there; a spare record is taken and put straight back.         *)
AddRefNoBlocking(t, s, o) ==
    /\ CanCall(t, s)
    /\ IsAlive(o)
    /\ cUsage[o] < MaxUse
    /\ \E e \in Records(s, o) : recUse' = [recUse EXCEPT ![e] = @ + 1]
    /\ cUsage' = [cUsage EXCEPT ![o] = @ + 1]
    /\ UNCHANGED <<session, mem, u32Magic, pObjs, pUsage, pUsageFree, usageMem,
                   recObj, dirVars, thrVars>>

-----------------------------------------------------------------------------
(* SUPR0ObjRelease: one critical section with three outcomes. *)

CanRelease(t, s, o) ==
    /\ CanCall(t, s)
    /\ IsAlive(o)

(* The session keeps other references. *)
ReleaseOne(t, s, o) ==
    /\ CanRelease(t, s, o)
    /\ \E r \in Records(s, o) :
         /\ HasMore(r)
         /\ recUse' = [recUse EXCEPT ![r] = @ - 1]
    /\ DropUses(o, 1)
    /\ UNCHANGED <<session, mem, u32Magic, pObjs, pUsage, pUsageFree, usageMem,
                   recObj, dirVars, thrVars>>

(* The session's last reference: its record goes to the free list. *)
DropRecord(s, r) ==
    /\ pUsage'     = [pUsage EXCEPT ![s] = @ \ {r}]
    /\ pUsageFree' = pUsageFree \cup {r}
    /\ UNCHANGED <<usageMem, recObj, recUse>>

ReleaseRecord(t, s, o) ==
    /\ CanRelease(t, s, o)
    /\ \E r \in Records(s, o) : ~HasMore(r) /\ DropRecord(s, r)
    /\ ~AreLast(o, 1)
    /\ DropUses(o, 1)
    /\ UNCHANGED <<session, mem, u32Magic, pObjs, dirVars, thrVars>>

(* Wrong: the object is freed without running its destructor. *)
ReleaseLast_NoDestructor(t, s, o) ==
    /\ CanRelease(t, s, o)
    /\ \E r \in Records(s, o) : ~HasMore(r) /\ DropRecord(s, r)
    /\ AreLast(o, 1)
    /\ u32Magic' = [u32Magic EXCEPT ![o] = DEAD]
    /\ Unlink(o)
    /\ Goto(t, "free", s, o)
    /\ UNCHANGED <<session, mem, cUsage, dirVars>>

(* The last reference of all: mark the object dead, unlink it, and go on   *)
(* to the destructor without the spinlock.                                 *)
ReleaseLast(t, s, o) ==
    /\ CanRelease(t, s, o)
    /\ \E r \in Records(s, o) : ~HasMore(r) /\ DropRecord(s, r)
    /\ AreLast(o, 1)
    /\ u32Magic' = [u32Magic EXCEPT ![o] = DEAD]
    /\ Unlink(o)
    /\ Goto(t, "dtor", s, o)
    /\ UNCHANGED <<session, mem, cUsage, dirVars>>

(* pfnDestructor: a published object is withdrawn under the mutex of its   *)
(* component, so the thread may have to wait for a lookup to finish.       *)
Withdraw(o) ==
    /\ o \in Shared => dirOwner = NONE
    /\ dir' = dir \ {o}

Destructor(t) ==
    /\ pc[t] = "dtor"
    /\ Withdraw(ob[t])
    /\ pc' = [pc EXCEPT ![t] = "free"]
    /\ UNCHANGED <<session, heapVars, recVars, dirOwner, ses, ob>>

FreeObject(t) ==
    /\ pc[t] = "free"
    /\ Free(ob[t])
    /\ Return(t)
    /\ UNCHANGED <<session, u32Magic, cUsage, pObjs, recVars, dirVars>>

-----------------------------------------------------------------------------
(* supdrvCloseSession: the last file handle is gone, so no other call of   *)
(* the session is in flight.                                               *)
CloseSession(t, s) ==
    /\ CanCall(t, s)
    /\ \A u \in Thread : ses[u] # s
    /\ ~AbruptClose => \A o \in Shared : Records(s, o) = {}
    /\ session' = [session EXCEPT ![s] = "closing"]
    /\ Goto(t, "cleanup", s, NONE)
    /\ UNCHANGED <<heapVars, recVars, dirVars>>

(* Wrong: the record stays at the head of the list. *)
TakeRecord_Stays(s, r) == UNCHANGED <<pUsage, usageMem, pUsageFree, recObj, recUse>>

(* supdrvCleanupSession takes a record off the session's list; its memory  *)
(* is freed, not kept for reuse.                                           *)
TakeRecord(s, r) ==
    /\ pUsage'   = [pUsage EXCEPT ![s] = @ \ {r}]
    /\ usageMem' = usageMem \ {r}
    /\ UNCHANGED <<pUsageFree, recObj, recUse>>

(* Others still use the object: take the session's references away. *)
CleanupDeref(t) ==
    /\ pc[t] = "cleanup"
    /\ \E r \in pUsage[ses[t]] :
         LET o == recObj[r] IN
           /\ ~AreLast(o, recUse[r])
           /\ DropUses(o, recUse[r])
           /\ TakeRecord(ses[t], r)
    /\ UNCHANGED <<session, mem, u32Magic, pObjs, dirVars, thrVars>>

(* The session holds the last references: the object is unlinked and       *)
(* destroyed, and its magic is left as it is.                              *)
CleanupUnlink(t) ==
    /\ pc[t] = "cleanup"
    /\ \E r \in pUsage[ses[t]] :
         LET o == recObj[r] IN
           /\ AreLast(o, recUse[r])
           /\ Unlink(o)
           /\ TakeRecord(ses[t], r)
           /\ Goto(t, "cleanDtor", ses[t], o)
    /\ UNCHANGED <<session, mem, u32Magic, cUsage, dirVars>>

CleanupDestructor(t) ==
    /\ pc[t] = "cleanDtor"
    /\ Withdraw(ob[t])
    /\ pc' = [pc EXCEPT ![t] = "cleanFree"]
    /\ UNCHANGED <<session, heapVars, recVars, dirOwner, ses, ob>>

CleanupFree(t) ==
    /\ pc[t] = "cleanFree"
    /\ Free(ob[t])
    /\ Goto(t, "cleanup", ses[t], NONE)
    /\ UNCHANGED <<session, u32Magic, cUsage, pObjs, recVars, dirVars>>

CleanupDone(t) ==
    /\ pc[t] = "cleanup"
    /\ pUsage[ses[t]] = {}
    /\ session' = [session EXCEPT ![ses[t]] = "closed"]
    /\ Return(t)
    /\ UNCHANGED <<heapVars, recVars, dirVars>>

-----------------------------------------------------------------------------
(* The calls a session may start, and the steps that carry one on. *)
Call(t, s, o) ==
    \/ RegisterReuse(t, s, o)
    \/ RegisterNoRecord(t, s, o)
    \/ AddRefLookup(t, s, o)
    \/ AddRefNoBlocking(t, s, o)
    \/ ReleaseOne(t, s, o)
    \/ ReleaseRecord(t, s, o)
    \/ ReleaseLast(t, s, o)

Continue(t) ==
    \/ RegisterInsert(t)
    \/ RegisterFail(t)
    \/ AddRefDead(t)
    \/ AddRefReuse(t)
    \/ AddRefNoRecord(t)
    \/ AddRefNoMemory(t)
    \/ AddRefAlloc(t)
    \/ AddRefDiedMeanwhile(t)
    \/ Destructor(t)
    \/ FreeObject(t)
    \/ CleanupDeref(t)
    \/ CleanupUnlink(t)
    \/ CleanupDestructor(t)
    \/ CleanupFree(t)
    \/ CleanupDone(t)

Next ==
    \/ \E s \in Session : CreateSession(s)
    \/ \E t \in Thread, s \in Session, o \in Obj : Call(t, s, o)
    \/ \E t \in Thread, s \in Session : CloseSession(t, s)
    \/ \E t \in Thread : Continue(t)

Spec == Init /\ [][Next]_vars

(* Every thread inside a call is scheduled again.  A destructor waits for  *)
(* the component's mutex, a fair one: Linux queues the waiters of a        *)
(* semaphore (RTSemFastMutexRequest is down()).                            *)
Fairness ==
    \A t \in Thread :
        /\ WF_vars(Continue(t))
        /\ SF_vars(Destructor(t) \/ CleanupDestructor(t))

FairSpec == Spec /\ Fairness

-----------------------------------------------------------------------------
(* Properties. *)

ListedRecords == UNION {pUsage[s] : s \in Session}

(* One element for each reference the sessions' records count for o. *)
References(o) ==
    UNION {{r} \X (1 .. recUse[r]) : r \in {q \in ListedRecords : recObj[q] = o}}

(* The global count of a linked object is the sum of the counts in the     *)
(* sessions' usage records: registering, referencing, releasing and        *)
(* cleaning up keep the two in step although a session can die with any    *)
(* number of references (the assertions "glob %d; sess %d").               *)
RefCountExact == \A o \in pObjs : cUsage[o] = Cardinality(References(o))

(* A session has at most one usage record per object, also when the spare  *)
(* record was taken or allocated before it was known that the session has  *)
(* one: a release finds only the first of two and would miscount.          *)
OneRecordPerObject ==
    \A s \in Session : \A r, q \in pUsage[s] : recObj[r] = recObj[q] => r = q

(* A usage record is on one list only and never on a list after it was     *)
(* freed: reuse through the free list (SUPR0ObjAddRefEx, SUPR0ObjRegister) *)
(* and the freeing of records by a closing session do not collide.         *)
RecordsOnOneList ==
    /\ ListedRecords \cup pUsageFree \subseteq usageMem
    /\ ListedRecords \cap pUsageFree = {}
    /\ \A s, q \in Session : s # q => pUsage[s] \cap pUsage[q] = {}

(* Whatever a session's record refers to is still linked, so it has not    *)
(* begun to be destroyed: an object dies with its last reference and no    *)
(* reference is made to a dying object ("Be ready for the destruction      *)
(* race", SUPR0ObjAddRefEx).                                               *)
NoDanglingRecord == \A r \in ListedRecords : recObj[r] \in pObjs

(* The object a SUPR0ObjAddRefEx in progress works on is not freed under   *)
(* it, also not while the call allocates memory without the spinlock.      *)
NoUseAfterFree ==
    \A t \in Thread : pc[t] \in {"addRef", "addAlloc"} => mem[ob[t]] = "alloc"

Destroying(t) == pc[t] \in {"dtor", "free", "cleanDtor", "cleanFree"}

(* At most one thread destroys an object, and only while it is allocated   *)
(* and unlinked: SUPR0ObjRelease and supdrvCleanupSession never both run   *)
(* the destructor, nor free the object twice.                              *)
DestroyedOnce ==
    \A t \in Thread : Destroying(t) =>
        /\ mem[ob[t]] = "alloc" /\ ob[t] \notin pObjs
        /\ \A u \in Thread : Destroying(u) /\ ob[u] = ob[t] => u = t

(* An object that was unlinked is freed in the end, even if its destructor *)
(* has to wait for lookups that keep taking the component's mutex.         *)
UnlinkedIsFreed ==
    \A o \in Obj : mem[o] = "alloc" /\ o \notin pObjs ~> mem[o] = "freed"

(* A session that is being closed gets rid of all its references. *)
CloseCompletes ==
    \A s \in Session : session[s] = "closing" ~> session[s] = "closed"

-----------------------------------------------------------------------------
(* The inductive invariant behind these properties, in named parts. *)

(* A listed record counts something, for an object that was registered. *)
RecordsCount ==
    \A r \in ListedRecords :
        /\ recUse[r] >= 1
        /\ recObj[r] \in Obj
        /\ mem[recObj[r]] \in {"alloc", "freed"}

(* What a suspended thread knows of its session and its object.  A thread  *)
(* that registers has an object nobody else works on.                      *)
ThreadsKnow ==
    \A t \in Thread :
        /\ pc[t] # "idle" => ses[t] \in Session
        /\ pc[t] = "regAlloc" =>
             /\ ob[t] \in Obj /\ mem[ob[t]] = "init"
             /\ ob[t] \in Shared => dirOwner = t
             /\ \A u \in Thread : pc[u] = "regAlloc" /\ ob[u] = ob[t] => u = t
        /\ pc[t] \in {"addRef", "addAlloc"} => dirOwner = t /\ ob[t] \in dir
        /\ Destroying(t) => ob[t] \in Obj
        /\ pc[t] \in {"free", "cleanFree"} => ob[t] \notin dir

LinkedOrPublishedIsAllocated ==
    \A o \in Obj : o \in pObjs \cup dir => mem[o] = "alloc"

(* Counts are exact for linked objects; an object that was unlinked keeps  *)
(* a count that no release can bring down to the last reference again.     *)
CountsAgree ==
    \A o \in Obj :
        /\ IsFiniteSet(References(o))
        /\ o \in pObjs => cUsage[o] = Cardinality(References(o))
        /\ mem[o] \in {"alloc", "freed"} /\ o \notin pObjs =>
             cUsage[o] > Cardinality(References(o))

IndInv ==
    /\ TypeOK
    /\ RecordsOnOneList
    /\ OneRecordPerObject
    /\ RecordsCount
    /\ ThreadsKnow
    /\ LinkedOrPublishedIsAllocated
    /\ DestroyedOnce
    /\ CountsAgree

(* What holds in addition when shared references are released in time:     *)
(* a closing session has none,                                             *)
ClosingIsPrivate ==
    \A s \in Session : session[s] = "closing" =>
        \A r \in pUsage[s] : recObj[r] \notin Shared

(* a call in progress is one of an open session, and a closing one is      *)
(* cleaned up by one thread,                                               *)
CleaningUp(t) == pc[t] \in {"cleanup", "cleanDtor", "cleanFree"}

SessionsMatch ==
    \A t \in Thread :
        /\ pc[t] \in {"regAlloc", "addRef", "addAlloc"} => session[ses[t]] = "open"
        /\ CleaningUp(t) =>
             /\ session[ses[t]] = "closing"
             /\ \A u \in Thread : CleaningUp(u) /\ ses[u] = ses[t] => u = t

(* and a published object that looks alive is linked.                      *)
AliveIsLinked == \A o \in dir : IsAlive(o) => o \in pObjs

OrderlyInv ==
    /\ NoDanglingRecord
    /\ ClosingIsPrivate
    /\ SessionsMatch
    /\ AliveIsLinked

-----------------------------------------------------------------------------
(* What the registry promises, see ObjRegistry. *)

RegistryState ==
    [o \in Obj |-> IF mem[o] \in {"none", "init"} THEN "none"
                   ELSE IF o \in pObjs THEN "live" ELSE "dead"]

RegistryRefs ==
    [s \in Session |-> [o \in Obj |->
        IF Records(s, o) = {} THEN 0
        ELSE recUse[CHOOSE r \in Records(s, o) : TRUE]]]

Registry == INSTANCE ObjRegistry WITH state <- RegistryState,
                                      refs  <- RegistryRefs

(* The code implements the abstract registry: an object is live from its   *)
(* registration until the moment the last session reference is dropped.    *)
RegistrySpec == Registry!Spec
=============================================================================
