----------------------------- MODULE SUPDrvMem -----------------------------
(***************************************************************************)
(* The memory a session has locked or allocated (src/vboxdrv/SUPDrv.c):    *)
(* SUPR0LockMem, SUPR0ContAlloc, SUPR0LowAlloc, SUPR0MemAlloc,             *)
(* SUPR0PageAllocEx, their counterparts that free, SUPR0PageMapKernel,     *)
(* SUPR0PageProtect and the memory part of supdrvCleanupSession.           *)
(*                                                                         *)
(* Each allocation is a memory object with perhaps a ring-3 mapping; the   *)
(* session tracks it in an entry of a bundle, a fixed array, and further   *)
(* bundles are linked behind the first.  The session's spinlock guards the *)
(* bundles only: memory objects are created, mapped and freed without it.  *)
(* One critical section of that spinlock is one action.                    *)
(*                                                                         *)
(* The process is assumed not to unmap the driver's mappings by itself.    *)
(***************************************************************************)
EXTENDS Naturals, Sequences, FiniteSets

CONSTANTS
    Thread,       \* threads of the process that owns the session
    Mem,          \* memory objects, by the address of their ring-0 mapping
    Addr,         \* ring-3 addresses
    Entries,      \* RT_ELEMENTS(pBundle->aMem)
    MaxBundle,    \* bound: more bundles than this cannot be allocated
    MaxMap,       \* bound: kernel mappings of one object
    NIL           \* NIL_RTR0MEMOBJ, NIL_RTR3PTR, NULL

ASSUME MemAssumption ==
    /\ Entries \in Nat \ {0} /\ MaxBundle \in Nat \ {0} /\ MaxMap \in Nat
    /\ Mem \cap Addr = {} /\ NIL \notin Mem \cup Addr

VARIABLES
    open,      \* does the session exist?
    bundles,   \* pSession->Bundle and the bundles behind it
    mem,       \* the memory objects
    lost,      \* those that were to be freed and are not, as they were in use
    pc, ob     \* where a thread is and the object it works on

vars == <<open, bundles, mem, lost, pc, ob>>

Type == {"LOCKED", "CONT", "LOW", "MEM", "PAGE"}      \* SUPDRVMEMREFTYPE

(* An unused entry of aMem, and a bundle as RTMemAllocZ leaves it. *)
Unused      == [eType |-> "UNUSED", MemObj |-> NIL, MapObjR3 |-> FALSE]
EmptyBundle == [cUsed |-> 0, aMem |-> [i \in 1..Entries |-> Unused]]

(* A memory object: its type, its own address (ring-0, or ring-3 when it   *)
(* is locked user memory), the address of its ring-3 mapping, and how many *)
(* kernel mappings it has.                                                 *)
NoMem == [eType |-> "UNUSED", pv |-> NIL, va |-> NIL, maps |-> 0]

TypeOK ==
    /\ open \in BOOLEAN
    /\ bundles \in Seq([cUsed : 0..Entries,
                        aMem : [1..Entries -> [eType : Type \cup {"UNUSED"},
                                               MemObj : Mem \cup {NIL},
                                               MapObjR3 : BOOLEAN]]])
    /\ Len(bundles) \in 1..MaxBundle
    /\ mem \in [Mem -> [eType : Type \cup {"UNUSED"}, pv : Mem \cup Addr \cup {NIL},
                        va : Addr \cup {NIL}, maps : 0..MaxMap]]
    /\ lost \in SUBSET Mem
    /\ pc \in [Thread -> {"idle", "add", "bundle", "undo", "free", "object", "map", "protect"}]
    /\ ob \in [Thread -> Mem \cup {NIL}]

Init ==
    /\ open = FALSE
    /\ bundles = <<EmptyBundle>>
    /\ mem = [m \in Mem |-> NoMem] /\ lost = {}
    /\ pc = [t \in Thread |-> "idle"]
    /\ ob = [t \in Thread |-> NIL]

-----------------------------------------------------------------------------
CanCall(t) == open /\ pc[t] = "idle"

Goto(t, l, m) == pc' = [pc EXCEPT ![t] = l] /\ ob' = [ob EXCEPT ![t] = m]

Return(t) == Goto(t, "idle", NIL)

Alive(m) == mem[m].eType # "UNUSED"

(* Ring-3 addresses that a mapping of the driver occupies. *)
Occupied == {mem[m].va : m \in {n \in Mem : Alive(n) /\ mem[n].eType # "LOCKED"}}

(* Memory for a new object may be that of one just freed, which a call     *)
(* that found it before may still be about to map or to protect.           *)
Create(t, m, k, pv, va) ==
    /\ CanCall(t) /\ ~Alive(m)
    /\ mem' = [mem EXCEPT ![m] = [eType |-> k, pv |-> pv, va |-> va, maps |-> 0]]
    /\ Goto(t, "add", m)
    /\ UNCHANGED <<open, bundles, lost>>

(* SUPR0LockMem up to supdrvMemAdd: any user address, more than once too. *)
LockMem(t, m, p) == Create(t, m, "LOCKED", p, p)

(* The three that always have both mappings. *)
AllocMapped(t, m, k, p) == p \notin Occupied /\ Create(t, m, k, m, p)

(* SUPR0ContAlloc: contiguous pages below 4GB. *)
ContAlloc(t, m, p) == AllocMapped(t, m, "CONT", p)

(* SUPR0LowAlloc: pages below 4GB. *)
LowAlloc(t, m, p) == AllocMapped(t, m, "LOW", p)

(* SUPR0MemAlloc. *)
MemAlloc(t, m, p) == AllocMapped(t, m, "MEM", p)

(* SUPR0PageAllocEx: a ring-3 mapping, a ring-0 mapping or both. *)
PageAllocEx(t, m, r0, r3, p) ==
    /\ r0 \/ r3
    /\ r3 => p \notin Occupied
    /\ Create(t, m, "PAGE", IF r0 THEN m ELSE NIL, IF r3 THEN p ELSE NIL)

(* The entry that tracks object m. *)
EntryOf(m) ==
    [eType |-> mem[m].eType, MemObj |-> m,
     MapObjR3 |-> mem[m].eType # "LOCKED" /\ mem[m].va # NIL]

(* Tracked: the call tells its caller the addresses and the pages. *)
Success(t) == Return(t) /\ UNCHANGED <<open, mem, lost>>

-----------------------------------------------------------------------------
(* supdrvMemAdd. *)

Places == (DOMAIN bundles) \X (1..Entries)

Entry(s) == bundles[s[1]].aMem[s[2]]

FreeSlots(b) == {i \in 1..Entries : bundles[b].aMem[i].MemObj = NIL}

(* Room for one too many. *)
HasRoomForMore(b) == bundles[b].cUsed <= Entries

(* The room for one more is found by cUsed alone. *)
HasRoom(b) == bundles[b].cUsed < Entries

(* The first free entry of the first bundle that cUsed says has one. *)
Slot ==
    {s \in Places :
        /\ HasRoom(s[1]) /\ s[2] \in FreeSlots(s[1])
        /\ \A c \in 1..(s[1] - 1) : ~(HasRoom(c) /\ FreeSlots(c) # {})
        /\ \A j \in 1..(s[2] - 1) : j \notin FreeSlots(s[1])}

AddToBundle(t) ==
    /\ pc[t] = "add"
    /\ \E s \in Slot :
          bundles' = [bundles EXCEPT ![s[1]].cUsed = @ + 1,
                                     ![s[1]].aMem[s[2]] = EntryOf(ob[t])]
    /\ Success(t)

(* No bundle has room: allocate one with the spinlock dropped. *)
NoSlot(t) ==
    /\ pc[t] = "add" /\ Slot = {}
    /\ Goto(t, "bundle", ob[t])
    /\ UNCHANGED <<open, bundles, mem, lost>>

(* The entry a new bundle is born with is not counted. *)
AddBundleUncounted(t) ==
    /\ pc[t] = "bundle"
    /\ Len(bundles) < MaxBundle
    /\ LET new == [EmptyBundle EXCEPT !.aMem[Entries] = EntryOf(ob[t])]
       IN  bundles' = <<Head(bundles), new>> \o Tail(bundles)
    /\ Success(t)

(* The last entry of a new bundle, which goes behind the first bundle. *)
AddBundle(t) ==
    /\ pc[t] = "bundle"
    /\ Len(bundles) < MaxBundle
    /\ LET new == [EmptyBundle EXCEPT !.cUsed = 1, !.aMem[Entries] = EntryOf(ob[t])]
       IN  bundles' = <<Head(bundles), new>> \o Tail(bundles)
    /\ Success(t)

(* The caller forgets the object when no bundle can be had. *)
AddFailsLeaks(t) ==
    /\ pc[t] = "bundle"
    /\ Return(t)
    /\ UNCHANGED <<open, bundles, mem, lost>>

(* Frees the mapping MapObjR3, if the object of thread t has one. *)
Unmap(t) ==
    mem' = [mem EXCEPT ![ob[t]].va = IF mem[ob[t]].eType = "LOCKED" THEN @ ELSE NIL]

(* VERR_NO_MEMORY: the caller frees the mapping ... *)
AddFails(t) ==
    /\ pc[t] = "bundle"
    /\ Unmap(t)
    /\ Goto(t, "undo", ob[t])
    /\ UNCHANGED <<open, bundles, lost>>

(* ... and then the object, without its mappings: one that a call about    *)
(* its predecessor at this address has mapped is busy, and stays.          *)
AddUndone(t) ==
    /\ pc[t] = "undo"
    /\ IF mem[ob[t]].maps = 0
       THEN mem' = [mem EXCEPT ![ob[t]] = NoMem] /\ UNCHANGED lost
       ELSE lost' = lost \cup {ob[t]} /\ UNCHANGED mem
    /\ Return(t)
    /\ UNCHANGED <<open, bundles>>

-----------------------------------------------------------------------------
(* Searching the bundles for an address. *)

Before(r, s) == r[1] < s[1] \/ (r[1] = s[1] /\ r[2] < s[2])

(* The entry is of type k and has p as its own or its mapping's address. *)
Matches(e, p, k) ==
    /\ e.eType = k /\ e.MemObj # NIL
    /\ mem[e.MemObj].pv = p \/ (e.MapObjR3 /\ mem[e.MemObj].va = p)

(* The entry is not cleared when its object is freed. *)
MemReleaseKeeps(t, p, k) ==
    /\ CanCall(t)
    /\ \E s \in Places :
          /\ Matches(Entry(s), p, k)
          /\ \A r \in Places : Before(r, s) => ~Matches(Entry(r), p, k)
          /\ Goto(t, "free", Entry(s).MemObj)
    /\ UNCHANGED <<open, bundles, mem, lost>>

(* supdrvMemRelease: the first match is cleared, and freed outside the     *)
(* spinlock; cUsed stays as it is.                                         *)
MemRelease(t, p, k) ==
    /\ CanCall(t)
    /\ \E s \in Places :
          /\ Matches(Entry(s), p, k)
          /\ \A r \in Places : Before(r, s) => ~Matches(Entry(r), p, k)
          /\ bundles' = [bundles EXCEPT ![s[1]].aMem[s[2]] = Unused]
          /\ Goto(t, "free", Entry(s).MemObj)
    /\ UNCHANGED <<open, mem, lost>>

SUPR0UnlockMem(t, p) == MemRelease(t, p, "LOCKED")
SUPR0ContFree(t, p)  == MemRelease(t, p, "CONT")
SUPR0LowFree(t, p)   == MemRelease(t, p, "LOW")
SUPR0MemFree(t, p)   == MemRelease(t, p, "MEM")
SUPR0PageFree(t, p)  == MemRelease(t, p, "PAGE")

(* The ring-3 mapping is freed, ... *)
MemUnmap(t) ==
    /\ pc[t] = "free"
    /\ Unmap(t)
    /\ Goto(t, "object", ob[t])
    /\ UNCHANGED <<open, bundles, lost>>

(* ... and then the object with its kernel mappings. *)
MemFree(t) ==
    /\ pc[t] = "object"
    /\ mem' = [mem EXCEPT ![ob[t]] = NoMem]
    /\ Return(t)
    /\ UNCHANGED <<open, bundles, lost>>

(* Of the matching places the first one of the last bundle that has any:   *)
(* a match leaves the inner loop only.                                     *)
Find(t, l, matching) ==
    /\ CanCall(t)
    /\ \E s \in matching :
          /\ \A r \in matching : r[1] <= s[1] /\ (r[1] = s[1] => r[2] >= s[2])
          /\ Goto(t, l, Entry(s).MemObj)
    /\ UNCHANGED <<open, bundles, mem, lost>>

(* SUPR0PageMapKernel up to the end of the critical section. *)
PageMapKernel(t, p) ==
    LET match(e) == \/ e.eType = "PAGE" /\ e.MapObjR3 /\ mem[e.MemObj].va = p
                    \/ e.eType = "LOCKED" /\ mem[e.MemObj].va = p
    IN  Find(t, "map", {s \in Places : match(Entry(s))})

(* Map the object that was found, or whatever has its address by now:      *)
(* RTR0MemObjMapKernelEx refuses only an object without its magic.  It may *)
(* fail, too.                                                              *)
MapKernel(t) ==
    /\ pc[t] = "map"
    /\ \/ /\ Alive(ob[t]) /\ mem[ob[t]].maps < MaxMap
          /\ mem' = [mem EXCEPT ![ob[t]].maps = @ + 1]
       \/ UNCHANGED mem
    /\ Return(t)
    /\ UNCHANGED <<open, bundles, lost>>

(* SUPR0PageProtect up to the end of the critical section, for the ring-3  *)
(* address r3 and the ring-0 address r0; one of them may be NIL.           *)
PageProtect(t, r3, r0) ==
    LET match(e) == /\ e.eType = "PAGE"
                    /\ e.MapObjR3 \/ r3 = NIL
                    /\ r0 = NIL \/ mem[e.MemObj].pv = r0
                    /\ r3 = NIL \/ mem[e.MemObj].va = r3
    IN  (r3 # NIL \/ r0 # NIL) /\ Find(t, "protect", {s \in Places : match(Entry(s))})

(* Protect the object or the mapping that was found. *)
Protect(t) ==
    /\ pc[t] = "protect"
    /\ Return(t)
    /\ UNCHANGED <<open, bundles, mem, lost>>

-----------------------------------------------------------------------------
(* supdrvCreateSession and supdrvCleanupSession, as far as memory goes.    *)
(* The session is cleaned up when the last user of the file has left.      *)

OpenSession ==
    /\ ~open /\ open' = TRUE
    /\ bundles' = <<EmptyBundle>>
    /\ UNCHANGED <<mem, lost, pc, ob>>

(* The loop stops at cUsed. *)
ReleasedByCount == {Entry(s).MemObj : s \in {r \in Places : r[2] <= bundles[r[1]].cUsed}} \ {NIL}

(* The loop looks at every entry of a bundle, whatever cUsed says. *)
Released == {Entry(s).MemObj : s \in Places} \ {NIL}

CleanupSession ==
    /\ open /\ \A t \in Thread : pc[t] = "idle"
    /\ open' = FALSE
    /\ mem' = [m \in Mem |-> IF m \in Released THEN NoMem ELSE mem[m]]
    /\ bundles' = <<EmptyBundle>>
    /\ UNCHANGED <<lost, pc, ob>>

Next ==
    \/ OpenSession
    \/ CleanupSession
    \/ \E t \in Thread :
        \/ \E m \in Mem, p \in Addr :
            \/ LockMem(t, m, p)
            \/ ContAlloc(t, m, p) \/ LowAlloc(t, m, p) \/ MemAlloc(t, m, p)
            \/ \E r0, r3 \in BOOLEAN : PageAllocEx(t, m, r0, r3, p)
        \/ AddToBundle(t) \/ NoSlot(t) \/ AddBundle(t) \/ AddFails(t) \/ AddUndone(t)
        \/ \E p \in Addr : SUPR0UnlockMem(t, p) \/ SUPR0PageFree(t, p)
        \/ \E p \in Addr \cup Mem :
            SUPR0ContFree(t, p) \/ SUPR0LowFree(t, p) \/ SUPR0MemFree(t, p)
        \/ MemUnmap(t) \/ MemFree(t)
        \/ \E p \in Addr : PageMapKernel(t, p)
        \/ MapKernel(t)
        \/ \E r3 \in Addr \cup {NIL}, r0 \in Mem \cup {NIL} : PageProtect(t, r3, r0)
        \/ Protect(t)

Spec == Init /\ [][Next]_vars

-----------------------------------------------------------------------------
(* Properties. *)

Tracking(m) == {s \in Places : Entry(s).MemObj = m}

(* The calls that create object m or free it. *)
CallsOf(m) ==
    {t \in Thread : ob[t] = m /\ pc[t] \in {"add", "bundle", "undo", "free", "object"}}

(* A memory object belongs to exactly one entry, or to the one call that   *)
(* is creating or freeing it: it is neither lost nor freed twice, whatever *)
(* the threads of the process do and whichever allocation fails; but for   *)
(* an object that was mapped before it was tracked, and is lost.           *)
OneOwner ==
    \A m \in Mem :
        Cardinality(Tracking(m)) + Cardinality(CallsOf(m))
        = IF Alive(m) /\ m \notin lost THEN 1 ELSE 0

(* A bundle that cUsed says has room has a free entry (the assertion       *)
(* "this can't be happening" at SUPDrv.c:3504).                            *)
RoomIsReal == \A b \in DOMAIN bundles : HasRoom(b) => FreeSlots(b) # {}

(* A ring-3 address names one allocation of a type, so that a call that    *)
(* frees by address frees what the caller means, although addresses are    *)
(* reused as soon as a mapping is gone.                                    *)
AddressIsUnique ==
    \A r, s \in Places :
        r # s /\ Entry(r).MapObjR3 /\ Entry(s).MapObjR3
            => mem[Entry(r).MemObj].va # mem[Entry(s).MemObj].va

(* Nothing survives the session that was not lost before, not even kernel  *)
(* mappings.                                                               *)
SessionLeavesNothing == ~open => \A m \in Mem \ lost : mem[m] = NoMem
=============================================================================
