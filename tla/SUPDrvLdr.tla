----------------------------- MODULE SUPDrvLdr -----------------------------
(***************************************************************************)
(* The image loader of the support driver (src/vboxdrv/SUPDrv.c): opening, *)
(* loading and freeing ring-0 images, calling their VMMR0 entry points and *)
(* service handlers, and the image part of supdrvCleanupSession.           *)
(*                                                                         *)
(* An image counts its uses, and each session has a usage record per image *)
(* with its share.  The loader mutex is held over every operation on       *)
(* images, the module's init and term functions included, but not while    *)
(* other code of an image runs: entry points, service handlers and the     *)
(* destructors of session objects that live in it.                         *)
(*                                                                         *)
(* Session objects appear only with what ties them to images: the image    *)
(* their destructor is in and the sessions that reference them (SUPDrvObj  *)
(* has the rest).                                                          *)
(***************************************************************************)
EXTENDS Naturals, FiniteSets

CONSTANTS
    Session, Thread, Obj,
    Image,        \* an image name; loaded again after it was freed
    MaxUse,       \* bound: uses of one image at a time
    Orderly,      \* clients call only images they know to be loaded, free none
                  \* of them while one of their threads is inside, and give an
                  \* image's address as the handle of its VMMR0 entry points
    Kernel,       \* the sessions of ring-0 clients, which only look symbols up
    NONE

ASSUME LdrAssumption ==
    /\ MaxUse \in Nat \ {0}
    /\ Orderly \in BOOLEAN /\ Kernel \subseteq Session
    /\ NONE \notin Session \cup Thread \cup Obj \cup Image

VARIABLES
    open,       \* the sessions that exist
    mtxLdr,     \* the thread that holds the loader mutex
    uState,     \* pImage->uState, "none" when there is no such image
    cUsage,     \* pImage->cUsage
    pLdrUsage,  \* the usage record of a session for an image, 0 for none
    service,    \* the images with a pfnServiceReqHandler
    pvVMMR0,    \* the image that provides the VMMR0 entry points
    isHandle,   \*   and whether the address registered for it is its base
    known,      \* the images a session's process knows to be loaded
    dtor,       \* the image with the destructor of a linked object
    refs,       \* the sessions that reference an object
    pc, ses, im \* where a thread is, for which session, in which image

imgVars == <<uState, cUsage, pLdrUsage, service, pvVMMR0, isHandle, known>>
objVars == <<dtor, refs>>
thrVars == <<pc, ses, im>>
vars    == <<open, mtxLdr, imgVars, objVars, thrVars>>

PC == {"idle", "init", "vmmr0", "service", "dtor", "closeObjs", "closeDtor", "closeImages"}

TypeOK ==
    /\ open \in SUBSET Session
    /\ mtxLdr \in Thread \cup {NONE}
    /\ uState \in [Image -> {"none", "open", "load"}]
    /\ cUsage \in [Image -> Nat]
    /\ pLdrUsage \in [Session -> [Image -> Nat]]
    /\ service \in SUBSET Image
    /\ pvVMMR0 \in Image \cup {NONE} /\ isHandle \in BOOLEAN
    /\ known \in [Session -> SUBSET Image]
    /\ dtor \in [Obj -> Image \cup {NONE}]
    /\ refs \in [Obj -> SUBSET Session]
    /\ pc \in [Thread -> PC]
    /\ ses \in [Thread -> Session \cup {NONE}]
    /\ im \in [Thread -> Image \cup {NONE}]

Init ==
    /\ open = {} /\ mtxLdr = NONE
    /\ uState = [i \in Image |-> "none"]
    /\ cUsage = [i \in Image |-> 0]
    /\ pLdrUsage = [s \in Session |-> [i \in Image |-> 0]]
    /\ service = {} /\ pvVMMR0 = NONE /\ isHandle = TRUE
    /\ known = [s \in Session |-> {}]
    /\ dtor = [o \in Obj |-> NONE]
    /\ refs = [o \in Obj |-> {}]
    /\ pc = [t \in Thread |-> "idle"]
    /\ ses = [t \in Thread |-> NONE]
    /\ im = [t \in Thread |-> NONE]

-----------------------------------------------------------------------------
Goto(t, l, s, i) ==
    /\ pc'  = [pc  EXCEPT ![t] = l]
    /\ ses' = [ses EXCEPT ![t] = s]
    /\ im'  = [im  EXCEPT ![t] = i]

Return(t) == Goto(t, "idle", NONE, NONE)

CanCall(t, s) == pc[t] = "idle" /\ s \in open

(* The pcs of a thread that executes code of image im[t]. *)
InCode == {"vmmr0", "service", "dtor", "closeDtor"}

(* A thread of session s executes code of image i. *)
Inside(s, i) == \E t \in Thread : pc[t] \in InCode /\ ses[t] = s /\ im[t] = i

(* The session's process learns that i is loaded. *)
Learn(s, i) == known' = [known EXCEPT ![s] = @ \cup {i}]

(* Mutant: a new record starts with two uses. *)
AddUsageTwice(s, i) == pLdrUsage' = [pLdrUsage EXCEPT ![s][i] = IF @ = 0 THEN 2 ELSE @ + 1]

(* supdrvLdrAddUsage: the session's record counts one more use; without    *)
(* memory for a new record nothing changes.                                *)
AddUsage(s, i) == pLdrUsage' = [pLdrUsage EXCEPT ![s][i] = @ + 1]

NoUsageRecord(s, i) == pLdrUsage[s][i] = 0 /\ UNCHANGED pLdrUsage

-----------------------------------------------------------------------------
(* supdrvIOCtl_LdrOpen; the result of supdrvLdrAddUsage is ignored. *)
LdrOpen(t, s, i) ==
    /\ CanCall(t, s) /\ mtxLdr = NONE
    /\ cUsage[i] < MaxUse
    /\ cUsage' = [cUsage EXCEPT ![i] = @ + 1]
    /\ uState' = [uState EXCEPT ![i] = IF @ = "none" THEN "open" ELSE @]
    /\ AddUsage(s, i) \/ NoUsageRecord(s, i)
    /\ IF uState[i] = "load" THEN Learn(s, i) ELSE UNCHANGED known
    /\ UNCHANGED <<open, mtxLdr, service, pvVMMR0, isHandle, objVars, thrVars>>

(* supdrvLdrSetVMMR0EPs: what is set can only be set to the same again. *)
CanSetVMMR0EPs(i, base) == pvVMMR0 = NONE \/ (pvVMMR0 = i /\ isHandle = base)

(* supdrvIOCtl_LdrLoad up to the call of the module init function, for an  *)
(* image that provides nothing, the VMMR0 entry points or a service.  What *)
(* is given as pvVMMR0 need not be the image's base, only lie within it.   *)
(* Entry points that differ from those set fail like an allocation of the  *)
(* tables, and leave the image as it was.                                  *)
LdrLoad(t, s, i, ep, base) ==
    /\ CanCall(t, s) /\ mtxLdr = NONE
    /\ pLdrUsage[s][i] > 0 /\ uState[i] = "open"
    /\ Orderly => base
    /\ ep = "VMMR0" => CanSetVMMR0EPs(i, base)
    /\ mtxLdr' = t
    /\ uState' = [uState EXCEPT ![i] = "load"]
    /\ IF ep = "VMMR0" THEN pvVMMR0' = i /\ isHandle' = base
                       ELSE UNCHANGED <<pvVMMR0, isHandle>>
    /\ service' = IF ep = "SERVICE" THEN service \cup {i} ELSE service
    /\ Goto(t, "init", s, i)
    /\ UNCHANGED <<open, cUsage, pLdrUsage, known, objVars>>

(* VERR_ALREADY_LOADED: the process knows that somebody else loaded it. *)
LdrLoadAgain(t, s, i) ==
    /\ CanCall(t, s) /\ mtxLdr = NONE
    /\ pLdrUsage[s][i] > 0 /\ uState[i] = "load"
    /\ Learn(s, i)
    /\ UNCHANGED <<open, mtxLdr, uState, cUsage, pLdrUsage, service, pvVMMR0, isHandle, objVars, thrVars>>

(* What unsets the VMMR0 entry points of i compares with its base. *)
Provides(i) == pvVMMR0 = i /\ isHandle

UnsetVMMR0EPs(i) == pvVMMR0' = IF Provides(i) THEN NONE ELSE pvVMMR0

(* The init function succeeds, succeeds with a status other than           *)
(* VINF_SUCCESS, which loses the VMMR0 entry points of an image that stays *)
(* loaded, or fails and undoes the load.                                   *)
ModuleInit(t) ==
    /\ pc[t] = "init"
    /\ \/ /\ Learn(ses[t], im[t])
          /\ UNCHANGED pvVMMR0 \/ UnsetVMMR0EPs(im[t])
          /\ UNCHANGED <<uState, service>>
       \/ /\ uState' = [uState EXCEPT ![im[t]] = "open"]
          /\ service' = service \ {im[t]}
          /\ UnsetVMMR0EPs(im[t])
          /\ UNCHANGED known
    /\ mtxLdr' = NONE
    /\ Return(t)
    /\ UNCHANGED <<open, cUsage, pLdrUsage, isHandle, objVars>>

(* supdrvLdrFree: linked objects lose their destructor, the image goes. *)
FreeImage(i) ==
    /\ uState' = [uState EXCEPT ![i] = "none"]
    /\ cUsage' = [cUsage EXCEPT ![i] = 0]
    /\ service' = service \ {i}
    /\ UnsetVMMR0EPs(i)
    /\ dtor' = [o \in Obj |-> IF dtor[o] = i /\ refs[o] # {} THEN NONE ELSE dtor[o]]

(* Leave image i with n uses. *)
KeepImage(i, n) ==
    /\ cUsage' = [cUsage EXCEPT ![i] = n]
    /\ UNCHANGED <<uState, service, pvVMMR0, dtor>>

(* The session has no record for the image any more. *)
DropUsage(s, i) ==
    /\ pLdrUsage' = [pLdrUsage EXCEPT ![s][i] = 0]
    /\ known' = [known EXCEPT ![s] = @ \ {i}]

(* Mutant: objects matter to the last user only. *)
BlockingLast(s, i) == {o \in Obj : dtor[o] = i /\ refs[o] # {} /\ cUsage[i] <= 1}

(* The objects that keep session s from giving up image i: all linked ones *)
(* with a destructor in it when s is the last user, else those of s.       *)
Blocking(s, i) ==
    {o \in Obj : dtor[o] = i /\ refs[o] # {} /\ (cUsage[i] <= 1 \/ s \in refs[o])}

(* supdrvIOCtl_LdrFree. *)
LdrFree(t, s, i) ==
    /\ CanCall(t, s) /\ mtxLdr = NONE
    /\ pLdrUsage[s][i] > 0
    /\ Orderly => ~Inside(s, i)
    /\ IF cUsage[i] <= 1 \/ pLdrUsage[s][i] <= 1
       THEN /\ Blocking(s, i) = {}
            /\ DropUsage(s, i)
            /\ IF cUsage[i] <= 1 THEN FreeImage(i) ELSE KeepImage(i, cUsage[i] - 1)
       ELSE /\ pLdrUsage' = [pLdrUsage EXCEPT ![s][i] = @ - 1]
            /\ KeepImage(i, cUsage[i] - 1)
            /\ UNCHANGED known
    /\ UNCHANGED <<open, mtxLdr, isHandle, refs, thrVars>>

(* supdrvIDC_LdrGetSymbol with a symbol that is found. *)
IdcGetSymbol(t, s, i) ==
    /\ CanCall(t, s) /\ mtxLdr = NONE
    /\ s \in Kernel /\ uState[i] = "load" /\ pLdrUsage[s][i] < MaxUse
    /\ AddUsage(s, i)
    /\ Learn(s, i)
    /\ UNCHANGED <<open, mtxLdr, uState, cUsage, service, pvVMMR0, isHandle, objVars, thrVars>>

-----------------------------------------------------------------------------
(* Code of images runs without the loader mutex. *)

(* SUP_IOCTL_CALL_VMMR0 and supdrvIOCtlFast: enter what is registered. *)
CallVMMR0(t, s) ==
    /\ CanCall(t, s) /\ pvVMMR0 # NONE
    /\ Orderly => pvVMMR0 \in known[s]
    /\ Goto(t, "vmmr0", s, pvVMMR0)
    /\ UNCHANGED <<open, mtxLdr, imgVars, objVars>>

(* supdrvIOCtl_CallServiceModule: the handler is found under the mutex. *)
CallService(t, s, i) ==
    /\ CanCall(t, s) /\ mtxLdr = NONE
    /\ pLdrUsage[s][i] > 0 /\ i \in service
    /\ Orderly => i \in known[s]
    /\ Goto(t, "service", s, i)
    /\ UNCHANGED <<open, mtxLdr, imgVars, objVars>>

(* Code of an image registers or references an object of its own. *)
RegisterObj(t, o) ==
    /\ pc[t] \in {"vmmr0", "service"}
    /\ \/ dtor[o] = NONE /\ refs[o] = {}
       \/ dtor[o] = im[t] /\ refs[o] # {}
    /\ dtor' = [dtor EXCEPT ![o] = im[t]]
    /\ refs' = [refs EXCEPT ![o] = @ \cup {ses[t]}]
    /\ UNCHANGED <<open, mtxLdr, imgVars, thrVars>>

(* The entry point, handler or destructor returns. *)
ReturnFromCode(t) ==
    /\ pc[t] \in {"vmmr0", "service", "dtor"}
    /\ Return(t)
    /\ UNCHANGED <<open, mtxLdr, imgVars, objVars>>

(* SUPR0ObjRelease as far as images matter: with the last reference the    *)
(* object is unlinked, and the thread runs its destructor, if it still has *)
(* one, without any lock.                                                  *)
Unref(t, s, o, run, return) ==
    /\ s \in refs[o]
    /\ refs' = [refs EXCEPT ![o] = @ \ {s}]
    /\ IF refs[o] = {s} /\ dtor[o] # NONE
       THEN Goto(t, run, s, dtor[o]) /\ dtor' = [dtor EXCEPT ![o] = NONE]
       ELSE Goto(t, return, ses[t], im[t]) /\ UNCHANGED dtor
    /\ UNCHANGED <<open, mtxLdr, imgVars>>

ObjRelease(t, s, o) == CanCall(t, s) /\ Unref(t, s, o, "dtor", "idle")

-----------------------------------------------------------------------------
(* Sessions. *)

OpenSession(s) ==
    /\ s \notin open
    /\ \A t \in Thread : ses[t] # s
    /\ open' = open \cup {s}
    /\ UNCHANGED <<mtxLdr, imgVars, objVars, thrVars>>

(* supdrvCleanupSession, when no other call on the session is running. *)
CloseSession(t, s) ==
    /\ CanCall(t, s)
    /\ \A u \in Thread : ses[u] # s
    /\ open' = open \ {s}
    /\ Goto(t, "closeObjs", s, NONE)
    /\ UNCHANGED <<mtxLdr, imgVars, objVars>>

(* Objects first, ... *)
CloseObj(t, o) ==
    /\ pc[t] = "closeObjs"
    /\ Unref(t, ses[t], o, "closeDtor", "closeObjs")

CloseDtorReturns(t) ==
    /\ pc[t] = "closeDtor"
    /\ Goto(t, "closeObjs", ses[t], NONE)
    /\ UNCHANGED <<open, mtxLdr, imgVars, objVars>>

ObjsClosed(t) == \A o \in Obj : ses[t] \notin refs[o]

(* ... then, under the loader mutex, the images. *)
CloseImages(t) ==
    /\ pc[t] = "closeObjs" /\ mtxLdr = NONE
    /\ ObjsClosed(t)
    /\ mtxLdr' = t
    /\ Goto(t, "closeImages", ses[t], NONE)
    /\ UNCHANGED <<open, imgVars, objVars>>

(* Mutant: the session's uses are compared with the image's the wrong way. *)
IsLastOfMany(s, i) == cUsage[i] > pLdrUsage[s][i]

(* The session's record is the last use of the image. *)
IsLast(s, i) == ~(cUsage[i] > pLdrUsage[s][i])

CloseImage(t, i) ==
    /\ pc[t] = "closeImages" /\ pLdrUsage[ses[t]][i] > 0
    /\ DropUsage(ses[t], i)
    /\ IF IsLast(ses[t], i)
       THEN FreeImage(i)
       ELSE KeepImage(i, cUsage[i] - pLdrUsage[ses[t]][i])
    /\ UNCHANGED <<open, mtxLdr, isHandle, refs, thrVars>>

CloseDone(t) ==
    /\ pc[t] = "closeImages"
    /\ \A i \in Image : pLdrUsage[ses[t]][i] = 0
    /\ mtxLdr' = NONE
    /\ Return(t)
    /\ UNCHANGED <<open, imgVars, objVars>>

Next ==
    \E t \in Thread :
        \/ ModuleInit(t) \/ ReturnFromCode(t)
        \/ CloseDtorReturns(t) \/ CloseImages(t) \/ CloseDone(t)
        \/ \E i \in Image : CloseImage(t, i)
        \/ \E o \in Obj : RegisterObj(t, o) \/ CloseObj(t, o)
        \/ \E s \in Session : OpenSession(s) \/ CloseSession(t, s)
        \/ \E s \in Session \ Kernel :
            \/ CallVMMR0(t, s)
            \/ \E o \in Obj : ObjRelease(t, s, o)
            \/ \E i \in Image :
                \/ LdrOpen(t, s, i)
                \/ \E ep \in {"NOTHING", "VMMR0", "SERVICE"}, base \in BOOLEAN :
                      LdrLoad(t, s, i, ep, base)
                \/ LdrLoadAgain(t, s, i)
                \/ LdrFree(t, s, i)
                \/ CallService(t, s, i)

Spec == Init /\ [][Next]_vars

(* The same with ring-0 clients that look symbols up. *)
IdcNext == Next \/ \E t \in Thread, s \in Session, i \in Image : IdcGetSymbol(t, s, i)

IdcSpec == Init /\ [][IdcNext]_vars

-----------------------------------------------------------------------------
(* Properties. *)

(* The uses of all sessions. *)
Uses(i) == Cardinality(UNION {{s} \X (1 .. pLdrUsage[s][i]) : s \in Session})

(* An image counts at least the uses of all sessions, so that it is freed  *)
(* with the last of them at the earliest (pImage->cUsage against           *)
(* pUsage->cUsage, in LdrFree and in cleanup).                             *)
CountsEveryUse == \A i \in Image : cUsage[i] >= Uses(i)

(* A session's usage record refers to an image that exists. *)
UsedImageExists ==
    \A s \in Session, i \in Image : pLdrUsage[s][i] > 0 => uState[i] # "none"

(* Code of an image runs only while the image is loaded and initialised,   *)
(* although no call into an image holds a reference of its own.            *)
CodeIsLoaded ==
    \A t \in Thread : pc[t] \in InCode =>
        /\ uState[im[t]] = "load"
        /\ \A u \in Thread : ~(pc[u] = "init" /\ im[u] = im[t])

(* No object outlives the image with its destructor: supdrvLdrFree finds   *)
(* no object that it must leave dangling ("Shouldn't happen").             *)
NoDanglingObject == \A o \in Obj : refs[o] # {} => dtor[o] # NONE
=============================================================================
