----------------------------- MODULE SUPDrvSem -----------------------------
(***************************************************************************)
(* The semaphores a session offers its process (src/vboxdrv/SUPDrvSem.c):  *)
(* a ring-0 event semaphore, wrapped in a session object, named by a       *)
(* handle.  The handle table and the object registry appear as what they   *)
(* promise (HandleMap and ObjRegistry, which HandleTable and SUPDrvObj     *)
(* implement), the semaphores as the code of                               *)
(* src/r0drv/linux/semevent-r0drv-linux.c and semeventmulti-r0drv-linux.c. *)
(*                                                                         *)
(* A call looks its handle up, which takes a reference under the table's   *)
(* lock, works on the semaphore and gives the reference back.              *)
(***************************************************************************)
EXTENDS Naturals, FiniteSets

CONSTANTS
    Thread,     \* threads of the process that owns the session
    Sem,        \* semaphores, and the session objects that wrap them
    Level2,     \* handles the table grows by
    Limit,      \* bound: handles the table can have
    NIL

ASSUME SemAssumption == Level2 \in Nat \ {0} /\ Limit \in Nat /\ NIL \notin Sem

Kind == {"EVENT", "EVENT_MULTI"}    \* SUPDRV_HANDLE_CTX_...

Sess == "session"

VARIABLES
    live, map, free, issued,    \* the session's handle table
    state, refs,                \* the registry
    kind,                       \* what a semaphore was created as
    fState,                     \* is it signalled?
    Queue,                       \* its queue of waiters
    mem,                        \* "none", "alloc" or "freed"
    pc, ob,                     \* where a thread is, and its semaphore
    owed,                       \* references it has to give back
    asleep,                     \* its task state is not TASK_RUNNING
    lTimeout,                   \* "forever", "some", or "none" left
    fInterruptible

tabVars  == <<live, map, free, issued>>
regVars  == <<state, refs>>
semVars  == <<kind, fState, Queue, mem>>
waitVars == <<asleep, lTimeout, fInterruptible>>
thrVars  == <<pc, ob, owed>>
vars == <<tabVars, regVars, semVars, waitVars, thrVars>>

Table    == INSTANCE HandleMap WITH Obj <- Sem, Ctx <- Kind
Registry == INSTANCE ObjRegistry WITH Session <- {Sess}, Obj <- Sem

Waiting == {"prepare", "check", "schedule", "woken", "finish"}
Inside  == Waiting \cup {"wait", "signal", "wake", "reset"}

TypeOK ==
    /\ live \in BOOLEAN
    /\ \A h \in DOMAIN map : map[h] \in Sem \X Kind
    /\ state \in [Sem -> {"none", "live", "dead"}]
    /\ refs \in [{Sess} -> [Sem -> Nat]]
    /\ kind \in [Sem -> Kind \cup {NIL}] /\ fState \in [Sem -> BOOLEAN]
    /\ Queue \in [Sem -> SUBSET Thread] /\ mem \in [Sem -> {"none", "alloc", "freed"}]
    /\ pc \in [Thread -> Inside \cup {"idle", "alloc", "release", "destroy"}]
    /\ ob \in [Thread -> Sem \cup {NIL}] /\ owed \in [Thread -> 0..2]
    /\ asleep \in [Thread -> BOOLEAN] /\ fInterruptible \in [Thread -> BOOLEAN]
    /\ lTimeout \in [Thread -> {"forever", "some", "none"}]

Init ==
    /\ live = TRUE /\ map = <<>> /\ free = <<>> /\ issued = 0
    /\ Registry!Init
    /\ kind = [s \in Sem |-> NIL]
    /\ fState = [s \in Sem |-> FALSE]
    /\ Queue = [s \in Sem |-> {}]
    /\ mem = [s \in Sem |-> "none"]
    /\ pc = [t \in Thread |-> "idle"]
    /\ ob = [t \in Thread |-> NIL]
    /\ owed = [t \in Thread |-> 0]
    /\ asleep = [t \in Thread |-> FALSE]
    /\ lTimeout = [t \in Thread |-> "none"]
    /\ fInterruptible = [t \in Thread |-> FALSE]

Goto(t, l) == pc' = [pc EXCEPT ![t] = l] /\ UNCHANGED <<ob, owed>>

Enter(t, l, s, n) ==
    /\ pc' = [pc EXCEPT ![t] = l]
    /\ ob' = [ob EXCEPT ![t] = s]
    /\ owed' = [owed EXCEPT ![t] = n]

-----------------------------------------------------------------------------
(* Creating: RTSemEventCreate and SUPR0ObjRegister; nobody else can see    *)
(* the object before the handle is allocated.                              *)

RTSemCreate(s, k) ==
    /\ mem[s] = "none"
    /\ mem' = [mem EXCEPT ![s] = "alloc"]
    /\ kind' = [kind EXCEPT ![s] = k]
    /\ UNCHANGED <<fState, Queue>>

RTSemEventCreate(s) == RTSemCreate(s, "EVENT")

RTSemEventMultiCreate(s) == RTSemCreate(s, "EVENT_MULTI")

SemCreate(t, s) ==
    /\ live /\ pc[t] = "idle"
    /\ Registry!Register(Sess, s)
    /\ Enter(t, "alloc", s, 1)
    /\ UNCHANGED <<tabVars, waitVars>>

SUPSemEventCreate(t, s) == RTSemEventCreate(s) /\ SemCreate(t, s)

SUPSemEventMultiCreate(t, s) == RTSemEventMultiCreate(s) /\ SemCreate(t, s)

(* The table takes over the creator's reference. *)
AllocHandle(t) ==
    /\ pc[t] = "alloc"
    /\ Table!Alloc(ob[t], kind[ob[t]])
    /\ Enter(t, "idle", NIL, 0)
    /\ UNCHANGED <<regVars, semVars, waitVars>>

(* RTHandleTableAllocWithCtx is out of memory or handles. *)
AllocHandleFails(t) ==
    /\ pc[t] = "alloc"
    /\ Goto(t, "release")
    /\ UNCHANGED <<tabVars, regVars, semVars, waitVars>>

-----------------------------------------------------------------------------
(* Handles: a thread may use any number as a handle, at any time.          *)

(* Mutant: a reference is given back that was not taken. *)
LookupNoRetain(t, h, k, l) ==
    /\ live /\ pc[t] = "idle"
    /\ h \in DOMAIN map /\ map[h][2] = k
    /\ Enter(t, l, map[h][1], 1)
    /\ UNCHANGED <<tabVars, regVars, semVars>>

(* RTHandleTableLookupWithCtx with supdrvSessionObjHandleRetain: the       *)
(* reference is taken inside the table's critical section.                 *)
Lookup(t, h, k, l) ==
    /\ live /\ pc[t] = "idle"
    /\ h \in DOMAIN map /\ map[h][2] = k
    /\ Registry!AddRef(Sess, map[h][1])
    /\ Enter(t, l, map[h][1], 1)
    /\ UNCHANGED <<tabVars, semVars>>

(* Mutant: only the reference of the table is given back. *)
CloseOnce(t, h, k) ==
    /\ pc[t] = "idle"
    /\ h \in DOMAIN map
    /\ Table!Free(h, k)
    /\ Registry!AddRef(Sess, map[h][1])
    /\ Enter(t, "release", map[h][1], 1)
    /\ UNCHANGED <<semVars, waitVars>>

(* RTHandleTableFreeWithCtx retains as well; the reference of the table is *)
(* the caller's from now on.                                               *)
Close(t, h, k) ==
    /\ pc[t] = "idle"
    /\ h \in DOMAIN map
    /\ Table!Free(h, k)
    /\ Registry!AddRef(Sess, map[h][1])
    /\ Enter(t, "release", map[h][1], 2)
    /\ UNCHANGED <<semVars, waitVars>>

SUPSemEventClose(t, h) == Close(t, h, "EVENT")

SUPSemEventMultiClose(t, h) == Close(t, h, "EVENT_MULTI")

SUPSemEventSignal(t, h) == Lookup(t, h, "EVENT", "signal") /\ UNCHANGED waitVars

SUPSemEventMultiSignal(t, h) ==
    Lookup(t, h, "EVENT_MULTI", "signal") /\ UNCHANGED waitVars

SUPSemEventMultiReset(t, h) ==
    Lookup(t, h, "EVENT_MULTI", "reset") /\ UNCHANGED waitVars

WaitFor(t, cMillies, intr) ==
    /\ lTimeout' = [lTimeout EXCEPT ![t] = cMillies]
    /\ fInterruptible' = [fInterruptible EXCEPT ![t] = intr]
    /\ UNCHANGED asleep

SUPSemEventWait(t, h, cMillies) ==
    Lookup(t, h, "EVENT", "wait") /\ WaitFor(t, cMillies, FALSE)

SUPSemEventWaitNoResume(t, h, cMillies) ==
    Lookup(t, h, "EVENT", "wait") /\ WaitFor(t, cMillies, TRUE)

SUPSemEventMultiWait(t, h, cMillies) ==
    Lookup(t, h, "EVENT_MULTI", "wait") /\ WaitFor(t, cMillies, FALSE)

SUPSemEventMultiWaitNoResume(t, h, cMillies) ==
    Lookup(t, h, "EVENT_MULTI", "wait") /\ WaitFor(t, cMillies, TRUE)

(* SUPR0ObjRelease; whoever gives up the last reference runs the           *)
(* destructor after the spinlock has been dropped.                         *)
Release(t) ==
    /\ pc[t] = "release"
    /\ Registry!Release(Sess, ob[t])
    /\ LET n == owed[t] - 1
           l == IF state'[ob[t]] = "dead" THEN "destroy"
                ELSE IF n > 0 THEN "release" ELSE "idle"
       IN  Enter(t, l, IF l = "idle" THEN NIL ELSE ob[t], n)
    /\ lTimeout' = [lTimeout EXCEPT ![t] = "none"]
    /\ fInterruptible' = [fInterruptible EXCEPT ![t] = FALSE]
    /\ UNCHANGED <<tabVars, semVars, asleep>>

(* The destructors of the objects: invalidated, reset, everybody woken and *)
(* freed.  Nobody else reaches it, so this is one step.                    *)
Destroy(t, k) ==
    /\ pc[t] = "destroy" /\ kind[ob[t]] = k
    /\ mem' = [mem EXCEPT ![ob[t]] = "freed"]
    /\ fState' = [fState EXCEPT ![ob[t]] = FALSE]
    /\ asleep' = [u \in Thread |-> asleep[u] /\ u \notin Queue[ob[t]]]
    /\ Queue' = [Queue EXCEPT ![ob[t]] = {}]
    /\ Enter(t, "idle", NIL, 0)
    /\ UNCHANGED <<tabVars, regVars, kind, lTimeout, fInterruptible>>

RTSemEventDestroy(t) == Destroy(t, "EVENT")

RTSemEventMultiDestroy(t) == Destroy(t, "EVENT_MULTI")

-----------------------------------------------------------------------------
(* The semaphores of Linux.                                                *)

(* ASMAtomicWriteU32(&fState, 1), then wake_up in a step of its own.       *)
SetSignalled(t, k) ==
    /\ pc[t] = "signal" /\ kind[ob[t]] = k
    /\ fState' = [fState EXCEPT ![ob[t]] = TRUE]
    /\ Goto(t, "wake")
    /\ UNCHANGED <<tabVars, regVars, kind, Queue, mem, waitVars>>

RTSemEventSignal(t) == SetSignalled(t, "EVENT")

RTSemEventMultiSignal(t) == SetSignalled(t, "EVENT_MULTI")

(* Mutant: the queue is left alone; somebody else may have emptied it. *)
WakeNobody(t) ==
    /\ pc[t] = "wake"
    /\ Goto(t, "release")
    /\ UNCHANGED <<tabVars, regVars, semVars, waitVars>>

(* wake_up and wake_up_all: the waiters are not exclusive, so both wake    *)
(* all of them and take them off the queue.                                *)
WakeUp(t) ==
    /\ pc[t] = "wake"
    /\ asleep' = [u \in Thread |-> asleep[u] /\ u \notin Queue[ob[t]]]
    /\ Queue' = [Queue EXCEPT ![ob[t]] = {}]
    /\ Goto(t, "release")
    /\ UNCHANGED <<tabVars, regVars, kind, fState, mem, lTimeout, fInterruptible>>

RTSemEventMultiReset(t) ==
    /\ pc[t] = "reset"
    /\ fState' = [fState EXCEPT ![ob[t]] = FALSE]
    /\ Goto(t, "release")
    /\ UNCHANGED <<tabVars, regVars, kind, Queue, mem, waitVars>>

(* An event is consumed by the waiter that finds it, a multi event is not. *)
Taken(s) == [fState EXCEPT ![s] = kind[s] = "EVENT_MULTI"]

(* RTSemEventWait, RTSemEventMultiWait: the way without waiting.           *)
Poll(t, k, intr) ==
    /\ pc[t] = "wait" /\ kind[ob[t]] = k /\ fInterruptible[t] = intr
    /\ IF fState[ob[t]]
       THEN fState' = Taken(ob[t]) /\ Goto(t, "release")
       ELSE UNCHANGED fState /\ Goto(t, "prepare")
    /\ UNCHANGED <<tabVars, regVars, kind, Queue, mem, waitVars>>

RTSemEventWait(t) == Poll(t, "EVENT", FALSE)

RTSemEventWaitNoResume(t) == Poll(t, "EVENT", TRUE)

RTSemEventMultiWait(t) == Poll(t, "EVENT_MULTI", FALSE)

RTSemEventMultiWaitNoResume(t) == Poll(t, "EVENT_MULTI", TRUE)

(* Mutant: the state is not looked at again once the thread is queued. *)
PrepareUnchecked(t) ==
    /\ pc[t] = "prepare"
    /\ Queue' = [Queue EXCEPT ![ob[t]] = @ \cup {t}]
    /\ asleep' = [asleep EXCEPT ![t] = TRUE]
    /\ Goto(t, "schedule")
    /\ UNCHANGED <<tabVars, regVars, kind, fState, mem, lTimeout, fInterruptible>>

(* prepare_to_wait: on the queue and not running, before the state is      *)
(* looked at.                                                              *)
PrepareToWait(t) ==
    /\ pc[t] = "prepare"
    /\ Queue' = [Queue EXCEPT ![ob[t]] = @ \cup {t}]
    /\ asleep' = [asleep EXCEPT ![t] = TRUE]
    /\ Goto(t, "check")
    /\ UNCHANGED <<tabVars, regVars, kind, fState, mem, lTimeout, fInterruptible>>

(* The condition is checked, and then signals of the process.              *)
Check(t, k) ==
    /\ pc[t] = "check" /\ kind[ob[t]] = k
    /\ IF fState[ob[t]]
       THEN fState' = Taken(ob[t]) /\ Goto(t, "finish")
       ELSE /\ UNCHANGED fState
            /\ \/ Goto(t, "schedule")
               \/ fInterruptible[t] /\ Goto(t, "finish")
    /\ UNCHANGED <<tabVars, regVars, kind, Queue, mem, waitVars>>

rtSemEventWait(t) == Check(t, "EVENT")

rtSemEventMultiWait(t) == Check(t, "EVENT_MULTI")

(* schedule_timeout returns when somebody woke the thread, when a signal   *)
(* came or when the time is over.                                          *)
Schedule(t) ==
    /\ pc[t] = "schedule"
    /\ \/ ~asleep[t] /\ UNCHANGED <<asleep, lTimeout>>
       \/ /\ fInterruptible[t]
          /\ asleep' = [asleep EXCEPT ![t] = FALSE] /\ UNCHANGED lTimeout
       \/ /\ lTimeout[t] # "forever"
          /\ asleep' = [asleep EXCEPT ![t] = FALSE]
          /\ lTimeout' = [lTimeout EXCEPT ![t] = "none"]
    /\ Goto(t, "woken")
    /\ UNCHANGED <<tabVars, regVars, semVars, fInterruptible>>

(* Destroyed or out of time: give up, without another look at the state.   *)
Woken(t) ==
    /\ pc[t] = "woken"
    /\ Goto(t, IF mem[ob[t]] # "alloc" \/ lTimeout[t] = "none"
               THEN "finish" ELSE "prepare")
    /\ UNCHANGED <<tabVars, regVars, semVars, waitVars>>

(* finish_wait: running again, and off the queue. *)
FinishWait(t) ==
    /\ pc[t] = "finish"
    /\ Queue' = [Queue EXCEPT ![ob[t]] = @ \ {t}]
    /\ asleep' = [asleep EXCEPT ![t] = FALSE]
    /\ Goto(t, "release")
    /\ UNCHANGED <<tabVars, regVars, kind, fState, mem, lTimeout, fInterruptible>>

-----------------------------------------------------------------------------
(* supdrvCleanupSession, when no thread can be in a call any more: the     *)
(* table is destroyed with supdrvSessionObjHandleDelete, then all objects  *)
(* the session still refers to.                                            *)
CleanupSession ==
    /\ \A t \in Thread : pc[t] = "idle"
    /\ Table!Destroy
    /\ refs' = [refs EXCEPT ![Sess] = [s \in Sem |-> 0]]
    /\ state' = [s \in Sem |-> IF state[s] = "live" THEN "dead" ELSE state[s]]
    /\ mem' = [s \in Sem |-> IF mem[s] = "alloc" THEN "freed" ELSE mem[s]]
    /\ fState' = [s \in Sem |-> FALSE]
    /\ UNCHANGED <<kind, Queue, thrVars, waitVars>>

(* What the process may ask for at any time. *)
Request(t) ==
    \/ \E s \in Sem : SUPSemEventCreate(t, s) \/ SUPSemEventMultiCreate(t, s)
    \/ \E h \in DOMAIN map :
          \/ SUPSemEventClose(t, h) \/ SUPSemEventMultiClose(t, h)
          \/ SUPSemEventSignal(t, h) \/ SUPSemEventMultiSignal(t, h)
          \/ SUPSemEventMultiReset(t, h)
          \/ \E ms \in {"forever", "some"} :
                \/ SUPSemEventWait(t, h, ms) \/ SUPSemEventWaitNoResume(t, h, ms)
                \/ SUPSemEventMultiWait(t, h, ms)
                \/ SUPSemEventMultiWaitNoResume(t, h, ms)

(* What the driver does to answer. *)
Step(t) ==
    \/ AllocHandle(t) \/ AllocHandleFails(t) \/ Release(t)
    \/ RTSemEventDestroy(t) \/ RTSemEventMultiDestroy(t)
    \/ RTSemEventSignal(t) \/ RTSemEventMultiSignal(t) \/ WakeUp(t)
    \/ RTSemEventMultiReset(t)
    \/ RTSemEventWait(t) \/ RTSemEventMultiWait(t)
    \/ RTSemEventWaitNoResume(t) \/ RTSemEventMultiWaitNoResume(t)
    \/ PrepareToWait(t)
    \/ rtSemEventWait(t) \/ rtSemEventMultiWait(t)
    \/ Schedule(t) \/ Woken(t) \/ FinishWait(t)

Next == (\E t \in Thread : Request(t) \/ Step(t)) \/ CleanupSession

(* A thread in a call is scheduled again unless it sleeps. *)
Fairness == \A t \in Thread : WF_vars(Step(t))

Spec == Init /\ [][Next]_vars /\ Fairness

-----------------------------------------------------------------------------
(* Every reference of the session to a semaphore object is accounted for:  *)
(* by a handle that names it, or by a call that will give it back.  Then   *)
(* SUPSemEventClose finds at least two, as it asserts, and none leaks.     *)
Handles(s) == {h \in DOMAIN map : map[h][1] = s}
Debts(s)   == {d \in Thread \X (1..2) : ob[d[1]] = s /\ d[2] <= owed[d[1]]}

RefsBalanced ==
    \A s \in Sem : refs[Sess][s] = Cardinality(Handles(s)) + Cardinality(Debts(s))

(* A semaphore is destroyed only when nobody waits on it, signals it or    *)
(* can still find it, whoever closed the handle meanwhile (RTSemEventWait  *)
(* and the others read it without any lock; RTSemEventDestroy asserts that *)
(* its queue is empty).                                                    *)
DestroyedUnused ==
    \A s \in Sem : state[s] = "dead" =>
        /\ Handles(s) = {} /\ Queue[s] = {}
        /\ \A t \in Thread : ob[t] = s => pc[t] = "destroy"

(* Nobody sleeps on a signalled semaphore without being woken: a signal    *)
(* that arrives between a waiter's look at the state and its sleep is not  *)
(* lost (prepare_to_wait comes before the check).                          *)
NoSleeperForgotten ==
    \A t \in Thread : pc[t] = "schedule" /\ asleep[t] /\ fState[ob[t]] =>
        \E u \in Thread : pc[u] = "wake" /\ ob[u] = ob[t]

(* A signal that meets waiters gets somewhere: a waiter takes it, or all   *)
(* of them leave, or it is reset, however often waiters time out or are    *)
(* interrupted.                                                            *)
SignalReachesWaiter ==
    \A s \in Sem :
        fState[s] /\ Queue[s] # {} ~> (~fState[s] \/ Queue[s] = {})
=============================================================================
