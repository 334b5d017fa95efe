# Verification of the VirtualBox support driver

TLA+ models of the VirtualBox 4.0 Linux host kernel drivers: `vboxdrv` (the
support driver), `vboxnetflt` and `vboxnetadp` (host networking) and the part
of the ring-0 runtime (`r0drv`, `common`) they are built on. TLC checks the
models on small instances; TLAPS proves what matters most for every instance.
File names below are relative to `src/`; bare line numbers are lines of
`vboxdrv/SUPDrv.c`.

## 1. The system and its components

A user process opens `/dev/vboxdrv` and gets a *session*. Kernel components
(VMMR0, the internal network, the network filter) get kernel sessions through
the IDC interface. All sessions share one *device extension*
(`SUPDRVDEVEXT`) with a spinlock, a loader mutex, a GIP mutex and a component
mutex. Whatever a session acquires is recorded in the session, so that
`supdrvCleanupSession` (684-883) can take it back when the last user of the
file has gone, in whatever state the process died. The cleanup order is:
handle table, objects, memory, factories, images, GIP mapping.

| component | state | operations | what is hard | what makes it correct |
|---|---|---|---|---|
| session objects (592-755, 1813-2178) | objects with a global count, usage records per session, a free list of records | register, add reference, release, cleanup | the spinlock is dropped to allocate a record and to run a destructor; lookup against destruction | exact counts, one record per session and object, one destruction, no record of a dead object |
| handle tables (`common/misc/handletable*.c`) | two-level table, FIFO list of free entries | create, allocate, free, look up, destroy | growing drops the spinlock twice, and other threads grow the table meanwhile | handles name what they were allocated for; the free list stays whole; no table is lost |
| session semaphores (`vboxdrv/SUPDrvSem.c`) | handles for session objects that wrap ring-0 semaphores | create, close, signal, wait, reset | closing while others wait or signal | two references per open handle call, the semaphore outlives its waiters |
| session memory (757-806, 2190-2850, 3480-3596) | bundles of 64 memory entries per session | lock, contiguous, low, page and pool allocation; map, protect, free | bundles grow without the lock; objects are used after the lock was dropped; rollback of partial failures | every memory object has one owner and none survives the session |
| image loader (3610-4482) | images with a count and a state, usage records per session, VMMR0 and service entry points | open, load, look up, free, call | calls into images hold no reference; destructors live in images | no record, entry point, running code or object of a freed image |
| component factories (3276-3468) | list of factories with their session | register, query, deregister | query against deregistration | a factory found is one still registered |
| global info page (3041-3243, 4624-5321) | page with a transaction id per CPU, user count, timer | map, unmap, timer tick, CPU events | ring-3 readers without lock; starting and stopping with the user count | a transaction id is odd exactly during an update, so that readers see consistent data |
| dispatch (930-1800, `vboxdrv/linux/SUPDrv-linux.c`) | cookies, versions | ioctl, IDC, open, close | order of calls | nothing is served before the cookie was checked |
| network filter (`vboxnetflt`) | trunk instances with reference and busy counts, connection and trunk states | create, connect, disconnect, packet handlers, device notifications, unload | disconnect waits for busy calls; rediscovery; unload against a new connection | no packet reaches a disconnected port; an instance lives while referenced |
| network adapter (`vboxnetadp`) | adapter slots with states | create, destroy, name look up | slots in transition | one adapter per slot and name |
| ring-0 timers, semaphores, notifications, memory objects (`r0drv`) | see the files | start, stop, destroy; wait, signal; register, notify | callbacks against stop and destroy | a callback on its own CPU only; what a stop leaves behind dies out; no lost wake-up |
| library (`common`, `generic`, `math`) | heap, log, strings, checksums | sequential | boundaries | blocks tile the heap; parsers agree with their definition |

Interaction: the semaphores put session objects into the handle table, whose
retain callback takes object references; images contain the destructors of
session objects, so objects are cleaned up before images; the network filter
is a component factory and a client of the IDC interface; the page's updates
are driven by ring-0 timers and CPU notifications.

`PROJECT.json` lists for each component what is modelled, and the hazards at
their lines.

## 2. Conventions

One critical section of a lock is one action, because nobody else sees the
state it protects in between; where the code drops the lock, the action ends
and `pc[t]` says where the thread is. A call that fails without changing
anything is not an action of its own. Allocation failures and refusals are
alternatives of the action that meets them. Properties come last in a module.
Operators whose comment says "Mutant", "Wrong form" or names a slip are
variants of the operator that follows, used by no action: each shows that a
property notices that slip. `MC` modules hold only symmetry sets.

## 3. Modelled components

A run's bounds are the constants of its `.cfg`.

### 3.1 Session objects: `SUPDrvObj`, `ObjRegistry`

`SUPDrvObj` has the object heap (`mem`, `u32Magic`, `cUsage`), the list
`pObjs`, the usage records (`pUsage` per session, `pUsageFree`, `usageMem`,
`recObj`, `recUse`) and the threads. `Register...` is SUPR0ObjRegister,
`AddRef...` SUPR0ObjAddRefEx with its two spare-record paths (`addRef`: about
to take the lock; `addAlloc`: allocating without it), `Release` SUPR0ObjRelease
with the destructor (`dtor`) and the freeing (`free`) outside the lock, and
`Cleanup...` the object loop of supdrvCleanupSession. A component outside this
repository that publishes objects is modelled by the contract in the comment
at 1935: a directory `dir` under a mutex of its own, which the destructor takes
and which a lookup holds while it calls SUPR0ObjAddRefEx.

`ObjRegistry` is the promise: objects are `live` while any session has a
counted reference and `dead` afterwards for good. `RegistrySpec` is the
refinement: `state` is derived from `mem` and `pObjs`, `refs` from the usage
records.

The constant `AbruptClose` says whether a process may die with references to a
*published* object. With it the code breaks its own rule (finding
`obj_abrupt`), so what depends on that rule is checked with
`AbruptClose = FALSE`, and everything else with `TRUE`.

| run | shows |
|---|---|
| `obj_cleanup` | abrupt closes: counts exact, one record per object, records on one list, no use after free in a lookup |
| `obj_registry` | orderly closes: no record of a dead object, one destruction per object, refinement of `ObjRegistry`; an unlinked object is freed although lookups keep taking the mutex, and closing completes |
| `obj_abrupt` | finding: cleanup destroys an object without marking it dead, and a waiting lookup references it |

Bounds: two sessions, two or three threads, one shared and one private object,
three records, at most `MaxUse` references per object. Every race in the code
is between one thread in each of two unlocked regions; the third thread lets a
further call come between them. Three records are enough for two sessions to
have one of the same object and one to be spare. `obj_registry` has
orderly closes: cleanup destroys private objects there, so
a release and a cleanup of one object do not meet (the theorem
`DestructionIsExclusive` covers that), nor does a closing session wait for the
component's mutex. Not in the model is that a freed object's address is given
out again: a lookup that names it, or a dangling record, finds the freed object
and not a new one. Fairness: a thread in a call
is scheduled again (weak), and a destructor waiting for the component's mutex
gets it in the end (strong), as Linux queues the waiters of a semaphore.

### 3.2 Handle tables: `HandleTable`, `HandleMap`

`tab` is the table with its first level (`papvLevel1`, `cLevel1`), its entries
and the free list threaded through `iNext`. `AllocTake`, `AllocFull`,
`AllocExpand`, `AllocMemory`, `InstallLevel1`, `InsertLevel2` and `LoseLevel2`
are the critical sections of RTHandleTableAllocWithCtx and what lies between
them; `heapLevel1` and `heapLevel2` count allocated tables. `Free` is
RTHandleTableFreeWithCtx, `Destroy` RTHandleTableDestroy with the set of
indexes its walk hands to the delete callback. `HandleMap` is the promise: a
map from handles to objects with freed handles reused in FIFO order;
`ImplementsMap` is the refinement (`free` is the list read along `iNext`).

| run | shows |
|---|---|
| `handle_table` | three threads growing both levels at once: free list whole, counters and levels agree, no table lost or freed twice, an allocation is refused only when the table is full, destroying deletes every handle, refinement of `HandleMap`; an allocation returns although it may lose the race to grow |

Bounds: second-level tables of 2 entries instead of 2048, at most two of them,
and a first level that grows by one entry at a time, so that it grows twice;
the limit asked for (3) is not a multiple of the table size, so that the
rounding matters. Three threads: one wins the race for the first level,
another that for the second, the third loses both. Fairness: a thread in an
allocation keeps running.

### 3.3 Session memory: `SUPDrvMem`

One session: the memory bundles of different sessions share nothing but the
code. `bundles` is the list with `aMem` and `cUsed` per bundle, `mem` the
memory objects with their kernel address `pv`, their ring-3 mapping `va` and
the number of further kernel mappings. `LockMem`, `AllocMapped` (contiguous,
low and pool allocations, which are always mapped) and `PageAllocEx` create
the object; `AddToBundle`, `NoSlot`, `AddBundle`, `AddFails` are supdrvMemAdd
and its callers' rollback (`AddUndone`); `MemRelease`, `MemUnmap` and `MemFree`
are supdrvMemRelease up to the end of its critical section, and the unmapping
and the freeing after it; `PageMapKernel`/`MapKernel` and
`PageProtect`/`Protect` the halves before and after the lock is dropped.

Memory that was freed is allocated again at the same address, also while
another thread is between the two halves of mapping or protecting it. That
thread then works on the new object. If it maps one that is not tracked yet
and tracking it fails, the rollback cannot free it, because it has a mapping:
`lost` has these objects, which nobody frees any more.

| run | shows |
|---|---|
| `mem` | each memory object has one entry or one call that owns it, unless it was lost as above; bundles have the room they claim; an address names one allocation; the session leaves nothing else |

Bounds: two threads, bundles of 2 entries instead of 64, at most 3 bundles, 2
objects, 2 addresses: a full bundle, a bundle with a hole, two threads that
each link a bundle, and an address that is used again all occur. A bundle's
`cUsed` is not lowered when an entry is freed (3573; `SUPDRVBUNDLE` calls it
the number of entries used), so entries are used once; `RoomIsReal` holds all
the same.

### 3.4 Image loader: `SUPDrvLdr`

An image has a state (`none`, `open`, `load`), a count and the entry points it
registered; `pLdrUsage` is a session's usage record. `mtxLdr` is held over
whole operations, so `LdrOpen`, `LdrFree` and so on are one action; `LdrLoad`
and `ModuleInit` are two, because the module init function runs while other
threads may already call the VMMR0 entry points. `CallVMMR0` and `CallService`
enter an image without the mutex and without a reference. Session objects
appear with the image their destructor is in and the sessions that reference
them (the rest is `SUPDrvObj`); closing gives up objects first, running
destructors without a lock, then images.

What a process passes as the handle of the VMMR0 entry points has to lie in
the image (3729); it is later compared with the image's base (3922, 4342).
`isHandle` says whether it is the base, which `SUPDrvIOC.h:386` asks for. If it
is not, freeing the image leaves the entry points set.

`Orderly` is the environment assumption of the checked run: a process calls
only images it knows to be loaded, gives none up while one of its threads is
inside, and passes an image's base as its handle. The driver relies on it: it
takes no reference for a call, does not check that the caller uses the image,
and registers the entry points before the module's init function has run. So
`CodeIsLoaded` and `NoDanglingObject` say what orderly clients may rely on, not
that the driver protects itself from others; the counts (`CountsEveryUse`) do
not depend on it. `IdcSpec` adds the symbol lookups of kernel sessions.

| run | shows |
|---|---|
| `ldr` | an image counts at least the uses of all sessions ("at least", because a use without memory for its record is never given back: 3632); with orderly clients, code runs only in loaded and initialised images and no object loses its destructor |
| `ldr_idc` | finding: supdrvIDC_LdrGetSymbol counts a use in the session and not in the image |

Bounds: two sessions, two threads, two images (the VMMR0 entry points belong
to one of them), one object, three uses of an image at a time, so that a
session may have more than one use while another has one.

### 3.5 Session semaphores: `SUPDrvSem`

The composition of three components: the handle table appears as `HandleMap`,
the object registry as `ObjRegistry` (what `HandleTable` and `SUPDrvObj`
implement), and the ring-0 semaphores as the code of
`r0drv/linux/semevent-r0drv-linux.c` and `semeventmulti-r0drv-linux.c`. A call
looks its handle up, which takes a reference under the table's lock
(`Lookup...`), works on the semaphore without any lock, and gives the
reference back (`Release`). A wait is the kernel's protocol step by step:
`PrepareToWait` (on the queue, not running), `rtSemEventWait` (look at the
state), `Schedule` (return when woken, interrupted or out of time), `Woken`,
`FinishWait`. `RTSemEventSignal` sets the state, `WakeUp` wakes the queue in a
step of its own. The kernel's wait queue (`prepare_to_wait`, `wake_up`,
`finish_wait`) is external.

| run | shows |
|---|---|
| `sem` | every reference belongs to a handle or to a call that will give it back; a semaphore is destroyed only when nobody waits on it, signals it or can still find it; nobody sleeps on a signalled semaphore without being about to be woken; a signal wakes a waiter, unless the waiters leave or the semaphore is reset first |

Bounds: three threads (two waiters and a signaller, or any other mix) and one
semaphore of either kind under one handle; that is every pair of calls that
can meet on a semaphore, with one more to come between. Fairness: a thread
in a call takes its next step unless it sleeps (`WF_vars(Step(t))`, which is
not enabled while it does); the process need not ask for anything.

### 3.6 Timers and the global information page: `R0Timer`, `SUPDrvGip`

`R0Timer` is a timer on all CPUs (`r0drv/linux/timer-r0drv-linux.c`), as the
source builds it: with `struct timer_list`. (The build with hrtimers, which
would wait for callbacks, is disabled at line 49 of that file and is not
modelled.) Per CPU there is a sub-timer with `enmState`, a Linux timer that is
queued (`pending`) on a CPU (`home`) and a callback at `cb`. The owner's calls
(`rtTimerLnxStartAll`, `RTMpOnAll`, `rtTimerLnxStopAll` in `RTTimerStop`,
`StopAllMarks`, `StopAllCancels`, ...) end an action wherever the spinlock is
dropped or another CPU is called. Stopping a sub-timer waits for its callback
only if the timer is queued (315): a callback that is past its checks and has
not re-armed the timer goes on. Hotplug calls `rtTimerLinuxMpEvent_Offline` and
`_Online`: a CPU goes down and dies (`Dead`), or fails to (`DownFailed`), or
comes up (`Up`), at any moment of a start or a stop. Linux moves the timers of
a dead CPU to another one.

`SUPDrvGip` extends it with what the callback does: the transaction of
supdrvGipUpdate (`Begin`, the first and the last word of the record in
`supdrvGipDoUpdateCpu`, `End`), the users of the page under `mtxGip`
(`SUPR0GipMap`, `SUPR0GipUnmap`, which cleanup calls, too), the rounding of the
ids and `supdrvGipReInitCpu` when the page is resumed, the choice of the
master, and unloading (`supdrvGipTerm`, `supdrvGipDestroy`). If one CPU only is
online, the record of CPU 0 is re-initialised and no other (3146).

Abstractions. Of an id the residue modulo `Ids` is kept, which keeps its parity
and what rounding makes of it (0); as a residue cannot tell an id of 2 from
others, the first-user test for an id of 2 is a choice. Re-arming the timer and
opening the transaction are one step, as are closing it and the end of the
callback, because nothing else is read or written in between. A CPU's APIC id
is its number. Only the master's update is different in the code, in what it
writes to the page's header, which is left out.

| run | shows |
|---|---|
| `gip` | a callback runs on its own CPU only; a sub-timer marked `ACTIVE` does tick; a transaction id that fits its record keeps fitting, but for the one step of the finding below; while the page is used, a reader of a record whose id fits is safe; what a stop leaves behind dies out; every call returns |
| `gip_stop` | finding: RTTimerStop returns while a callback is on its way to the update, and rounding the ids up under it inverts their parity for good, against `sup.h:99` |

So what `sup.h` promises to readers does *not* hold of the driver as built, and
`gip` says how much of it does: the parity is lost in one place only
(`IdsKeepFitting`), and where it is not lost readers are safe
(`ReadersAreSafe`). Nor is a stopped timer quiet: its callbacks and queued
sub-timers go on for a while (`StopSettles`).

Bounds: two CPUs that come and go, two sessions, ids modulo 2 (`gip_stop`: one
session, ids modulo 8, to show the numbers). The page is suspended in
mid-update and resumed with any combination of callbacks still running.
Fairness: what is queued fires, and an interrupt handler and a hotplug thread
go on (weak), while CPUs need not come or go; the owner of `mtxGip` gets the
spinlock and finds CPUs that take interrupts, which are both there again and
again, eventually (strong). RTTimerDestroy waits neither for a callback nor for
an event; the model lets them go on and says nothing of what they then read.

### 3.7 Network filter: `VBoxNetFlt`

The instances (`ins`, a record with the fields of `VBOXNETFLTINS`), the
globals' list (`chain`) and counts, the support driver's side (the IDC session
and the registered factory), the kernel's (module state and references, the
host interface, `rtnl`) and, per actor, where it is. Actors are the internal
network (`Net`), the kernel's device thread, the CPU that receives, the thread
that unloads, and threads that send for virtual machines. The internal network
is outside this repository; it is modelled from `include/VBox/intnet.h`: it
serialises its calls on the trunk and waits for its own sends before it
releases. Everything under `hFastMtx`, `hSpinlock` or the component mutex
waits for nothing and is one action; `rtnl` is held across actions.
`vboxNetFltRelease` is two steps, the busy count with its event before the
reference, because a waiter runs in between. Creating may fail to register its
notifier, to find the interface or to get the module; `CheckRegistered` looks
at `fRegistered` and `TakeBackNotifier` takes the notifier back in a step of
its own, as the interface may come in between. Waiting for idle may time out
(`WaitTimesOut`), whereupon the internal network waits again (`WaitAgain`).

| run | shows |
|---|---|
| `netflt` | reference and busy counts are those of the calls in progress; after waiting for idle nobody is busy any more or will be; the list holds no freed instance and one per name; the IDC connection is closed only when nobody has a factory or an instance; waiting for idle ends |

Bounds: two instances of one name (one that is being destroyed and its
successor), one sending thread beside the internal network, the kernel and the
receive path. Only the internal network creates, and in effect only it reaches
the destruction, so that none happens while it searches the list. Idle means
that nobody is busy in the sense of the code, which the packet handler is not
when it hands a packet to the switch (section 5). Fairness: whoever is in a
call goes on, the internal network waits until the trunk is idle, and a wait
may have no timeout; what user, network and administrator ask for is free. Deadlock is not checked: nobody has to use the
filter, and a call into freed memory or an unloaded module is not followed
(see section 5 for where the code allows one).

### 3.8 Ring-0 notifications: `R0Notify`

`list` with the `key` and the `bmDone` mask of each record, the locals of the
events (`iDone`, `pCur`, the picked callback) and of the clients. An event is
`Begin` (takes a bit), `Enter` (clears it everywhere, walks to the first
callback), `Call` (without the lock) and `Reenter`, which goes on at its
cursor or, if the generation has changed, at the head. `Register`, `Insert`,
`Deregister`, `Free` are the critical sections of a client;
`NativeTerm`/`NotificationTerm` and `R0Init` belong to
`r0drv/initterm-r0drv.c`. `r0drv/powernotification-r0drv.c` has the same list
and the same walk for another kind of event, so `EveryoneOnce` holds of it,
too. But `NativeTerm`, which waits for the events in progress, is the native
notifier of CPU events only; rtR0PowerNotificationTerm has none (299), and who
calls it has to see to that. The spinlock part of `NothingDangles` is therefore
shown for CPU events. The history variables `owed` and `told` say whom an
event has still to tell and has told.

The generation counts modulo 2^32 and is only ever compared for equality with
what the walker has read, so the model keeps the answer (`changed`). "A
reasonable amount of concurrent events" (the comment in
rtMpNotificationDoCallbacks) means fewer events than bits: `Begin` requires
that nobody uses the bit it takes. `Serialised` says that clients do not
overlap calls for one key. Without it, registering a key twice frees the
record that is in the list.

| run | shows |
|---|---|
| `notify` | when an event is over, everybody registered throughout has been called, nobody twice; the list, a cursor that will be followed and the spinlock that will be taken are there |

Bounds: two overlapping events, one client changing a list of up to three
records under them, two bits. A finite number of keys and "nobody is told
twice" imply that every event ends, so no liveness is checked and the
specification states no fairness.

## 4. Proofs

Every theorem is about the specification that TLC checks, for all values of
its constants that its named assumption allows: any sets of sessions, threads,
objects, records, images, entries, and any bounds.

| module | theorem | statement |
|---|---|---|
| `SUPDrvObj_proofs` | `InductiveInvariant`, `TypeCorrect` | `Spec => []IndInv`, `Spec => []TypeOK` |
| | `CountsAreExact` | `Spec => []RefCountExact` |
| | `RecordsAreUnique` | `Spec => []OneRecordPerObject` |
| | `ListsAreDisjoint` | `Spec => []RecordsOnOneList` |
| | `AddRefIsSafe` | `Spec => []NoUseAfterFree` |
| | `DestructionIsExclusive` | `Spec => []DestroyedOnce` |
| | `NothingDangles` | `AbruptClose = FALSE` implies `Spec => []NoDanglingRecord` |
| | `ImplementsRegistry` | `AbruptClose = FALSE` implies `Spec => RegistrySpec` |
| `HandleTable_proofs` | `InductiveInvariant`, `TypeCorrect` | `Spec => []IndInv`, `Spec => []TypeOK` |
| | `FreeListHolds` | `Spec => []FreeListSound` |
| | `TablesAlwaysAgree` | `Spec => []TablesAgree` |
| | `MemoryAccounted` | `Spec => []NoMemoryLost` |
| | `RefusalsAreFull` | `Spec => RefusedOnlyWhenFull` |
| | `DestroyIsComplete` | `Spec => DestroyDeletesAll` |
| | `ImplementsHandleMap` | `Spec => ImplementsMap` |
| `SUPDrvMem_proofs` | `TypeCorrect` | `Spec => []TypeOK` |
| | `OneOwnerAlways` | `Spec => []OneOwner` |
| | `RoomAlwaysReal` | `Spec => []RoomIsReal` |
| | `AddressAlwaysUnique` | `Spec => []AddressIsUnique` |
| | `NothingOutlivesSession` | `Spec => []SessionLeavesNothing` |
| `SUPDrvLdr_proofs` | `TypeCorrect` | `Spec => []TypeOK`, whatever clients do |
| | `CountsCoverUses` | `Spec => []CountsEveryUse`, whatever clients do |
| | `CodeStaysLoaded` | `Orderly` implies `Spec => []CodeIsLoaded` |
| | `NoObjectDangles` | `Orderly` implies `Spec => []NoDanglingObject` |
| `SUPDrvSem_proofs` | `NoWakeUpLost` | `Spec => []NoSleeperForgotten` |
| | `ReferencesBalance` | `Spec => []RefsBalanced` |
| | `DestroyedWhenUnused` | `Spec => []DestroyedUnused` |
| | `CallsFindTheirSemaphore` | `Spec => []SemaphoreIsThere` |
| | `TypeCorrect` | `Spec => []TypeOK` |
| `SUPDrvGip_proofs` | `CallbacksKeepToTheirCpu` | `Spec => []CallbackOnOwnCpu` |
| | `ActiveSubTimersTick` | `Spec => []ActiveTicks` |
| | `IdsStayFitting` | `Spec => IdsKeepFitting` |
| | `ReadersStaySafe` | `Spec => ReadersAreSafe` |
| | `MasterStaysOnline` | `Spec => []MasterIsOnline` |
| | `TypeCorrect` | `Spec => []TypeOK` |
| `VBoxNetFlt_proofs` | `InvariantHolds`, `CountsBalance` | `Spec => []Inv`, `Spec => []RefsBalanced` |
| | `IdleStaysIdle` | `Spec => []IdleIsIdle` |
| | `ListStaysSound` | `Spec => []ListIsSound` |
| | `ClosesWhenUnused` | `Spec => ClosedWhenUnused` |
| | `ModuleStaysLoaded` | `Spec => []ConnectedKeepsModule` |
| | `InstanceIsThere` | `Spec => []CallersHaveInstance` |
| `R0Notify_proofs` | `EventsTouchWhatIsThere` | `Serialised` implies `Spec => []NothingDangles` |
| | `EveryoneIsToldOnce` | `Serialised` implies `Spec => []EveryoneOnce` |
| | `TypeCorrect` | `Serialised` implies `Spec => []TypeOK` |

Each rests on an inductive invariant that was model-checked before it was
proved.

**Session objects.** That counts are exact for *linked* objects is not
inductive: a release decides from the count alone whether it was the last
(`cUsage <= n`). `IndInv` has to say two more things. The record part
(`RecordsOnOneList`, `OneRecordPerObject`, `RecordsCount`, `CountsAgree`) says
that each list holds disjoint allocated records, and that an object that was
unlinked keeps a count *greater* than the references its records add up to, so
that nobody can find itself the last user again. The thread part
(`ThreadsKnow`, `LinkedOrPublishedIsAllocated`, `DestroyedOnce`) says what a
suspended thread may rely on: a lookup holds the directory's mutex and its
object is published, hence not freed; a destroyer is alone. With `AbruptClose
= FALSE` `OrderlyInv` adds that a closing session has no records of shared
objects and that a published object whose magic is intact is linked; the two
give `NoDanglingRecord`. The first lemmas of the module are about counting:
`References(o)` is a set with one element per counted reference, and a record
added, changed or removed changes its cardinality by the difference of its
count. The refinement reads the registry's `refs` from the records; under the
invariant a session has one record per object at most, so that the mapping
picks it (`CountOfRecord`), and each step changes one entry of `refs` or none.

**Handle tables.** The free list is threaded through `iNext`, so that it is
sound is a statement about reachability and not inductive as such. `IndInv` names the list by
a witness: there is a sequence `f` that has each spare entry once, with its head
at `iFreeHead`, its end at `iFreeTail` and `iNext` leading from one to the next
(`FreeList`). What the operations do to the table is then what they do to `f`:
an allocation takes the head (`Took`), a free appends (`Returned`), growth appends
a second level table (`Extended`), also if entries were freed while the growing
thread had dropped the spinlock. The other parts of `IndInv` say that the entries
fill the first second level tables (`Sized`), that entries in use are below
`cCur` and counted (`Counted`), that every table of pointers belongs to the
handle table or to a thread that is growing it (`HeapExact`), and what such a
thread may rely on (`ThreadsSound`). `FreeListSound` and the refinement follow the
list with the recursive function `Chain`. Its equation is not available by
induction, but `f` extended by `NIL` is a function that satisfies it; so the
`CHOOSE` behind `Chain` does too, and a least position at which the two differ is
contradictory (`ChainIs`). Hence `FreeSeq = f`, and each step of the table is the
step of `HandleMap` on `f` or a stutter. `TableAssumption` asks for one entry per
second level table at least and a positive limit.

**Session memory.** `MemInv` says who owns an object: entries and calls
(`EntriesOwn`, `CallsOwn`) never share one, nothing is without an owner unless
it was lost (`NothingLost`), and what was lost is nobody's (`LostIsNobodys`): no
entry and no call comes to it again. Memory that is not allocated is as no
memory (`DeadIsNothing`), so a call that still holds its address cannot tell it
from what is allocated there next. `RoomIsReal` needs that `cUsed` counts at
least the entries in use (`UsedCounted`), because it is never lowered;
`AddressIsUnique` needs that an entry's flags match its object
(`EntriesMatch`) and that two objects are never mapped at one ring-3 address
(`AddressesDiffer`).

**Image loader.** `CountInv` counts: the set of pairs of a session and one of
its uses of an image is finite and no larger than the image's count
(`Counted`). It changes by one record at a time (`RecordChanges`), so that a
session that drops all its uses takes as many pairs away as it takes off the
count. `LdrInv` says, for orderly clients, that what a process knows to be
loaded is loaded, and that the process uses it or the image counts a use that
nobody will ever give back (`KnownIsLoaded`: supdrvLdrAddUsage may fail and is
ignored); so whoever frees an image is the only one who knows it
(`LastUser`). A call and an object's destructor are always in an image their
session knows (`InsideKnown`, `ObjsKnown`), and a closing session has no
objects left when it comes to its images (`ObjsGone`).

**Semaphores.** `SleepInv` adds to `NoSleeperForgotten` that a thread which is
marked asleep and has looked at the state, or is about to, is on the queue
(`SleepersQueue`); a signal sees the queue whole and is a waker until it has
woken it.

The counts need an invariant of their own, `RefInv`. The table's free list holds
issued handles that are not in use, each once (`TableHolds`), so an allocation
hands out a handle nobody has. Where a call stands says which reference it owes
(`Owes`): a lookup, a creation and a close each hold one until they release it.
Only waiters are queued, each on its own semaphore (`QueuesHold`), and an object
is live exactly while it has references (`RegistryHolds`). `Balanced` says that
an object's count is the number of its handles plus the number of its debts,
both finite. Every step moves a reference between a handle and a debt, or changes
the count and one of the sets alike; at zero there is neither a handle nor a
call left, which is what the destructor relies on.

`SemaphoreIsThere` says the same of the memory: no call works on a semaphore that
was freed. A call that is no destroyer owes a reference, so its semaphore is live
(`CallersLive`), and a live one has not been freed (`LivesHold`). Only the call
that gave back the last reference destroys, once (`DestroyersHold`).

**Timers and the page.** Nothing is assumed about what a stop waits for, as
`timer_list` gives no guarantee. `TimerInv` says of every CPU (`CpuHolds`) what
remains: a sub-timer marked `ACTIVE` is queued or in its callback, which is
`ActiveTicks`, and a running callback of pfnTimer is on its own CPU, which is
decided at its start and kept because a running callback pins its CPU. Every
step changes the sub-timer of one CPU (`CpuKeeps`) or the marks of all of them
(`AllKeeps`). `PageInv` ties the transactions to this: an update is in progress
exactly while pfnTimer runs (`UpdHolds`). An id that fits can then only cease to fit where it changes: at
the begin and the end of an update, which flip it together with the update
(`WrapFlips`: the ids wrap at an even number), and at the rounding, which makes
it even. That harms nobody unless an update of before the stop is not over,
which is the exception `IdsKeepFitting` names. `TimerAssumption` asks for a CPU
0, which supdrvGipInit makes the master, `GipAssumption` for an even `Ids`.

That the master is online (`MasterIsOnline`) concerns the order of the hotplug
events. `MasterHolds` says that a CPU which was announced to go down is not the
last one online, and that it is not the master any more once supdrvGipMpEvent has
seen it. It does not depend on the sub-timers.

**Notifications.** A cursor stays good because every change of the list marks
the walks that hold one (`WalkHolds`). The list stays good because a client is
alone with its key between the two sections of its call (`Apart`): what it is
about to insert is not there, and what it is about to free is in neither the
list nor another client's hands (`ClientHolds`). Both rest on `Serialised`;
without it TLC finds the freed record in the list.

That everyone is told once (`EveryoneOnce`) needs `TInv` beside it. Events
that overlap have bits of their own (`BitsDiffer`), so an event knows by its bit
alone whom it has visited. Who is owed a call has a record without the bit, or is
being called (`OwedHolds`); who was told has no such record, also not after it was
deregistered and registered again, because a new record has all bits set
(`ToldHolds`). What is still to be visited lies behind the cursor as long as the
cursor counts, and a walk that was marked begins anew (`SkipsNone`). A change of
the list keeps the order of the records that stay, so the places before and after
it correspond one to one.

**Network filter.** A release decides from the count whether it was the last, so
`RefsBalanced` needs to know what the others are doing. `Inv` says of every used
instance that it is new (and the internal network is creating it), plugged in,
or disconnected, and that a disconnected one has its trunk down and is not busy
(`StateHolds`); of the internal network what it has found out and not yet acted
upon (`Creating`, `FoundIdle`, `NetHolds`); of a destroyer that the count is zero
(`DestroyerHolds`); and of the counts that they are the numbers of calls inside
(`Balanced`). One lemma (`HoldersMove`) says how a set of calls changes when one
actor moves; a step that only counts then keeps everything if nobody enters an
instance that is down (`MoveKeeps`), and the few steps that create, connect,
disconnect or free one are proved singly. Nobody enters because the looks at the
trunk's state and the counts are taken under one lock. Needed of the constants:
a sending thread is none of the other actors (`VmAssumption`).

`ClosedWhenUnused` is a statement about the second look of
vboxNetFltTryDeleteIdc. `UseHolds` says what it relies on: the factory's count is
1 exactly while the internal network creates an instance or holds the factory
(`HasFactory`), every used instance is in the list, or about to be inserted by
the one who created it (`Listed`), one thread at most destroys an instance
(`DestroysAlone`), and the factory cannot be found from the second look on
(`ExitHolds`). An empty list and a zero count under one mutex then mean that
nothing is used, and nothing can be until the connection is closed.
`LoadedHolds` counts the module's references: one for each instance that was
connected and whose destroyer has not yet given it back. It proves
`ConnectedKeepsModule`, which also says what is *not* so: an instance whose
destroyer has given up the reference may outlive the module (section 5).

`CallersHaveInstance` is about use after free. A thread that sends works on the
instance that is plugged in (`SendHolds`), because the internal network unplugs it
only when no thread sends; and it never drops the last reference, since the trunk
keeps one. The internal network itself knows the instance it creates, waits for
or destroys (`NetHolds`). The kernel's notifier is not covered: it may be left
with an instance that creating has given up (section 5).

Every safety property and every refinement that a passing run checks is now a
theorem, with the assumption named in the table where there is one. Only
model-checked is liveness, which the prover cannot do (nor `ENABLED`):
`CloseCompletes`, `AllocReturns`, `CallsReturn`, `StopSettles`,
`SignalReachesWaiter`, `WaitEnds` and `UnlinkedIsFreed`; and the three disagreements of section 5,
which are counterexamples.

## 5. Findings

| run | source | |
|---|---|---|
| `obj_abrupt` | `vboxdrv/SUPDrv.c:727` | cleanup unlinks an object without `SUPDRVOBJ_MAGIC_DEAD` |
| `ldr_idc` | `vboxdrv/SUPDrv.c:4196` | symbol lookup adds no reference to the module |
| `gip_stop` | `r0drv/linux/timer-r0drv-linux.c:315` | stopping a `timer_list` timer does not wait for its callback |

Other places where the code does not keep what a model relies on. No run
states them; the model has the step, or an assumption that excludes it:

- `SUPDrv.c:1973`: a spare record allocated for an object that has died
  meanwhile is lost (`AddRefAlloc...` of `SUPDrvObj` has the branch).
- `SUPDrv.c:2719`: SUPR0PageMapKernel and SUPR0PageProtect use the memory
  object after the spinlock was dropped, when another thread may have freed it
  and its address may name another object. Only the magic number of the memory
  object stands in the way (section 3.3 has what follows).
- `SUPDrv.c:3729`: the handle of the VMMR0 entry points is only checked to lie
  in the image, but compared with the image's base when they are to be unset
  (3922, 4342). With any other address in the image they stay set when it is
  freed. `Orderly` excludes it.
- `SUPDrv.c:4459`: a service handler, like the entry points, is called without
  a reference to its image, by a session that need not use it. `Orderly`.
- `SUPDrv.c:2628`: SUPR0PageAllocEx reads page addresses from the ring-3
  mapping, which is not there if only a kernel mapping was asked for.
- `SUPDrv.c:3127`: SUPR0GipMap counts a session as a user even if it asks only
  for the physical address; cleanup looks at the mapping.
- `VBoxNetFlt-linux.c:768`: the packet handler calls `pfnRecv` without being
  busy or looking whether the trunk is active, against
  `include/VBox/intnet.h:433` and `:560`.
- `VBoxNetFlt-linux.c:1763`: when the interface comes between the look at
  `fRegistered` and unregister_netdevice_notifier, its packet handler stays
  with an instance that is freed.
- `VBoxNetFlt-linux.c:1772`: when try_module_get fails after the notifier has
  attached the interface, the instance is freed with its notifier and packet
  handler in place. The same file's attach may race
  vboxNetFltOsDeleteInstance.
- `VBoxNetFlt.c:728`: if the thread that owns `rtnl` drops the last reference
  it waits for itself in unregister_netdevice_notifier.
- The filter's module reference is given up in the instance's destruction,
  before that code has returned.
- `mpnotification-r0drv.c:218`: a duplicate registration frees the record in
  the list; a deregistered callback may still be about to start.
- `powernotification-r0drv.c:299`: the termination has no step that waits for
  events in progress.
- `SUPDrv.c:4745`: RTTimerDestroy waits for no callback, which may find the page
  gone.
- `initterm-r0drv.c`: a failing RTR0Init leaves `g_crtR0Users` raised (the
  callers then unload).

## 6. Not modelled

- Formatting, logging, assertions' messages; the unpacking and size checks of
  requests (`ioctl and IDC dispatch`); SUPR0ObjVerifyAccess, SUPR0MemGetPhys
  and SUP_IOCTL_LDR_GET_SYMBOL, which change no state.
- The addresses of freed session objects being given out again (`SUPDrvObj`).
- Page tables, kmalloc and vmalloc of the Linux kernel, and the tree of ring-0
  memory objects (`memobj-r0drv.c`): `SUPDrvMem` has an object with the
  mappings that hang off it.
- The network adapter (`vboxnetadp`): slots are claimed by an atomic compare
  and exchange, under one mutex on Linux.
- Of the filter: promiscuous mode, device references, packet contents and
  segmentation offload, the static configuration and the work queue build.
- Of the page: creation with its failures, TSC mode detection, the frequencies
  and the header that the master writes. Of the timers: the build with hrtimers
  (disabled in the source), one-shot timers, timers on one CPU,
  RTTimerChangeInterval.
- Mutexes and spinlocks: they are the mutual exclusion the models assume.
- The simple heap, strings, checksums, logger, error tables, uuid and math
  helpers: sequential library code without state that the drivers share.
- Public headers, which are most of the source's lines: declarations and inline
  assembly.

## 7. Plan

Done: `SUPDrvObj` with `ObjRegistry`, `HandleTable` with `HandleMap`,
`SUPDrvMem`, `SUPDrvLdr`, `SUPDrvSem` (which composes the two abstract
specifications with the ring-0 semaphores), `R0Timer` with `SUPDrvGip`,
`VBoxNetFlt` with the component factories, `R0Notify`; the proofs of section 4.

Left, in the order of what it would add:

1. Proofs: the type invariant of `VBoxNetFlt` (`Inv` has the instances and the
   trunk; what is missing are the counters of the module and the factory and
   the names of the program counters, which `TypeOK` only says are strings: the
   provers do not know that a string literal is in `STRING`).
2. The memory object tree, and the network adapter's slots.
3. The simple heap (blocks tile the heap) and `strtonum` (overflow at the
   boundary) as pure models.
