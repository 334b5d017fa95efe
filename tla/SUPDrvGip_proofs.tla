-------------------------- MODULE SUPDrvGip_proofs --------------------------
(***************************************************************************)
(* Proofs about the page and its timer as they are built, for any number   *)
(* of CPUs and sessions: callbacks keep to their CPU, a mark that says     *)
(* that a sub-timer ticks is true, a transaction id keeps fitting its      *)
(* record but for the one step that may turn it round, and a record whose  *)
(* id fits is safe to read.  And the page always has a master among the    *)
(* CPUs that are online.                                                   *)
(*                                                                         *)
(* No theorem assumes that a stop waits for callbacks: it does not.        *)
(***************************************************************************)
EXTENDS SUPDrvGip, FiniteSetTheorems, WellFoundedInduction, TLAPS

-----------------------------------------------------------------------------
(* The steps of the timer, by kind.                                        *)

CallbackSteps(c) ==
    Fire(c) \/ CallbackChecks(c) \/ CallbackQuits(c) \/ CallbackRearms(c) \/ CallbackReturns(c)

AllSteps ==
    \/ rtTimerLnxStartAll \/ RTMpOnAll \/ StartAllDone
    \/ RTTimerStop \/ StopAllMarks \/ RTTimerDestroy
    \/ RTTimerStart /\ UNCHANGED <<timerVars, cpuVars>>

(* Those that start or stop a sub-timer. *)
SubTimerSteps(c) ==
    \/ rtTimerLnxStartAllOnCpu(c) \/ StopAllCancels(c)
    \/ MpEventCancels(c) \/ rtTimerLinuxMpEvent_Online(c) \/ rtTimerLinuxMpStartOnCpu(c)

CpuSteps(c) ==
    rtTimerLinuxMpEvent_Offline(c) \/ DownFailed(c) \/ Dead(c) \/ Up(c)

TimerSteps ==
    AllSteps \/ \E c \in Cpu : CallbackSteps(c) \/ SubTimerSteps(c) \/ CpuSteps(c)

(* The steps of the page leave the timer alone, or are steps of it. *)
LEMMA StepsOfTimer ==
    ASSUME [Next]_vars
    PROVE  TimerSteps \/ UNCHANGED <<timerVars, opVars, cpuVars>>
  <1>. USE DEF TimerSteps, AllSteps, CallbackSteps, SubTimerSteps, CpuSteps
  <1>1. CASE UNCHANGED vars
    BY <1>1 DEF vars
  <1>2. ASSUME NEW c \in Cpu, Hardware(c) PROVE TimerSteps
    BY <1>2 DEF Hardware, TimerFires, Timer, MpEvent
  <1>3. ASSUME NEW c \in Cpu, Callback(c)
        PROVE  TimerSteps \/ UNCHANGED <<timerVars, opVars, cpuVars>>
    BY <1>3 DEF Callback, Timer, Begin, supdrvGipDoUpdateCpu, Update, End
  <1>4. ASSUME NEW c \in Cpu, Hotplug(c) PROVE TimerSteps
    BY <1>4 DEF Hotplug, HotplugStep, Timer, MpEvent
  <1>5. CASE SUPR0GipMap \/ SUPR0GipUnmap
    BY <1>5 DEF SUPR0GipMap, SUPR0GipUnmap
  <1>6. CASE Owner
    BY <1>6 DEF Owner, OpStep, Timer, supdrvGipReInitCpu
  <1>7. CASE supdrvGipTerm \/ supdrvGipDestroy
    BY <1>7 DEF supdrvGipTerm, supdrvGipDestroy
  <1>. QED BY <1>1, <1>2, <1>3, <1>4, <1>5, <1>6, <1>7 DEF Next

-----------------------------------------------------------------------------
(* The inductive invariant of the timer.                                   *)

CpuTypes ==
    /\ enmState \in [Cpu -> RTTIMERLNXSTATE]
    /\ pending \in [Cpu -> BOOLEAN] /\ home \in [Cpu -> Cpu]
    /\ cb \in [Cpu -> {"none", "check", "quit", "rearm", "user"}]

OpTypes ==
    /\ fSuspended \in BOOLEAN /\ todo \in SUBSET Cpu
    /\ op \in {"idle", "start", "call", "onall", "mark", "cancel", "freed"}

HpTypes ==
    /\ online \in SUBSET Cpu
    /\ hp \in {"idle", "cancel", "dying", "up", "ipi"} \X Cpu

LEMMA TimerTyped ==
    (TimerTypeOK <=> CpuTypes /\ OpTypes /\ HpTypes) /\ (TimerTypeOK' <=> CpuTypes' /\ OpTypes' /\ HpTypes')
  BY DEF TimerTypeOK, CpuTypes, OpTypes, HpTypes

(* The callback queues the next tick before it calls the user, and looks   *)
(* at its CPU before either.                                               *)
CpuHolds(c) ==
    /\ cb[c] = "user" => pending[c]
    /\ cb[c] \in {"rearm", "user"} => home[c] = c
    /\ enmState[c] = "ACTIVE" => pending[c] \/ cb[c] # "none"

TimerInv == CpuTypes /\ OpTypes /\ HpTypes /\ \A c \in Cpu : CpuHolds(c)

(* A step that is about the sub-timer of one CPU. *)
OnlyCpu(c) ==
    \A d \in Cpu : d # c => /\ pending'[d] = pending[d] /\ cb'[d] = cb[d]
                            /\ enmState'[d] = enmState[d] /\ home'[d] = home[d]

LEMMA OneCpuKeeps ==
    ASSUME TimerInv, NEW c \in Cpu, CpuTypes', OpTypes', HpTypes', OnlyCpu(c), CpuHolds(c)'
    PROVE  TimerInv'
  <1>1. ASSUME NEW d \in Cpu, d # c PROVE CpuHolds(d)'
    BY <1>1 DEF TimerInv, CpuHolds, OnlyCpu
  <1>. QED BY <1>1 DEF TimerInv

LEMMA CallbackKeeps ==
    ASSUME TimerInv, NEW c \in Cpu, CallbackSteps(c)
    PROVE  TimerInv'
  <1>1. UNCHANGED <<fSuspended, op, todo, online, hp>>
    BY DEF CallbackSteps, Fire, CallbackChecks, CallbackQuits, CallbackRearms, CallbackReturns, opVars, cpuVars
  <1>2. OpTypes' /\ HpTypes'
    BY <1>1 DEF TimerInv, OpTypes, HpTypes
  <1>. USE DEF TimerInv, CpuTypes, CpuHolds
  <1>3. CASE Fire(c)
    <2>1. CpuTypes' /\ OnlyCpu(c) /\ CpuHolds(c)'
      BY <1>3 DEF Fire, OnlyCpu
    <2>. QED BY <1>2, <2>1, OneCpuKeeps
  <1>4. CASE CallbackChecks(c)
    <2>1. CpuTypes' /\ OnlyCpu(c) /\ CpuHolds(c)'
      BY <1>4 DEF CallbackChecks, OnlyCpu
    <2>. QED BY <1>2, <2>1, OneCpuKeeps
  <1>5. CASE CallbackQuits(c)
    <2>1. CpuTypes' /\ OnlyCpu(c) /\ CpuHolds(c)'
      BY <1>5 DEF CallbackQuits, OnlyCpu, RTTIMERLNXSTATE
    <2>. QED BY <1>2, <2>1, OneCpuKeeps
  <1>6. CASE CallbackRearms(c)
    <2>1. CpuTypes' /\ OnlyCpu(c) /\ CpuHolds(c)'
      BY <1>6 DEF CallbackRearms, OnlyCpu
    <2>. QED BY <1>2, <2>1, OneCpuKeeps
  <1>7. CASE CallbackReturns(c)
    <2>1. CpuTypes' /\ OnlyCpu(c) /\ CpuHolds(c)'
      BY <1>7 DEF CallbackReturns, OnlyCpu
    <2>. QED BY <1>2, <2>1, OneCpuKeeps
  <1>. QED BY <1>3, <1>4, <1>5, <1>6, <1>7 DEF CallbackSteps

(* A sub-timer is started or stopped, by the owner or the hotplug thread.  *)
LEMMA SubTimerKeeps ==
    ASSUME TimerInv, NEW c \in Cpu, SubTimerSteps(c)
    PROVE  TimerInv'
  <1>1. /\ UNCHANGED <<fSuspended, cb, online>>
        /\ todo' \in {todo, todo \ {c}} /\ op' \in {op, "idle", "cancel"}
        /\ hp' \in {hp, Idle, <<"dying", c>>, <<"ipi", c>>}
        /\ \/ rtTimerLnxStartSubTimer(c) \/ rtTimerLnxStopSubTimer(c)
           \/ UNCHANGED <<enmState, pending, home>>
    BY DEF SubTimerSteps, rtTimerLnxStartAllOnCpu, StopAllCancels, MpEventCancels,
       rtTimerLinuxMpEvent_Online, rtTimerLinuxMpStartOnCpu, opVars, cpuVars
  <1>2. OpTypes' /\ HpTypes'
    BY <1>1, TimerAssumption DEF TimerInv, OpTypes, HpTypes, Idle
  <1>3. CASE rtTimerLnxStartSubTimer(c)
    <2>1. CpuTypes' /\ OnlyCpu(c)
      BY <1>1, <1>3 DEF TimerInv, CpuTypes, OnlyCpu, rtTimerLnxStartSubTimer, RTTIMERLNXSTATE
    <2>2. CpuHolds(c)'
      BY <1>1, <1>3 DEF TimerInv, CpuTypes, CpuHolds, rtTimerLnxStartSubTimer
    <2>. QED BY <1>2, <2>1, <2>2, OneCpuKeeps
  <1>4. CASE rtTimerLnxStopSubTimer(c)
    <2>1. CpuTypes' /\ OnlyCpu(c)
      BY <1>1, <1>4 DEF TimerInv, CpuTypes, OnlyCpu, rtTimerLnxStopSubTimer, RTTIMERLNXSTATE
    <2>2. CpuHolds(c)'
      BY <1>1, <1>4 DEF TimerInv, CpuTypes, CpuHolds, rtTimerLnxStopSubTimer
    <2>. QED BY <1>2, <2>1, <2>2, OneCpuKeeps
  <1>5. CASE UNCHANGED <<enmState, pending, home>>
    BY <1>1, <1>2, <1>5 DEF TimerInv, CpuTypes, CpuHolds
  <1>. QED BY <1>1, <1>3, <1>4, <1>5

(* CPUs come and go. *)
LEMMA CpuKeeps ==
    ASSUME TimerInv, NEW c \in Cpu, CpuSteps(c)
    PROVE  TimerInv'
  <1>1. CASE DownFailed(c) \/ Up(c)
    BY <1>1 DEF DownFailed, Up, TimerInv, CpuTypes, OpTypes, HpTypes, CpuHolds, timerVars, opVars
  <1>2. CASE rtTimerLinuxMpEvent_Offline(c)
    <2>1. /\ UNCHANGED <<fSuspended, pending, home, cb, op, todo, online>>
          /\ hp' \in {<<"cancel", c>>, <<"dying", c>>}
          /\ enmState' = enmState \/ enmState' = [enmState EXCEPT ![c] = "MP_STOPPING"]
      BY <1>2 DEF rtTimerLinuxMpEvent_Offline, opVars
    <2>2. OpTypes' /\ HpTypes'
      BY <2>1 DEF TimerInv, OpTypes, HpTypes
    <2>3. CpuTypes' /\ OnlyCpu(c) /\ CpuHolds(c)'
      BY <2>1 DEF TimerInv, CpuTypes, CpuHolds, OnlyCpu, RTTIMERLNXSTATE
    <2>. QED BY <2>2, <2>3, OneCpuKeeps
  <1>3. CASE Dead(c)
    <2>1. /\ UNCHANGED <<fSuspended, enmState, pending, cb, op, todo>>
          /\ online' = online \ {c} /\ hp' = Idle
          /\ \A d \in Cpu : home[d] = c => cb[d] = "none"
      BY <1>3 DEF Dead, opVars
    <2>2. PICK e \in online' :
             home' = [d \in Cpu |-> IF home[d] = c /\ pending[d] THEN e ELSE home[d]]
      BY <1>3 DEF Dead
    <2>3. OpTypes' /\ HpTypes' /\ e \in Cpu
      BY <2>1, TimerAssumption DEF TimerInv, OpTypes, HpTypes, Idle
    <2>4. CpuTypes'
      BY <2>1, <2>2, <2>3 DEF TimerInv, CpuTypes
    <2>5. \A d \in Cpu : CpuHolds(d)'
      BY <2>1, <2>2 DEF TimerInv, CpuHolds
    <2>. QED BY <2>3, <2>4, <2>5 DEF TimerInv
  <1>. QED BY <1>1, <1>2, <1>3 DEF CpuSteps

(* RTTimerStart, RTTimerStop and RTTimerDestroy but for what they do to    *)
(* one sub-timer: no sub-timer becomes active.                             *)
LEMMA AllKeeps ==
    ASSUME TimerInv, AllSteps
    PROVE  TimerInv'
  <1>1. UNCHANGED <<pending, home, cb, online, hp>>
    BY DEF AllSteps, rtTimerLnxStartAll, RTMpOnAll, StartAllDone, RTTimerStop, StopAllMarks, RTTimerDestroy,
       timerVars, cpuVars
  <1>2. enmState' = enmState \/ \E f \in [Cpu -> RTTIMERLNXSTATE] :
           enmState' = f /\ \A c \in Cpu : f[c] = "ACTIVE" => enmState[c] = "ACTIVE"
    BY DEF AllSteps, rtTimerLnxStartAll, RTMpOnAll, StartAllDone, RTTimerStop, StopAllMarks, RTTimerDestroy,
       timerVars, TimerInv, CpuTypes, RTTIMERLNXSTATE
  <1>3. OpTypes'
    BY DEF AllSteps, rtTimerLnxStartAll, RTMpOnAll, StartAllDone, RTTimerStart, RTTimerStop, StopAllMarks,
       RTTimerDestroy, timerVars, TimerInv, OpTypes, HpTypes
  <1>4. HpTypes' /\ CpuTypes'
    BY <1>1, <1>2 DEF TimerInv, CpuTypes, HpTypes
  <1>5. \A c \in Cpu : CpuHolds(c)'
    BY <1>1, <1>2 DEF TimerInv, CpuHolds
  <1>. QED BY <1>3, <1>4, <1>5 DEF TimerInv

LEMMA TimerInitHolds == Init => TimerInv
  BY TimerAssumption
     DEF Init, TimerInit, TimerInv, CpuTypes, OpTypes, HpTypes, CpuHolds, RTTIMERLNXSTATE, Idle

LEMMA TimerNextHolds == TimerInv /\ [Next]_vars => TimerInv'
  <1>. SUFFICES ASSUME TimerInv, [Next]_vars PROVE TimerInv'
    OBVIOUS
  <1>1. CASE TimerSteps
    BY <1>1, CallbackKeeps, SubTimerKeeps, CpuKeeps, AllKeeps DEF TimerSteps
  <1>2. CASE UNCHANGED <<timerVars, opVars, cpuVars>>
    BY <1>2 DEF timerVars, opVars, cpuVars, TimerInv, CpuTypes, OpTypes, HpTypes, CpuHolds
  <1>. QED BY <1>1, <1>2, StepsOfTimer

(* The user's callback runs on its sub-timer's own CPU, so no two of them  *)
(* ever work on one CPU's record, whatever CPUs come and go.               *)
THEOREM CallbacksKeepToTheirCpu == Spec => []CallbackOnOwnCpu
  <1>1. TimerInv => CallbackOnOwnCpu
    BY DEF TimerInv, CpuHolds, CallbackOnOwnCpu
  <1>. QED BY <1>1, TimerInitHolds, TimerNextHolds, PTL DEF Spec

(* No mark says that a sub-timer ticks which neither is queued nor runs,   *)
(* however a start, a stop, callbacks and CPUs that come and go meet.      *)
THEOREM ActiveSubTimersTick == Spec => []ActiveTicks
  <1>1. TimerInv => ActiveTicks
    BY DEF TimerInv, CpuHolds, ActiveTicks
  <1>. QED BY <1>1, TimerInitHolds, TimerNextHolds, PTL DEF Spec

-----------------------------------------------------------------------------
(* The page.  An update is in progress exactly while pfnTimer runs.        *)

PageTypes ==
    /\ u32TransactionId \in [Cpu -> Nat] /\ half \in [Cpu -> BOOLEAN]
    /\ upd \in [Cpu -> {"none", "first", "last", "end", "error"}]
    /\ cGipUsers \in 0 .. Sessions
    /\ gip \in {"idle", "reinit", "term"}

UpdHolds(c) == upd[c] # "none" <=> cb[c] = "user"

PageInv == PageTypes /\ \A c \in Cpu : UpdHolds(c)

(* Ids wrap round at an even number, so their parity alternates. *)
LEMMA WrapFlips ==
    ASSUME NEW id \in Nat
    PROVE  /\ Wrap(id + 1) \in Nat
           /\ Wrap(id + 1) % 2 = 1 <=> id % 2 # 1
  <1>1. (id + 1) % 2 = 1 <=> id % 2 # 1
    OBVIOUS
  <1>2. CASE id + 1 = Ids
    <2>1. (id + 1) % 2 # 1
      BY <1>2, GipAssumption
    <2>2. 0 % 2 # 1
      OBVIOUS
    <2>. QED BY <1>1, <1>2, <2>1, <2>2 DEF Wrap
  <1>3. CASE id + 1 # Ids
    BY <1>1, <1>3 DEF Wrap
  <1>. QED BY <1>2, <1>3

(* Opening and closing a transaction. *)
LEMMA IncOne ==
    ASSUME PageTypes, NEW c \in Cpu, Inc(c)
    PROVE  /\ u32TransactionId' \in [Cpu -> Nat]
           /\ \A d \in Cpu : d # c => u32TransactionId'[d] = u32TransactionId[d]
           /\ u32TransactionId'[c] = Wrap(u32TransactionId[c] + 1)
           /\ u32TransactionId'[c] % 2 = 1 <=> u32TransactionId[c] % 2 # 1
  <1>1. /\ u32TransactionId[c] \in Nat
        /\ u32TransactionId' = [u32TransactionId EXCEPT ![c] = Wrap(u32TransactionId[c] + 1)]
    BY DEF PageTypes, Inc
  <1>2. Wrap(u32TransactionId[c] + 1) \in Nat
    BY <1>1, WrapFlips
  <1>3. u32TransactionId'[c] = Wrap(u32TransactionId[c] + 1)
    BY <1>1 DEF PageTypes
  <1>4. u32TransactionId'[c] % 2 = 1 <=> u32TransactionId[c] % 2 # 1
    BY <1>1, <1>3, WrapFlips
  <1>5. u32TransactionId' \in [Cpu -> Nat] /\ \A d \in Cpu : d # c => u32TransactionId'[d] = u32TransactionId[d]
    BY <1>1, <1>2 DEF PageTypes
  <1>. QED BY <1>3, <1>4, <1>5

(* What a step does to the page, by kind. *)
Untouched == UNCHANGED <<u32TransactionId, half, upd, cGipUsers, gip>>

PageSteps ==
    \/ Untouched /\ \A c \in Cpu : cb'[c] = "user" <=> cb[c] = "user"
    \/ \E c \in Cpu : Begin(c) \/ supdrvGipDoUpdateCpu(c) \/ End(c)
    \/ SUPR0GipMap \/ SUPR0GipUnmap \/ supdrvGipReInitCpu \/ supdrvGipTerm

LEMMA StepsOfPage ==
    ASSUME TimerInv, [Next]_vars
    PROVE  PageSteps
  <1>. USE DEF pageVars, gipVars
  <1>1. CASE UNCHANGED vars
    BY <1>1 DEF vars, timerVars, PageSteps, Untouched
  <1>2. CASE Untouched /\ UNCHANGED cb
    BY <1>2 DEF PageSteps
  <1>3. ASSUME NEW c \in Cpu, Hardware(c) \/ Hotplug(c) PROVE PageSteps
    <2>1. Untouched
      BY <1>3 DEF Untouched, Hardware, Hotplug, TimerFires, Timer, MpEvent
    <2>2. UNCHANGED cb \/ Fire(c)
      BY <1>3 DEF Hardware, Hotplug, HotplugStep, TimerFires, Timer, MpEvent, rtTimerLinuxMpEvent_Offline,
         DownFailed, Dead, Up, MpEventCancels, rtTimerLinuxMpEvent_Online, rtTimerLinuxMpStartOnCpu, timerVars
    <2>3. \A d \in Cpu : cb'[d] = "user" <=> cb[d] = "user"
      BY <2>2 DEF Fire, TimerInv, CpuTypes
    <2>. QED BY <2>1, <2>3 DEF PageSteps
  <1>4. ASSUME NEW c \in Cpu, Callback(c) PROVE PageSteps
    <2>1. CASE Timer(CallbackChecks(c)) \/ Timer(CallbackQuits(c))
      <3>1. Untouched
        BY <2>1 DEF Timer, Untouched
      <3>2. \A d \in Cpu : cb'[d] = "user" <=> cb[d] = "user"
        BY <2>1 DEF Timer, CallbackChecks, CallbackQuits, TimerInv, CpuTypes
      <3>. QED BY <3>1, <3>2 DEF PageSteps
    <2>. QED BY <1>4, <2>1 DEF Callback, PageSteps
  <1>5. CASE Owner
    <2>1. CASE Timer(OpStep)
      <3>1. Untouched
        BY <2>1 DEF Timer, Untouched
      <3>2. UNCHANGED cb
        BY <2>1 DEF Timer, OpStep, rtTimerLnxStartAll, RTMpOnAll, StartAllDone, StopAllMarks,
           rtTimerLnxStartAllOnCpu, StopAllCancels, timerVars
      <3>. QED BY <1>2, <3>1, <3>2
    <2>. QED BY <1>5, <2>1 DEF Owner, PageSteps
  <1>6. CASE supdrvGipDestroy
    BY <1>2, <1>6 DEF supdrvGipDestroy, RTTimerDestroy, timerVars, Untouched
  <1>. QED BY <1>1, <1>3, <1>4, <1>5, <1>6 DEF Next, PageSteps

LEMMA PageInitHolds == Init => PageInv
  <1>1. Wrap(2) \in Nat
    BY DEF Wrap
  <1>. QED BY <1>1, GipAssumption DEF Init, TimerInit, PageInv, PageTypes, UpdHolds

LEMMA PageNextHolds == TimerInv /\ PageInv /\ [Next]_vars => PageInv'
  <1>. SUFFICES ASSUME TimerInv, PageInv, PageSteps PROVE PageInv'
    BY StepsOfPage
  <1>1. CASE Untouched /\ \A c \in Cpu : cb'[c] = "user" <=> cb[c] = "user"
    BY <1>1 DEF Untouched, PageInv, PageTypes, UpdHolds
  <1>2. ASSUME NEW c \in Cpu, Begin(c) \/ End(c) PROVE PageInv'
    <2>1. /\ Inc(c) /\ UNCHANGED <<half, cGipUsers, gip>>
          /\ \/ /\ cb' = [cb EXCEPT ![c] = "user"]
                /\ \E l \in {"first", "error"} : upd' = [upd EXCEPT ![c] = l]
             \/ /\ cb' = [cb EXCEPT ![c] = "none"]
                /\ upd' = [upd EXCEPT ![c] = "none"]
      BY <1>2 DEF Begin, End, CallbackRearms, CallbackReturns, gipVars
    <2>2. PageTypes'
      BY <2>1, IncOne DEF PageInv, PageTypes
    <2>3. \A d \in Cpu : UpdHolds(d)'
      BY <2>1 DEF PageInv, PageTypes, UpdHolds, TimerInv, CpuTypes
    <2>. QED BY <2>2, <2>3 DEF PageInv
  <1>3. ASSUME NEW c \in Cpu, supdrvGipDoUpdateCpu(c) PROVE PageInv'
    <2>1. /\ UNCHANGED <<u32TransactionId, cGipUsers, gip, cb>> /\ upd[c] # "none"
          /\ \E l \in {"last", "end"} : upd' = [upd EXCEPT ![c] = l]
          /\ \E b \in BOOLEAN : half' = [half EXCEPT ![c] = b]
      BY <1>3 DEF supdrvGipDoUpdateCpu, Update, timerVars, gipVars
    <2>. QED BY <2>1 DEF PageInv, PageTypes, UpdHolds
  <1>4. CASE SUPR0GipMap
    <2>1. /\ UNCHANGED <<half, upd, cb>> /\ cGipUsers < Sessions /\ cGipUsers' = cGipUsers + 1
          /\ gip' \in {gip, "reinit"}
          /\ u32TransactionId' \in {u32TransactionId, [c \in Cpu |-> 0]}
      BY <1>4 DEF SUPR0GipMap, NextRun, timerVars
    <2>2. cGipUsers' \in 0 .. Sessions
      BY <2>1, GipAssumption DEF PageInv, PageTypes
    <2>. QED BY <2>1, <2>2 DEF PageInv, PageTypes, UpdHolds
  <1>5. CASE SUPR0GipUnmap
    <2>1. /\ UNCHANGED <<u32TransactionId, half, upd, cb, gip>> /\ cGipUsers > 0 /\ cGipUsers' = cGipUsers - 1
      BY <1>5 DEF SUPR0GipUnmap, RTTimerStop, timerVars, pageVars
    <2>2. cGipUsers' \in 0 .. Sessions
      BY <2>1, GipAssumption DEF PageInv, PageTypes
    <2>. QED BY <2>1, <2>2 DEF PageInv, PageTypes, UpdHolds
  <1>6. CASE supdrvGipReInitCpu \/ supdrvGipTerm
    BY <1>6 DEF supdrvGipReInitCpu, supdrvGipTerm, timerVars, pageVars, PageInv, PageTypes, UpdHolds
  <1>. QED BY <1>1, <1>2, <1>3, <1>4, <1>5, <1>6 DEF PageSteps

(* An id that fits its record keeps doing so; only the rounding for the    *)
(* first user, meeting an update that a stop has left, turns one round.    *)
THEOREM IdsStayFitting == Spec => IdsKeepFitting
  <1>. DEFINE Kept(c) == IdFits(c) => \/ IdFits(c)'
                                      \/ upd[c] # "none" /\ cGipUsers = 0 /\ cGipUsers' = 1
  <1>1. ASSUME TimerInv, PageInv, [Next]_vars PROVE \A c \in Cpu : Kept(c)
    <2>. SUFFICES ASSUME NEW c \in Cpu, IdFits(c), PageSteps PROVE Kept(c)
      BY <1>1, StepsOfPage
    <2>1. CASE u32TransactionId'[c] = u32TransactionId[c] /\ (upd'[c] = "none" <=> upd[c] = "none")
      BY <2>1 DEF IdFits
    <2>2. ASSUME NEW d \in Cpu, Begin(d) \/ End(d) PROVE Kept(c)
      <3>1. /\ Inc(d)
            /\ upd[d] = "none" <=> upd'[d] # "none"
            /\ \A e \in Cpu : e # d => upd'[e] = upd[e]
        BY <1>1, <2>2 DEF Begin, End, CallbackRearms, PageInv, PageTypes, UpdHolds
      <3>2. CASE c = d
        <4>1. u32TransactionId'[c] % 2 = 1 <=> u32TransactionId[c] % 2 # 1
          BY <1>1, <3>1, <3>2, IncOne DEF PageInv
        <4>. QED BY <3>1, <3>2, <4>1 DEF IdFits
      <3>3. CASE c # d
        BY <1>1, <2>1, <3>1, <3>3, IncOne DEF PageInv
      <3>. QED BY <3>2, <3>3
    <2>3. ASSUME NEW d \in Cpu, supdrvGipDoUpdateCpu(d) PROVE Kept(c)
      BY <1>1, <2>1, <2>3 DEF supdrvGipDoUpdateCpu, Update, PageInv, PageTypes
    <2>4. CASE SUPR0GipMap
      <3>1. CASE FirstUser /\ u32TransactionId' = [e \in Cpu |-> 0]
        <4>1. upd'[c] = upd[c] /\ cGipUsers = 0 /\ cGipUsers' = 1
          BY <2>4, <3>1 DEF SUPR0GipMap, FirstUser
        <4>2. u32TransactionId'[c] % 2 # 1
          BY <3>1
        <4>. QED BY <4>1, <4>2 DEF IdFits
      <3>. QED BY <2>1, <2>4, <3>1 DEF SUPR0GipMap, NextRun
    <2>. QED BY <2>1, <2>2, <2>3, <2>4
         DEF PageSteps, Untouched, SUPR0GipUnmap, supdrvGipReInitCpu, supdrvGipTerm, pageVars
  <1>2. (\A c \in Cpu : Kept(c)) =>
           [\A c \in Cpu : IdFits(c) => \/ IdFits(c)'
                                        \/ upd[c] # "none" /\ cGipUsers = 0 /\ cGipUsers' = 1]_vars
    OBVIOUS
  <1>. QED BY <1>1, <1>2, TimerInitHolds, TimerNextHolds, PageInitHolds, PageNextHolds, PTL
       DEF Spec, IdsKeepFitting

(* A record whose id fits is safe to read while the page is in use: its    *)
(* words change only under an odd id, and the id changes only where an     *)
(* update begins or ends.                                                  *)
THEOREM ReadersStaySafe == Spec => ReadersAreSafe
  <1>. DEFINE Safe(c) ==
                /\ half'[c] # half[c] =>
                      u32TransactionId[c] % 2 = 1 /\ u32TransactionId'[c] = u32TransactionId[c]
                /\ u32TransactionId'[c] # u32TransactionId[c] =>
                      /\ u32TransactionId'[c] = Wrap(u32TransactionId[c] + 1)
                      /\ (upd[c] = "none") # (upd'[c] = "none")
              Fine == \A c \in Cpu : cGipUsers > 0 /\ gip = "idle" /\ IdFits(c) => Safe(c)
  <1>1. ASSUME TimerInv, PageInv, [Next]_vars PROVE Fine
    <2>. SUFFICES ASSUME NEW c \in Cpu, cGipUsers > 0, gip = "idle", IdFits(c), PageSteps PROVE Safe(c)
      BY <1>1, StepsOfPage
    <2>1. CASE UNCHANGED <<half, u32TransactionId>>
      BY <2>1
    <2>2. ASSUME NEW d \in Cpu, Begin(d) \/ End(d) PROVE Safe(c)
      <3>1. /\ Inc(d) /\ half' = half
            /\ upd[d] = "none" <=> upd'[d] # "none"
        BY <1>1, <2>2 DEF Begin, End, CallbackRearms, PageInv, PageTypes, UpdHolds
      <3>. QED BY <1>1, <3>1, IncOne DEF PageInv
    <2>3. ASSUME NEW d \in Cpu, supdrvGipDoUpdateCpu(d) PROVE Safe(c)
      <3>1. /\ u32TransactionId' = u32TransactionId /\ upd[d] # "none"
            /\ \E b \in BOOLEAN : half' = [half EXCEPT ![d] = b]
        BY <2>3 DEF supdrvGipDoUpdateCpu, Update
      <3>2. half'[c] # half[c] => c = d
        BY <1>1, <3>1 DEF PageInv, PageTypes
      <3>. QED BY <3>1, <3>2 DEF IdFits
    <2>4. CASE SUPR0GipMap
      BY <1>1, <2>1, <2>4 DEF SUPR0GipMap, FirstUser, PageInv, PageTypes
    <2>. QED BY <2>1, <2>2, <2>3, <2>4
         DEF PageSteps, Untouched, SUPR0GipUnmap, supdrvGipReInitCpu, supdrvGipTerm, pageVars
  <1>2. Fine => [\A c \in Cpu : cGipUsers > 0 /\ gip = "idle" /\ IdFits(c) => Safe(c)]_vars
    OBVIOUS
  <1>. QED BY <1>1, <1>2, TimerInitHolds, TimerNextHolds, PageInitHolds, PageNextHolds, PTL
       DEF Spec, ReadersAreSafe

-----------------------------------------------------------------------------
(* The master is online.  A CPU that goes down passes its role on before   *)
(* it dies, to one that cannot go down in between; the last CPU that is    *)
(* online never goes down.                                                 *)
MasterIsOnline == idGipMaster \in online

MasterHolds ==
    /\ MasterIsOnline
    /\ \A c \in Cpu :
          /\ hp = <<"dying", c>> => idGipMaster # c
          /\ hp = <<"cancel", c>> => online # {c}

(* Any set of CPUs but the empty one has a first. *)
LEMMA FirstCpu ==
    ASSUME NEW S \in SUBSET Cpu, S # {}
    PROVE  (CHOOSE d \in S : \A e \in S : d <= e) \in S
  <1>1. S \subseteq Nat
    BY TimerAssumption
  <1>. DEFINE Less == OpToRel(<, Nat)
  <1>2. \A d, e \in Nat : <<e, d>> \in Less <=> e < d
    BY Zenon DEF OpToRel
  <1>. HIDE DEF Less
  <1>3. PICK d \in S : \A e \in S : ~(<<e, d>> \in Less)
    <2>1. IsWellFoundedOn(Less, Nat)
      BY NatLessThanWellFounded DEF Less
    <2>. QED BY <1>1, <2>1, WFMin
  <1>4. ASSUME NEW e \in S PROVE d <= e
    <2>1. d \in Nat /\ e \in Nat
      BY <1>1
    <2>2. ~(e < d)
      BY <1>2, <1>3, <2>1, Zenon
    <2>. QED BY <2>1, <2>2
  <1>. QED BY <1>4

LEMMA MasterInitHolds == Init => MasterHolds
  BY TimerAssumption DEF Init, TimerInit, MasterHolds, MasterIsOnline, Idle

LEMMA MasterKeeps == TimerInv /\ MasterHolds /\ [Next]_vars => MasterHolds'
  <1>. SUFFICES ASSUME TimerInv, MasterHolds, [Next]_vars PROVE MasterHolds'
    OBVIOUS
  <1>1. CASE UNCHANGED <<idGipMaster, online>> /\ (hp' = hp \/ hp'[1] \in {"idle", "up", "ipi"})
    BY <1>1 DEF MasterHolds, MasterIsOnline
  <1>2. ASSUME NEW c \in Cpu, UNCHANGED idGipMaster, DownFailed(c) \/ Dead(c) \/ Up(c)
        PROVE  MasterHolds'
    <2>1. idGipMaster \in online' /\ hp'[1] \in {"idle", "up"}
      BY <1>2 DEF MasterHolds, MasterIsOnline, DownFailed, Dead, Up, Idle
    <2>. QED BY <1>2, <2>1 DEF MasterHolds, MasterIsOnline
  <1>3. ASSUME NEW c \in Cpu, supdrvGipMpEvent(c),
               rtTimerLinuxMpEvent_Offline(c) \/ MpEventCancels(c)
        PROVE  MasterHolds'
    <2>1. online' = online /\ online # {c} /\ hp' \in {<<"cancel", c>>, <<"dying", c>>}
      BY <1>3 DEF MasterHolds, rtTimerLinuxMpEvent_Offline, MpEventCancels
    <2>2. idGipMaster' \in online /\ (hp' = <<"dying", c>> => idGipMaster' # c)
      <3>1. CASE hp' = <<"dying", c>> /\ idGipMaster = c
        <4>1. online \ {c} \in SUBSET Cpu /\ online \ {c} # {}
          BY <2>1, <3>1 DEF TimerInv, HpTypes, MasterHolds, MasterIsOnline
        <4>2. idGipMaster' = CHOOSE d \in online \ {c} : \A e \in online \ {c} : d <= e
          BY <1>3, <3>1 DEF supdrvGipMpEvent
        <4>. QED BY <4>1, <4>2, FirstCpu
      <3>. QED BY <1>3, <3>1 DEF supdrvGipMpEvent, MasterHolds, MasterIsOnline
    <2>. QED BY <2>1, <2>2 DEF MasterHolds, MasterIsOnline
  <1>. USE DEF vars, cpuVars, gipVars
  <1>4. ASSUME NEW c \in Cpu, Hardware(c) PROVE MasterHolds'
    <2>1. CASE TimerFires(c)
      BY <1>1, <2>1 DEF TimerFires, Fire
    <2>. QED BY <1>2, <1>3, <1>4, <2>1 DEF Hardware, Timer, MpEvent
  <1>5. ASSUME NEW c \in Cpu, Callback(c) PROVE MasterHolds'
    BY <1>1, <1>5 DEF Callback, Timer, CallbackChecks, CallbackQuits, CallbackRearms,
       Begin, supdrvGipDoUpdateCpu, Update, End, CallbackReturns
  <1>6. ASSUME NEW c \in Cpu, Hotplug(c) PROVE MasterHolds'
    <2>1. CASE idGipMaster' = idGipMaster /\ (rtTimerLinuxMpEvent_Online(c) \/ rtTimerLinuxMpStartOnCpu(c))
      BY <1>1, <2>1 DEF rtTimerLinuxMpEvent_Online, rtTimerLinuxMpStartOnCpu, Idle
    <2>. QED BY <1>3, <1>6, <2>1 DEF Hotplug, HotplugStep, Timer, MpEvent
  <1>7. CASE SUPR0GipMap \/ SUPR0GipUnmap
    BY <1>1, <1>7 DEF SUPR0GipMap, SUPR0GipUnmap, RTTimerStop
  <1>8. CASE Owner
    BY <1>1, <1>8 DEF Owner, supdrvGipReInitCpu, Timer, OpStep, rtTimerLnxStartAll, RTMpOnAll, StartAllDone,
       StopAllMarks, rtTimerLnxStartAllOnCpu, StopAllCancels
  <1>9. CASE supdrvGipTerm \/ supdrvGipDestroy \/ UNCHANGED vars
    BY <1>1, <1>9 DEF supdrvGipTerm, supdrvGipDestroy, RTTimerDestroy
  <1>. QED BY <1>4, <1>5, <1>6, <1>7, <1>8, <1>9 DEF Next

(* The timer, the page, its users and the hotplug thread keep their types. *)
THEOREM TypeCorrect == Spec => []TypeOK
  <1>1. TimerInv /\ PageInv /\ MasterHolds => TypeOK
    BY TimerTyped DEF TimerInv, HpTypes, PageInv, PageTypes, MasterHolds, MasterIsOnline, TypeOK
  <1>. QED BY <1>1, TimerInitHolds, TimerNextHolds, PageInitHolds, PageNextHolds, MasterInitHolds,
              MasterKeeps, PTL DEF Spec

(* Whatever CPUs come and go, idGipMaster is a CPU that is online, so that *)
(* there is one whose callback calls supdrvGipUpdate: a CPU that goes down *)
(* is seen by supdrvGipMpEvent before it stops.                            *)
THEOREM MasterStaysOnline == Spec => []MasterIsOnline
  <1>1. MasterHolds => MasterIsOnline
    BY DEF MasterHolds
  <1>. QED BY <1>1, TimerInitHolds, TimerNextHolds, MasterInitHolds, MasterKeeps, PTL DEF Spec
=============================================================================
