------------------------------ MODULE R0Timer ------------------------------
(***************************************************************************)
(* A timer that runs on all CPUs (src/r0drv/linux/timer-r0drv-linux.c,     *)
(* RTTIMER_FLAGS_CPU_ALL): one sub-timer per CPU, each a Linux timer       *)
(* pinned to it.  Its owner starts and stops it, one call at a time; Linux *)
(* fires the sub-timers and takes CPUs down and up, telling the timer      *)
(* before the one and after the other (mpnotification-r0drv-linux.c).      *)
(* What the callback does is left to the module that extends this one.     *)
(* The sub-timers are of type struct timer_list: the build with hrtimers   *)
(* is disabled in the source.                                              *)
(***************************************************************************)
EXTENDS Naturals, FiniteSets

CONSTANTS
    Cpu             \* 0 .. cCpus - 1

ASSUME TimerAssumption == Cpu \in SUBSET Nat /\ 0 \in Cpu

RTTIMERLNXSTATE ==
    {"STOPPED", "STARTING", "MP_STARTING", "ACTIVE", "STOPPING", "MP_STOPPING"}

VARIABLES
    fSuspended, enmState,
    pending,        \* is the Linux timer of a sub-timer queued?
    home,           \* the CPU it is queued on or its callback runs on, if any
    cb,             \* where its callback is
    op, todo,       \* the owner's call, and the CPUs it has yet to visit
    online, hp      \* CPUs; the hotplug thread: <<where, cpu>> or Idle

Idle == <<"idle", 0>>

timerVars == <<fSuspended, enmState, pending, home, cb>>
opVars    == <<op, todo>>
cpuVars   == <<online, hp>>

TimerTypeOK ==
    /\ fSuspended \in BOOLEAN
    /\ enmState \in [Cpu -> RTTIMERLNXSTATE]
    /\ pending \in [Cpu -> BOOLEAN] /\ home \in [Cpu -> Cpu]
    /\ cb \in [Cpu -> {"none", "check", "quit", "rearm", "user"}]
    /\ op \in {"idle", "start", "call", "onall", "mark", "cancel", "freed"}
    /\ todo \in SUBSET Cpu /\ online \in SUBSET Cpu
    /\ hp \in {"idle", "cancel", "dying", "up", "ipi"} \X Cpu

(* RTTimerCreateEx, with all CPUs online. *)
TimerInit ==
    /\ fSuspended = TRUE
    /\ enmState = [c \in Cpu |-> "STOPPED"]
    /\ pending = [c \in Cpu |-> FALSE]
    /\ home = [c \in Cpu |-> c]
    /\ cb = [c \in Cpu |-> "none"]
    /\ op = "idle" /\ todo = {}
    /\ online = Cpu /\ hp = Idle

(* hSpinlock is held by the owner over more than one step only here. *)
SpinlockFree == op # "mark"

(* Can CPU c take an interrupt?  Timers run with interrupts enabled, but   *)
(* the callback of the page disables them.                                 *)
Interruptible(c) == \A d \in Cpu : home[d] = c => cb[d] # "user"

-----------------------------------------------------------------------------
(* Starting and stopping one sub-timer.                                    *)

(* A timer whose callback runs stays on that CPU. *)
rtTimerLnxStartSubTimer(c) ==
    /\ pending' = [pending EXCEPT ![c] = TRUE]
    /\ home' = [home EXCEPT ![c] = IF cb[c] = "none" THEN c ELSE @]
    /\ enmState' = [enmState EXCEPT ![c] = "ACTIVE"]

(* del_timer_sync waits for a running callback, but is only called if the  *)
(* timer is queued: one that is about to be queued by its callback is not  *)
(* stopped.                                                                *)
rtTimerLnxStopSubTimer(c) ==
    /\ pending[c] => cb[c] = "none"
    /\ pending' = [pending EXCEPT ![c] = FALSE]
    /\ enmState' = [enmState EXCEPT ![c] = "STOPPED"]
    /\ home' = [home EXCEPT ![c] = IF cb[c] = "none" THEN c ELSE @]

-----------------------------------------------------------------------------
(* rtTimerLinuxCallback.                                                   *)

Fire(c) ==
    /\ pending[c] /\ cb[c] = "none" /\ home[c] \in online
    /\ \A d \in Cpu : home[d] = home[c] => cb[d] = "none"
    /\ pending' = [pending EXCEPT ![c] = FALSE]
    /\ cb' = [cb EXCEPT ![c] = "check"]
    /\ UNCHANGED <<fSuspended, enmState, home, opVars, cpuVars>>

(* Mutant: a timer that was stopped is not noticed. *)
CallbackChecks_Running(c) ==
    /\ cb[c] = "check"
    /\ cb' = [cb EXCEPT ![c] = IF home[c] # c THEN "quit" ELSE "rearm"]
    /\ UNCHANGED <<fSuspended, enmState, pending, home, opVars, cpuVars>>

(* Mutant: the CPU is not looked at. *)
CallbackChecks_AnyCpu(c) ==
    /\ cb[c] = "check"
    /\ cb' = [cb EXCEPT ![c] = IF fSuspended THEN "quit" ELSE "rearm"]
    /\ UNCHANGED <<fSuspended, enmState, pending, home, opVars, cpuVars>>

(* Suspended, or migrated to another CPU by Linux? *)
CallbackChecks(c) ==
    /\ cb[c] = "check"
    /\ cb' = [cb EXCEPT ![c] = IF fSuspended \/ home[c] # c THEN "quit" ELSE "rearm"]
    /\ UNCHANGED <<fSuspended, enmState, pending, home, opVars, cpuVars>>

(* Mutant: the sub-timer stays marked as active. *)
CallbackQuits_Marked(c) ==
    /\ cb[c] = "quit"
    /\ cb' = [cb EXCEPT ![c] = "none"]
    /\ home' = [home EXCEPT ![c] = IF pending[c] THEN @ ELSE c]
    /\ UNCHANGED <<fSuspended, enmState, pending, opVars, cpuVars>>

CallbackQuits(c) ==
    /\ cb[c] = "quit"
    /\ enmState' = [enmState EXCEPT ![c] = IF @ = "ACTIVE" THEN "STOPPED" ELSE @]
    /\ cb' = [cb EXCEPT ![c] = "none"]
    /\ home' = [home EXCEPT ![c] = IF pending[c] THEN @ ELSE c]
    /\ UNCHANGED <<fSuspended, pending, opVars, cpuVars>>

(* The next tick is queued before the user's callback runs. *)
CallbackRearms(c) ==
    /\ cb[c] = "rearm"
    /\ cb' = [cb EXCEPT ![c] = "user"]
    /\ pending' = [pending EXCEPT ![c] = TRUE]
    /\ UNCHANGED <<fSuspended, enmState, home, opVars, cpuVars>>

(* After pfnTimer; the module that extends this one adds what that does.   *)
CallbackReturns(c) ==
    /\ cb[c] = "user"
    /\ cb' = [cb EXCEPT ![c] = "none"]
    /\ UNCHANGED <<fSuspended, enmState, pending, home, opVars, cpuVars>>

-----------------------------------------------------------------------------
(* RTTimerStart.                                                           *)

RTTimerStart == op' = (IF fSuspended THEN "start" ELSE "idle") /\ todo' = {}

(* rtTimerLnxStartAll, under the spinlock. *)
rtTimerLnxStartAll ==
    /\ op = "start"
    /\ enmState' = [c \in Cpu |-> IF c \in online THEN "STARTING" ELSE "STOPPED"]
    /\ fSuspended' = FALSE
    /\ op' = "call"
    /\ UNCHANGED <<todo, pending, home, cb, cpuVars>>

(* Mutant: calls CPUs that are not there. *)
RTMpOnAll_Possible ==
    /\ op = "call"
    /\ op' = "onall" /\ todo' = Cpu
    /\ UNCHANGED <<timerVars, cpuVars>>

RTMpOnAll ==
    /\ op = "call"
    /\ op' = "onall" /\ todo' = online
    /\ UNCHANGED <<timerVars, cpuVars>>

rtTimerLnxStartAllOnCpu(c) ==
    /\ op = "onall" /\ c \in todo \cap online /\ Interruptible(c)
    /\ rtTimerLnxStartSubTimer(c)
    /\ todo' = todo \ {c}
    /\ UNCHANGED <<fSuspended, cb, op, cpuVars>>

(* Sub-timers of CPUs that went away in between. *)
StartAllDone ==
    /\ op = "onall" /\ todo = {}
    /\ enmState' = [c \in Cpu |-> IF enmState[c] = "STARTING" THEN "STOPPED"
                                  ELSE enmState[c]]
    /\ op' = "idle"
    /\ UNCHANGED <<fSuspended, pending, home, cb, todo, cpuVars>>

-----------------------------------------------------------------------------
(* RTTimerStop.                                                            *)

(* rtTimerLnxStopAll: suspended first, under the spinlock, ... *)
RTTimerStop ==
    /\ fSuspended' = TRUE
    /\ op' = (IF fSuspended THEN "idle" ELSE "mark") /\ todo' = {}
    /\ UNCHANGED <<enmState, pending, home, cb, cpuVars>>

(* ... then every sub-timer is marked but those an event is stopping, ...  *)
StopAllMarks ==
    /\ op = "mark"
    /\ enmState' = [c \in Cpu |-> IF enmState[c] \in {"STOPPED", "MP_STOPPING"}
                                  THEN enmState[c] ELSE "STOPPING"]
    /\ todo' = {c \in Cpu : enmState'[c] = "STOPPING"}
    /\ op' = IF todo' = {} THEN "idle" ELSE "cancel"
    /\ UNCHANGED <<fSuspended, pending, home, cb, cpuVars>>

(* ... and stopped, in order, without the spinlock.                        *)
StopAllCancels(c) ==
    /\ op = "cancel" /\ c \in todo /\ \A d \in todo : c <= d
    /\ rtTimerLnxStopSubTimer(c)
    /\ todo' = todo \ {c}
    /\ op' = IF todo' = {} THEN "idle" ELSE "cancel"
    /\ UNCHANGED <<fSuspended, cb, cpuVars>>

(* RTTimerDestroy, of a timer that its owner has stopped: the events are   *)
(* deregistered and it is freed.  Neither an event that is being handled   *)
(* nor a callback that the stop has left is waited for; what these read of *)
(* the timer is taken to be what it was.                                   *)
RTTimerDestroy ==
    /\ op = "idle" /\ fSuspended
    /\ op' = "freed"
    /\ UNCHANGED <<timerVars, todo, cpuVars>>

TimerGone == op = "freed"

-----------------------------------------------------------------------------
(* CPU hotplug: rtMpNotificationLinuxCallback and rtTimerLinuxMpEvent.     *)

(* CPU_DOWN_PREPARE, an OFFLINE event: the sub-timer is marked under the   *)
(* spinlock, and stopped without it.                                       *)
rtTimerLinuxMpEvent_Offline(c) ==
    /\ hp = Idle /\ c \in online /\ online # {c} /\ SpinlockFree
    /\ IF ~TimerGone /\ ~fSuspended /\ enmState[c] = "ACTIVE"
       THEN /\ enmState' = [enmState EXCEPT ![c] = "MP_STOPPING"]
            /\ hp' = <<"cancel", c>>
       ELSE UNCHANGED enmState /\ hp' = <<"dying", c>>
    /\ UNCHANGED <<fSuspended, pending, home, cb, opVars, online>>

MpEventCancels(c) ==
    /\ hp = <<"cancel", c>>
    /\ rtTimerLnxStopSubTimer(c)
    /\ hp' = <<"dying", c>>
    /\ UNCHANGED <<fSuspended, cb, opVars, online>>

(* CPU_DOWN_FAILED is an ONLINE event, as the CPU was seen going offline.  *)
DownFailed(c) ==
    /\ hp = <<"dying", c>>
    /\ hp' = <<"up", c>>
    /\ UNCHANGED <<timerVars, opVars, online>>

(* The CPU stops; what was queued on it moves to another one.              *)
Dead(c) ==
    /\ hp = <<"dying", c>>
    /\ op # "onall" /\ \A d \in Cpu : home[d] = c => cb[d] = "none"
    /\ online' = online \ {c}
    /\ \E e \in online' :
          home' = [d \in Cpu |-> IF home[d] = c /\ pending[d] THEN e ELSE home[d]]
    /\ hp' = Idle
    /\ UNCHANGED <<fSuspended, enmState, pending, cb, opVars>>

(* CPU_ONLINE, when the CPU runs already. *)
Up(c) ==
    /\ hp[1] = "idle" /\ c \notin online
    /\ online' = online \cup {c}
    /\ hp' = <<"up", c>>
    /\ UNCHANGED <<timerVars, opVars>>

MayMpStart(c) == ~TimerGone /\ ~fSuspended /\ enmState[c] = "STOPPED"

(* RTMPEVENT_ONLINE, handled on the CPU itself or on another.              *)
rtTimerLinuxMpEvent_Online(c) ==
    /\ hp = <<"up", c>> /\ SpinlockFree
    /\ \/ /\ MayMpStart(c)
          /\ rtTimerLnxStartSubTimer(c)
          /\ hp' = Idle
       \/ /\ MayMpStart(c)
          /\ hp' = <<"ipi", c>>
          /\ UNCHANGED <<enmState, pending, home>>
       \/ /\ ~MayMpStart(c)
          /\ hp' = Idle
          /\ UNCHANGED <<enmState, pending, home>>
    /\ UNCHANGED <<fSuspended, cb, opVars, online>>

(* The spinlock was dropped for the call to the CPU. *)
rtTimerLinuxMpStartOnCpu(c) ==
    /\ hp = <<"ipi", c>> /\ SpinlockFree /\ Interruptible(c)
    /\ IF MayMpStart(c)
       THEN rtTimerLnxStartSubTimer(c)
       ELSE UNCHANGED <<enmState, pending, home>>
    /\ hp' = Idle
    /\ UNCHANGED <<fSuspended, cb, opVars, online>>

-----------------------------------------------------------------------------
CallbackStep(c) == CallbackChecks(c) \/ CallbackQuits(c) \/ CallbackRearms(c)

OpStep ==
    \/ rtTimerLnxStartAll \/ RTMpOnAll \/ StartAllDone
    \/ StopAllMarks
    \/ \E c \in Cpu : rtTimerLnxStartAllOnCpu(c) \/ StopAllCancels(c)

HotplugStep(c) ==
    \/ rtTimerLinuxMpEvent_Online(c) \/ rtTimerLinuxMpStartOnCpu(c)

-----------------------------------------------------------------------------
(* The user's callback runs for a sub-timer only on its own CPU, whatever  *)
(* Linux does with the timers of a CPU that goes down; so no two callbacks *)
(* ever work on the data of one CPU.                                       *)
CallbackOnOwnCpu == \A c \in Cpu : cb[c] = "user" => home[c] = c

(* A sub-timer that is marked as active is queued, or its callback runs:   *)
(* no CPU is left without ticks by a mark that keeps the ONLINE event from *)
(* starting its sub-timer, whatever starts, stops and CPUs meet.           *)
ActiveTicks ==
    \A c \in Cpu : enmState[c] = "ACTIVE" => pending[c] \/ cb[c] # "none"

(* RTTimerStop may leave callbacks and queued sub-timers behind, but they  *)
(* die out: each finds the timer suspended and queues nothing.             *)
StopSettles ==
    fSuspended ~> \/ ~fSuspended
                  \/ \A c \in Cpu : ~pending[c] /\ cb[c] = "none"
=============================================================================
