----------------------------- MODULE SUPDrvGip -----------------------------
(***************************************************************************)
(* The global information page (src/vboxdrv/SUPDrv.c): per CPU a record of *)
(* time stamps that the callback of a timer updates and that processes     *)
(* read without a lock, trusting its transaction id: odd while an update   *)
(* is in progress, even and unchanged if what they read belongs together.  *)
(* The timer runs while sessions use the page.  Asynchronous TSC mode: one *)
(* timer on all CPUs, of which one is the master.                          *)
(***************************************************************************)
EXTENDS R0Timer

CONSTANTS
    Sessions,   \* how many sessions may use the page
    Ids         \* of a transaction id the residue modulo Ids is kept

\* Ids divides 2 * GIP_UPDATEHZ_RECALC_FREQ, so 2^32, too.
ASSUME GipAssumption ==
    Sessions \in Nat \ {0} /\ Ids \in Nat \ {0} /\ Ids % 2 = 0

VARIABLES
    u32TransactionId,   \* of every CPU's record
    half,               \* its words do not belong together
    upd,                \* where the update by a CPU's callback is
    cGipUsers,          \* sessions with fGipReferenced
    gip,                \* where the owner of mtxGip is
    idGipMaster

pageVars == <<u32TransactionId, half, upd>>
gipVars  == <<cGipUsers, gip, idGipMaster>>
vars     == <<timerVars, opVars, cpuVars, pageVars, gipVars>>

TypeOK ==
    /\ TimerTypeOK
    /\ u32TransactionId \in [Cpu -> Nat] /\ half \in [Cpu -> BOOLEAN]
    /\ upd \in [Cpu -> {"none", "first", "last", "end", "error"}]
    /\ cGipUsers \in 0 .. Sessions
    /\ gip \in {"idle", "reinit", "term"}
    /\ idGipMaster \in Cpu

(* Ids are 32 bits wide. *)
Wrap(id) == IF id = Ids THEN 0 ELSE id

(* supdrvGipInit: a record that was never updated has the id 2. *)
Init ==
    /\ TimerInit
    /\ u32TransactionId = [c \in Cpu |-> Wrap(2)]
    /\ half = [c \in Cpu |-> FALSE]
    /\ upd = [c \in Cpu |-> "none"]
    /\ cGipUsers = 0
    /\ gip = "idle" /\ idGipMaster = 0

mtxGipFree == gip = "idle" /\ op = "idle"

-----------------------------------------------------------------------------
(* The callback: supdrvGipAsyncTimer with supdrvGipUpdate (on the master)  *)
(* and supdrvGipUpdatePerCpu, which do the same to the CPU's own record.   *)

TimerFires(c) == Fire(c) /\ UNCHANGED <<pageVars, gipVars>>

Update(c, from, to) ==
    /\ cb[c] = "user" /\ upd[c] = from
    /\ upd' = [upd EXCEPT ![c] = to]
    /\ UNCHANGED <<u32TransactionId, timerVars, opVars, cpuVars, gipVars>>

Inc(c) == u32TransactionId' = [u32TransactionId EXCEPT ![c] = Wrap(@ + 1)]

(* The transaction is opened; an id that is not odd now is an error.  It   *)
(* is one step with the queuing of the next tick, as nothing but the id is *)
(* looked at or changed in between.                                        *)
Begin(c) ==
    /\ CallbackRearms(c)
    /\ Inc(c)
    /\ upd' = [upd EXCEPT ![c] = IF u32TransactionId'[c] % 2 = 1 THEN "first" ELSE "error"]
    /\ UNCHANGED <<half, gipVars>>

(* supdrvGipDoUpdateCpu, its first word and its last. *)
supdrvGipDoUpdateCpu(c) ==
    \/ Update(c, "first", "last") /\ half' = [half EXCEPT ![c] = TRUE]
    \/ Update(c, "last", "end") /\ half' = [half EXCEPT ![c] = FALSE]

(* The transaction is closed, and the callback is over. *)
End(c) ==
    /\ upd[c] \in {"end", "error"}
    /\ CallbackReturns(c)
    /\ Inc(c)
    /\ upd' = [upd EXCEPT ![c] = "none"]
    /\ UNCHANGED <<half, gipVars>>

-----------------------------------------------------------------------------
(* Sessions, under mtxGip.                                                 *)

(* Mutant: the next run starts with any id. *)
NextRun_Plus1(id) == Wrap(id + 1)

(* The ids go on at a multiple of the interval the frequency is measured   *)
(* over, 2 * GIP_UPDATEHZ_RECALC_FREQ.                                     *)
NextRun(id) == 0

(* Mutant: every new user resumes the updates. *)
FirstUser_Any == TRUE

FirstUser == cGipUsers = 0

(* SUPR0GipMap up to the cross call, for a session that is not a user yet; *)
(* the first user resumes the updates, for the first time if the id of     *)
(* CPU 0 is 2 and not one that has the same residue.                       *)
SUPR0GipMap ==
    /\ mtxGipFree /\ cGipUsers < Sessions
    /\ cGipUsers' = cGipUsers + 1
    /\ IF FirstUser
       THEN /\ \/ u32TransactionId' = [c \in Cpu |-> NextRun(u32TransactionId[c])]
               \/ u32TransactionId[0] = Wrap(2) /\ UNCHANGED u32TransactionId
            /\ gip' = "reinit"
       ELSE UNCHANGED <<u32TransactionId, gip>>
    /\ UNCHANGED <<half, upd, idGipMaster, timerVars, opVars, cpuVars>>

(* supdrvGipReInitCpu, on every CPU (RTMpOnAll) or, if only one is online, *)
(* for the record of CPU 0; then the timer is started.                     *)
ReInitCpus == IF Cardinality(online) = 1 THEN {0} ELSE online

supdrvGipReInitCpu ==
    /\ gip = "reinit" /\ op = "idle" /\ \A c \in online : Interruptible(c)
    /\ half' = [c \in Cpu |-> half[c] /\ c \notin ReInitCpus]
    /\ gip' = "idle"
    /\ RTTimerStart
    /\ UNCHANGED <<u32TransactionId, upd, cGipUsers, idGipMaster, timerVars, cpuVars>>

(* SUPR0GipUnmap, also when supdrvCleanupSession calls it; the last user   *)
(* suspends the updates.                                                   *)
SUPR0GipUnmap ==
    /\ mtxGipFree /\ cGipUsers > 0
    /\ cGipUsers' = cGipUsers - 1
    /\ IF cGipUsers' = 0 THEN RTTimerStop ELSE UNCHANGED <<timerVars, opVars, cpuVars>>
    /\ UNCHANGED <<pageVars, gip, idGipMaster>>

(* supdrvGipDestroy, when no session is left and the driver is unloaded:   *)
(* first the page, ...                                                     *)
supdrvGipTerm ==
    /\ mtxGipFree /\ cGipUsers = 0
    /\ gip' = "term"
    /\ UNCHANGED <<pageVars, cGipUsers, idGipMaster, timerVars, opVars, cpuVars>>

(* ... then the timer. *)
supdrvGipDestroy ==
    /\ gip = "term"
    /\ RTTimerDestroy
    /\ UNCHANGED <<pageVars, gipVars>>

-----------------------------------------------------------------------------
(* The other notification of an OFFLINE event: the master passes its role  *)
(* on.                                                                     *)
supdrvGipMpEvent(c) ==
    idGipMaster' = IF hp' = <<"dying", c>> /\ idGipMaster = c
                   THEN CHOOSE d \in online \ {c} : \A e \in online \ {c} : d <= e
                   ELSE idGipMaster

Timer(A) == A /\ UNCHANGED <<pageVars, gipVars>>

MpEvent(c, A) == A /\ supdrvGipMpEvent(c) /\ UNCHANGED <<pageVars, cGipUsers, gip>>

Hardware(c) ==
    \/ TimerFires(c)
    \/ MpEvent(c, rtTimerLinuxMpEvent_Offline(c)) \/ Timer(DownFailed(c)) \/ Timer(Dead(c)) \/ Timer(Up(c))

Callback(c) ==
    \/ Timer(CallbackChecks(c)) \/ Timer(CallbackQuits(c))
    \/ Begin(c) \/ supdrvGipDoUpdateCpu(c) \/ End(c)

Hotplug(c) == Timer(HotplugStep(c)) \/ MpEvent(c, MpEventCancels(c))

Owner == supdrvGipReInitCpu \/ Timer(OpStep)

Next ==
    \/ \E c \in Cpu : Hardware(c) \/ Callback(c) \/ Hotplug(c)
    \/ SUPR0GipMap \/ SUPR0GipUnmap \/ Owner \/ supdrvGipTerm \/ supdrvGipDestroy

(* Whoever is in a call goes on, and gets the spinlock eventually; what is *)
(* queued fires.                                                           *)
Fairness ==
    /\ SF_vars(Owner)
    /\ \A c \in Cpu : WF_vars(TimerFires(c) \/ Callback(c))
    /\ WF_vars(\E c \in Cpu : Hotplug(c))

Spec == Init /\ [][Next]_vars /\ Fairness

-----------------------------------------------------------------------------
(* The promise of sup.h to everybody who reads the page: an id is odd      *)
(* exactly while an update of its record is in progress.                   *)
OddWhileUpdating ==
    \A c \in Cpu : (u32TransactionId[c] % 2 = 1) <=> (upd[c] \in {"first", "last", "end"})

IdFits(c) == (u32TransactionId[c] % 2 = 1) <=> (upd[c] # "none")

(* An id keeps fitting its record through updates, migrations, hotplug and *)
(* suspensions: the one step that can turn it round is the rounding for    *)
(* the first user, when an update from before the suspension is not over.  *)
IdsKeepFitting ==
    [][\A c \in Cpu : IdFits(c) =>
          \/ IdFits(c)'
          \/ upd[c] # "none" /\ cGipUsers = 0 /\ cGipUsers' = 1]_vars

(* While the page is in use, a record whose id fits can be read without a  *)
(* lock: its words change only while the id is odd, and the id changes     *)
(* only when an update begins or ends; so a reader that finds the same     *)
(* even id before and after has read one record.                           *)
ReadersAreSafe ==
    [][\A c \in Cpu : cGipUsers > 0 /\ gip = "idle" /\ IdFits(c) =>
          /\ half'[c] # half[c] =>
                u32TransactionId[c] % 2 = 1 /\ u32TransactionId'[c] = u32TransactionId[c]
          /\ u32TransactionId'[c] # u32TransactionId[c] =>
                /\ u32TransactionId'[c] = Wrap(u32TransactionId[c] + 1)
                /\ (upd[c] = "none") # (upd'[c] = "none")]_vars

(* A call that starts or stops the updates returns.                        *)
CallsReturn == gip = "reinit" \/ op \notin {"idle", "freed"} ~> mtxGipFree
=============================================================================
