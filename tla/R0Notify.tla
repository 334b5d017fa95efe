------------------------------ MODULE R0Notify ------------------------------
(***************************************************************************)
(* Ring-0 notifications: src/r0drv/mpnotification-r0drv.c, and the start   *)
(* and stop of the runtime that owns them, src/r0drv/initterm-r0drv.c.     *)
(*                                                                         *)
(* src/r0drv/powernotification-r0drv.c has the same list, walk and calls.  *)
(* It differs where an event comes from, and so in what keeps events away  *)
(* from the end: nothing in the file ("@todo OS specific term here").  The *)
(* driver does that, which unregisters the device whose suspend and resume *)
(* signal them before it terminates the runtime.  NativeTerm is the MP     *)
(* file's alone.                                                           *)
(*                                                                         *)
(* Clients register callbacks in a list.  An event walks the list and      *)
(* calls each of them with the spinlock dropped, so that the list may      *)
(* change under the walk and events may overlap.  Each event has a bit in  *)
(* the bmDone mask of every record: set when the record has been called.   *)
(* A generation tells a walker that the list changed while a callback ran, *)
(* and sends it back to the head.  Only "has it changed since I looked?"   *)
(* is asked of the generation, so that is what a walker keeps here.        *)
(*                                                                         *)
(* One critical section of the spinlock is one action.                     *)
(***************************************************************************)
EXTENDS Naturals, Sequences, SequencesExt

CONSTANTS
    Event,       \* contexts that deliver events, one event at a time each
    Client,      \* threads that register and deregister
    MaxUsers,    \* bound: modules that share the runtime
    Key,         \* what identifies a callback: pfnCallback and pvUser
    Rec,         \* memory for records
    Bits,        \* bits of bmDone
    Serialised,  \* clients do not make overlapping calls for one key
    NONE

ASSUME NotifyAssumption ==
    /\ Bits \in Nat \ {0} /\ MaxUsers \in Nat /\ Serialised \in BOOLEAN
    /\ NONE \notin Rec \cup Key

VARIABLES
    crtR0Users,  \* how many modules use the runtime
    native,      \* is the native notifier registered?
    hSpinlock,   \* is g_hRTMpNotifySpinLock a spinlock?
    list,        \* the records from g_pRTMpCallbackHead on
    key,         \* what a record is for, NONE when it is free memory
    bmDone,      \* the bits set in a record
    iDoneBit,    \* g_iRTMpDoneBit modulo Bits
    pc, iDone, pCur, changed,     \* an event's locals; changed: the list is
                                  \* not of the generation it has read
    target,      \* the callback an event has picked: its copy of the key
    cpc, what, rec,               \* a client's pc, key and record
    owed, told   \* history: who an event has still to tell, has told

lists == <<list, key, bmDone>>
walks == <<pc, iDone, pCur, changed, target, owed, told>>
calls == <<cpc, what, rec>>
vars  == <<crtR0Users, native, hSpinlock, list, key, bmDone, iDoneBit, walks, calls>>

AllBits == 0 .. Bits - 1

TypeOK ==
    /\ crtR0Users \in 0 .. MaxUsers /\ native \in BOOLEAN /\ hSpinlock \in BOOLEAN
    /\ list \in Seq(Rec)
    /\ key \in [Rec -> Key \cup {NONE}]
    /\ bmDone \in [Rec -> SUBSET AllBits]
    /\ iDoneBit \in AllBits
    /\ pc \in [Event -> {"idle", "enter", "call", "reenter"}]
    /\ iDone \in [Event -> AllBits]
    /\ pCur \in [Event -> Rec \cup {NONE}]
    /\ changed \in [Event -> BOOLEAN]
    /\ target \in [Event -> Key \cup {NONE}]
    /\ cpc \in [Client -> {"idle", "insert", "duplicate", "free"}]
    /\ what \in [Client -> Key \cup {NONE}]
    /\ rec \in [Client -> Rec \cup {NONE}]
    /\ owed \in [Event -> SUBSET Key]
    /\ told \in [Event -> SUBSET Key]

Init ==
    /\ crtR0Users = 0 /\ native = FALSE /\ hSpinlock = FALSE
    /\ list = <<>>
    /\ key = [r \in Rec |-> NONE]
    /\ bmDone = [r \in Rec |-> {}]
    /\ iDoneBit = 0
    /\ pc = [e \in Event |-> "idle"]
    /\ iDone = [e \in Event |-> 0]
    /\ pCur = [e \in Event |-> NONE]
    /\ changed = [e \in Event |-> FALSE]
    /\ target = [e \in Event |-> NONE]
    /\ cpc = [c \in Client |-> "idle"]
    /\ what = [c \in Client |-> NONE]
    /\ rec = [c \in Client |-> NONE]
    /\ owed = [e \in Event |-> {}]
    /\ told = [e \in Event |-> {}]

-----------------------------------------------------------------------------
(* RTR0Init and RTR0Term. *)

(* The first user creates the spinlock and registers the native notifier.  *)
(* If that fails the module does not load, and the runtime goes with it.   *)
R0Init ==
    /\ crtR0Users < MaxUsers
    /\ crtR0Users' = crtR0Users + 1
    /\ IF crtR0Users = 0 THEN native' = TRUE /\ hSpinlock' = TRUE
                         ELSE UNCHANGED <<native, hSpinlock>>
    /\ UNCHANGED <<lists, iDoneBit, walks, calls>>

(* A user that is not the last. *)
R0Leave ==
    /\ crtR0Users > 1
    /\ crtR0Users' = crtR0Users - 1
    /\ UNCHANGED <<native, hSpinlock, lists, iDoneBit, walks, calls>>

(* Mutant: the generation is not counted. *)
SameGeneration == UNCHANGED changed

(* The list is of a new generation for every event that has read one. *)
NewGeneration == changed' = [e \in Event |-> pc[e] \in {"call", "reenter"}]

(* Assumed: nobody is in a call any more when the last user leaves.        *)
ClientsIdle == \A c \in Client : cpc[c] = "idle"

(* Mutant: the native notifier is unregistered without waiting for a       *)
(* notification in progress.                                               *)
NativeTermAtOnce ==
    /\ crtR0Users = 1 /\ native /\ ClientsIdle
    /\ native' = FALSE
    /\ UNCHANGED <<crtR0Users, hSpinlock, lists, iDoneBit, walks, calls>>

(* The last user: rtR0MpNotificationTerm first unregisters the native      *)
(* notifier, and unregister_cpu_notifier waits for those in progress.      *)
NativeTerm ==
    /\ crtR0Users = 1 /\ native /\ ClientsIdle
    /\ \A e \in Event : pc[e] = "idle"
    /\ native' = FALSE
    /\ UNCHANGED <<crtR0Users, hSpinlock, lists, iDoneBit, walks, calls>>

(* The rest of it: take the list and the spinlock, and free both.          *)
NotificationTerm ==
    /\ crtR0Users = 1 /\ ~native
    /\ crtR0Users' = 0 /\ hSpinlock' = FALSE
    /\ list' = <<>>
    /\ key' = [r \in Rec |-> IF r \in ToSet(list) THEN NONE ELSE key[r]]
    /\ bmDone' = [r \in Rec |-> IF r \in ToSet(list) THEN {} ELSE bmDone[r]]
    /\ NewGeneration
    /\ owed' = [e \in Event |-> {}]
    /\ UNCHANGED <<native, iDoneBit, pc, iDone, pCur, target, told, calls>>

-----------------------------------------------------------------------------
(* rtMpNotificationDoCallbacks and RTPowerSignalEvent. *)

(* The event is over; its locals go. *)
Over(e) ==
    /\ pc'      = [pc EXCEPT ![e] = "idle"]
    /\ iDone'   = [iDone EXCEPT ![e] = 0]
    /\ pCur'    = [pCur EXCEPT ![e] = NONE]
    /\ changed' = [changed EXCEPT ![e] = FALSE]
    /\ target'  = [target EXCEPT ![e] = NONE]
    /\ told'    = [told EXCEPT ![e] = {}]

(* The native code delivers an event, which takes the next bit and reads   *)
(* the handle of the spinlock.  "A reasonable amount of concurrent         *)
(* events": fewer than there are bits, so that nobody uses this one.       *)
Begin(e) ==
    /\ native /\ pc[e] = "idle"
    /\ LET bit == (iDoneBit + 1) % Bits
       IN  /\ \A f \in Event : pc[f] # "idle" => iDone[f] # bit
           /\ iDoneBit' = bit
           /\ iDone' = [iDone EXCEPT ![e] = bit]
    /\ hSpinlock /\ pc' = [pc EXCEPT ![e] = "enter"]
    /\ UNCHANGED <<crtR0Users, native, hSpinlock, lists, pCur, changed, target, owed, told, calls>>

(* The records from p on, none if p is NULL. *)
From(p) ==
    LET i == SelectInSeq(list, LAMBDA r : r = p)
    IN  IF i = 0 THEN <<>> ELSE SubSeq(list, i, Len(list))

(* Walk the records of todo up to the first one without the event's bit,   *)
(* which is set: that one is called next, and pCur is what comes after it. *)
(* done tells which bits are set as the walk begins.                       *)
Walk(e, todo, done) ==
    LET Open == {i \in DOMAIN todo : iDone[e] \notin done[todo[i]]}
    IN  IF Open = {}
        THEN Over(e) /\ bmDone' = done
        ELSE LET i == CHOOSE j \in Open : \A k \in Open : j <= k
             IN  /\ pc' = [pc EXCEPT ![e] = "call"]
                 /\ changed' = [changed EXCEPT ![e] = FALSE]
                 /\ bmDone' = [done EXCEPT ![todo[i]] = @ \cup {iDone[e]}]
                 /\ target' = [target EXCEPT ![e] = key[todo[i]]]
                 /\ pCur' = [pCur EXCEPT ![e] = IF i = Len(todo) THEN NONE ELSE todo[i + 1]]
                 /\ UNCHANGED <<iDone, told>>

(* Mutant: the event's bit is left as the event before it had set it. *)
ClearedNot(bit) == bmDone

(* Clear the event's bit in all records. *)
Cleared(bit) ==
    [r \in Rec |-> IF r \in ToSet(list) THEN bmDone[r] \ {bit} ELSE bmDone[r]]

(* With the lock: clear the bits, read the generation and walk. *)
Enter(e) ==
    /\ pc[e] = "enter"
    /\ owed' = [owed EXCEPT ![e] = {key[r] : r \in ToSet(list)}]
    /\ Walk(e, list, Cleared(iDone[e]))
    /\ UNCHANGED <<crtR0Users, native, hSpinlock, list, key, iDoneBit, calls>>

(* The callback, without the lock, and the handle read again after it; the *)
(* record may have gone meanwhile, and with the spinlock the event is over.*)
Call(e) ==
    /\ pc[e] = "call"
    /\ owed' = [owed EXCEPT ![e] = @ \ {target[e]}]
    /\ IF hSpinlock
       THEN /\ pc' = [pc EXCEPT ![e] = "reenter"]
            /\ told' = [told EXCEPT ![e] = @ \cup {target[e]}]
            /\ target' = [target EXCEPT ![e] = NONE]
            /\ UNCHANGED <<iDone, pCur, changed>>
       ELSE Over(e)
    /\ UNCHANGED <<crtR0Users, native, hSpinlock, lists, iDoneBit, calls>>

(* Mutant: the walk goes on where it was, whatever the generation says. *)
ResumeWhere(e) == From(pCur[e])

(* Where the walk goes on: at pCur if the list is as it was; at its head   *)
(* if it has changed, unless pCur is NULL: then all have been visited.     *)
Resume(e) == IF changed[e] /\ pCur[e] # NONE THEN list ELSE From(pCur[e])

(* The lock again after a callback. *)
Reenter(e) ==
    /\ pc[e] = "reenter"
    /\ Walk(e, Resume(e), bmDone)
    /\ UNCHANGED <<crtR0Users, native, hSpinlock, list, key, iDoneBit, owed, calls>>

-----------------------------------------------------------------------------
(* RTMpNotificationRegister and RTMpNotificationDeregister. *)

For(k) == SelectInSeq(list, LAMBDA r : key[r] = k)      \* 0 if there is none

MayCall(c, k) ==
    /\ native /\ cpc[c] = "idle"
    /\ Serialised => \A d \in Client : what[d] # k

SetClient(c, l, k, r) ==
    /\ cpc'  = [cpc EXCEPT ![c] = l]
    /\ what' = [what EXCEPT ![c] = k]
    /\ rec'  = [rec EXCEPT ![c] = r]

ClientReturns(c) == SetClient(c, "idle", NONE, NONE)

(* Not there yet: drop the lock to allocate a record. *)
Register(c, k) ==
    /\ MayCall(c, k) /\ For(k) = 0
    /\ SetClient(c, "insert", k, NONE)
    /\ UNCHANGED <<crtR0Users, native, hSpinlock, lists, iDoneBit, walks>>

NoMemory(c) ==
    /\ cpc[c] = "insert"
    /\ ClientReturns(c)
    /\ UNCHANGED <<crtR0Users, native, hSpinlock, lists, iDoneBit, walks>>

(* Mutant: a new record still has to be called by the events in progress. *)
NoneDone == {}

(* A new record counts as called by every event in progress. *)
NewDone == AllBits

(* RTMemAlloc; no two addresses are ever compared, so which one it returns *)
(* does not matter.                                                        *)
FreshRec == CHOOSE r \in Rec : key[r] = NONE

(* Append the record; if the key is there now, the record found is what    *)
(* the code frees, and the new one is lost.                                *)
Insert(c) ==
    /\ cpc[c] = "insert"
    /\ \E r \in Rec : key[r] = NONE
    /\ LET r == FreshRec
       IN /\ key' = [key EXCEPT ![r] = what[c]]
          /\ bmDone' = [bmDone EXCEPT ![r] = NewDone]
          /\ LET i == For(what[c])
             IN  IF i = 0
                 THEN list' = Append(list, r) /\ ClientReturns(c)
                 ELSE UNCHANGED list /\ SetClient(c, "duplicate", what[c], list[i])
    /\ NewGeneration
    /\ UNCHANGED <<crtR0Users, native, hSpinlock, iDoneBit, pc, iDone, pCur, target, owed, told>>

(* Unlink the record. *)
Deregister(c, k) ==
    /\ MayCall(c, k)
    /\ LET i == For(k)
       IN  /\ i # 0
           /\ list' = RemoveAt(list, i)
           /\ SetClient(c, "free", k, list[i])
           /\ owed' = [e \in Event |-> owed[e] \ {k}]
    /\ NewGeneration
    /\ UNCHANGED <<crtR0Users, native, hSpinlock, key, bmDone, iDoneBit, pc, iDone, pCur, target, told>>

(* Free the record, after Deregister or as a duplicate. *)
Free(c) ==
    /\ cpc[c] \in {"free", "duplicate"}
    /\ key' = [key EXCEPT ![rec[c]] = NONE]
    /\ bmDone' = [bmDone EXCEPT ![rec[c]] = {}]
    /\ ClientReturns(c)
    /\ UNCHANGED <<crtR0Users, native, hSpinlock, list, iDoneBit, walks>>

-----------------------------------------------------------------------------
Deliver(e) == Enter(e) \/ Call(e) \/ Reenter(e)

Next ==
    \/ R0Init \/ R0Leave \/ NativeTerm \/ NotificationTerm
    \/ \E e \in Event : Begin(e) \/ Deliver(e)
    \/ \E c \in Client :
        \/ NoMemory(c) \/ Insert(c) \/ Free(c)
        \/ \E k \in Key : Register(c, k) \/ Deregister(c, k)

Spec == Init /\ [][Next]_vars

-----------------------------------------------------------------------------
(* Properties. *)

(* When an event is over, every callback that was registered as it began   *)
(* and still is has been called, and none is about to be called a second   *)
(* time: although the list changes between any two callbacks, which sends  *)
(* the walk back to its head, and other events set and clear bits.  As the *)
(* keys are finite, every event also ends.                                 *)
EveryoneOnce ==
    \A e \in Event :
        /\ pc[e] = "idle" => owed[e] = {}
        /\ pc[e] = "call" => target[e] \notin told[e]

(* What an event is about to touch is there: the list holds memory in use, *)
(* a cursor that will be followed is in the list, and the spinlock it is   *)
(* about to take still exists: of MP events, as NativeTerm waits for them. *)
NothingDangles ==
    /\ \A i \in DOMAIN list : key[list[i]] # NONE
    /\ IsInjective(list)
    /\ \A e \in Event :
        /\ pc[e] \in {"call", "reenter"} /\ ~changed[e] /\ pCur[e] # NONE
              => pCur[e] \in ToSet(list)
        /\ pc[e] \in {"enter", "reenter"} => hSpinlock
=============================================================================
