-------------------------- MODULE SUPDrvSem_proofs --------------------------
(***************************************************************************)
(* Proofs about SUPDrvSem, for any number of threads, semaphores and       *)
(* handles: no wake-up is lost, references balance, a semaphore is         *)
(* destroyed only when nobody uses it, and its memory is there for every   *)
(* call that works on it.                                                  *)
(*                                                                         *)
(* A reference is a handle or a debt of a call.  Every step moves one from *)
(* the one to the other, or changes their number and the registry's count  *)
(* by the same; so when the count reaches zero there is neither handle nor *)
(* call, and who waits is in a call.                                       *)
(***************************************************************************)
EXTENDS SUPDrvSem, FiniteSetTheorems, SequenceTheorems, TLAPS

(* What the steps below need to know of the types: a thread in a call has  *)
(* a semaphore, and handles name semaphores.                               *)
Busy == Inside \cup {"alloc", "release", "destroy"}

Typed ==
    /\ fState \in [Sem -> BOOLEAN] /\ Queue \in [Sem -> SUBSET Thread]
    /\ asleep \in [Thread -> BOOLEAN]
    /\ pc \in [Thread -> Busy \cup {"idle"}] /\ ob \in [Thread -> Sem \cup {NIL}]
    /\ \A t \in Thread : pc[t] \in Busy => ob[t] \in Sem
    /\ \A h \in DOMAIN map : map[h][1] \in Sem

(* Whoever has looked at the state and is about to sleep is on the queue,  *)
(* or is awake already.                                                    *)
SleepersQueue ==
    \A t \in Thread : pc[t] \in {"check", "schedule"} /\ asleep[t] => t \in Queue[ob[t]]

SleepInv == Typed /\ SleepersQueue /\ NoSleeperForgotten

-----------------------------------------------------------------------------
(* A call that starts leaves the semaphores as they are.                   *)
LEMMA StartOfCall ==
    ASSUME SleepInv, NEW t \in Thread, NEW l \in {"alloc", "release", "signal", "reset", "wait"},
           NEW s \in Sem, NEW n, pc[t] = "idle", Enter(t, l, s, n),
           UNCHANGED <<fState, Queue, asleep>>,
           \A h \in DOMAIN map' : h \in DOMAIN map /\ map'[h] = map[h]
    PROVE  SleepInv'
  <1>1. Typed'
    BY DEF SleepInv, Typed, Enter, Busy, Inside, Waiting
  <1>2. SleepersQueue'
    BY DEF SleepInv, Typed, SleepersQueue, Enter
  <1>3. NoSleeperForgotten'
    BY DEF SleepInv, Typed, NoSleeperForgotten, Enter
  <1>. QED BY <1>1, <1>2, <1>3 DEF SleepInv

LEMMA RequestKeeps ==
    ASSUME SleepInv, NEW t \in Thread, Request(t)
    PROVE  SleepInv'
  <1>. USE DEF waitVars, semVars, tabVars
  <1>1. ASSUME NEW s \in Sem, SUPSemEventCreate(t, s) \/ SUPSemEventMultiCreate(t, s)
        PROVE  SleepInv'
    <2>1. /\ pc[t] = "idle" /\ Enter(t, "alloc", s, 1)
          /\ UNCHANGED <<fState, Queue, asleep, map>>
      BY <1>1 DEF SUPSemEventCreate, SUPSemEventMultiCreate, RTSemEventCreate,
         RTSemEventMultiCreate, RTSemCreate, SemCreate
    <2>. QED BY <2>1, StartOfCall
  <1>2. ASSUME NEW h \in DOMAIN map, SUPSemEventClose(t, h) \/ SUPSemEventMultiClose(t, h)
        PROVE  SleepInv'
    <2>1. /\ pc[t] = "idle" /\ Enter(t, "release", map[h][1], 2)
          /\ UNCHANGED <<fState, Queue, asleep>>
          /\ map' = [g \in DOMAIN map \ {h} |-> map[g]]
      BY <1>2 DEF SUPSemEventClose, SUPSemEventMultiClose, Close, Table!Free
    <2>2. map[h][1] \in Sem
      BY <1>2 DEF SleepInv, Typed
    <2>. QED BY <2>1, <2>2, StartOfCall
  <1>3. ASSUME NEW h \in DOMAIN map, NEW k, NEW l \in {"signal", "reset", "wait"},
               Lookup(t, h, k, l), UNCHANGED asleep
        PROVE  SleepInv'
    <2>1. /\ pc[t] = "idle" /\ Enter(t, l, map[h][1], 1)
          /\ UNCHANGED <<fState, Queue, asleep, map>>
      BY <1>3 DEF Lookup
    <2>2. map[h][1] \in Sem
      BY <1>3 DEF SleepInv, Typed
    <2>. QED BY <2>1, <2>2, StartOfCall
  <1>. QED BY <1>1, <1>2, <1>3 DEF Request, SUPSemEventSignal, SUPSemEventMultiSignal,
       SUPSemEventMultiReset, SUPSemEventWait, SUPSemEventWaitNoResume, SUPSemEventMultiWait,
       SUPSemEventMultiWaitNoResume, WaitFor

-----------------------------------------------------------------------------
(* The end of a call: no semaphore changes, and the thread does not sleep. *)
LEMMA EndOfCall ==
    ASSUME SleepInv, NEW t \in Thread, pc[t] \in {"alloc", "release"},
           pc' = [pc EXCEPT ![t] = pc'[t]], ob' = [ob EXCEPT ![t] = ob'[t]],
           \/ pc'[t] \in {"release", "destroy"} /\ ob'[t] = ob[t]
           \/ pc'[t] = "idle" /\ ob'[t] \in {ob[t], NIL},
           UNCHANGED <<fState, Queue, asleep>>,
           \A h \in DOMAIN map' : map'[h][1] \in Sem
    PROVE  SleepInv'
  <1>1. Typed'
    BY DEF SleepInv, Typed, Busy, Inside, Waiting
  <1>2. SleepersQueue'
    BY DEF SleepInv, Typed, SleepersQueue
  <1>3. NoSleeperForgotten'
    BY DEF SleepInv, Typed, NoSleeperForgotten
  <1>. QED BY <1>1, <1>2, <1>3 DEF SleepInv

(* A thread that may run touches one semaphore: it consumes or resets its  *)
(* state, or queues for it, and goes on, not to sleep on a signalled one.  *)
LEMMA TouchOne ==
    ASSUME SleepInv, NEW t \in Thread, pc[t] \in Inside, pc[t] # "wake",
           NEW s \in Sem, s = ob[t], NEW f \in BOOLEAN, NEW q \in SUBSET Thread, NEW a \in BOOLEAN,
           NEW l \in Inside \cup {"release"},
           Goto(t, l), UNCHANGED map,
           fState' = [fState EXCEPT ![s] = f], f => fState[s] \/ l = "wake",
           Queue' = [Queue EXCEPT ![s] = q], Queue[s] \ {t} \subseteq q,
           asleep' = [asleep EXCEPT ![t] = a],
           l \in {"check", "schedule"} /\ a => t \in q,
           l = "schedule" => ~f
    PROVE  SleepInv'
  <1>1. Typed'
    BY DEF SleepInv, Typed, Goto, Busy, Inside, Waiting
  <1>2. SleepersQueue'
    BY DEF SleepInv, Typed, SleepersQueue, Goto, Busy
  <1>3. NoSleeperForgotten'
    <2>. SUFFICES ASSUME NEW u \in Thread, (pc[u] = "schedule" /\ asleep[u] /\ fState[ob[u]])'
                  PROVE  (\E v \in Thread : pc[v] = "wake" /\ ob[v] = ob[u])'
      BY DEF NoSleeperForgotten
    <2>1. u # t /\ pc[u] = "schedule" /\ asleep[u] /\ ob'[u] = ob[u] /\ ob[u] \in Sem
      BY DEF SleepInv, Typed, Goto, Busy, Inside, Waiting
    <2>2. CASE fState[ob[u]]
      BY <2>1, <2>2 DEF SleepInv, Typed, NoSleeperForgotten, Goto
    <2>3. CASE ~fState[ob[u]]
      <3>1. ob[u] = s /\ l = "wake"
        BY <2>1, <2>3 DEF SleepInv, Typed
      <3>. QED BY <2>1, <3>1 DEF SleepInv, Typed, Goto
    <2>. QED BY <2>2, <2>3
  <1>. QED BY <1>1, <1>2, <1>3 DEF SleepInv

(* A call wakes all waiters of a semaphore, or destroys it; then nobody    *)
(* sleeps on it any more.                                                  *)
LEMMA WakeAll ==
    ASSUME SleepInv, NEW t \in Thread, pc[t] \in {"wake", "destroy"},
           NEW s \in Sem, s = ob[t],
           asleep' = [u \in Thread |-> asleep[u] /\ u \notin Queue[s]],
           Queue' = [Queue EXCEPT ![s] = {}],
           \/ fState' = fState
           \/ fState' = [fState EXCEPT ![s] = FALSE],
           \/ Goto(t, "release")
           \/ Enter(t, "idle", NIL, 0),
           UNCHANGED map
    PROVE  SleepInv'
  <1>0. /\ \A u \in Thread : u # t => pc'[u] = pc[u] /\ ob'[u] = ob[u]
        /\ pc'[t] \notin {"check", "schedule"}
        /\ \A u \in Thread : asleep'[u] => asleep[u] /\ u \notin Queue[s]
    BY DEF SleepInv, Typed, Goto, Enter, Busy, Inside, Waiting
  <1>a. \A u \in Thread : pc[u] \in {"check", "schedule"} => ob[u] \in Sem
    BY DEF SleepInv, Typed, Busy, Inside, Waiting
  <1>1. Typed'
    <2>1. /\ (fState \in [Sem -> BOOLEAN])' /\ (Queue \in [Sem -> SUBSET Thread])'
          /\ (asleep \in [Thread -> BOOLEAN])'
          /\ (\A h \in DOMAIN map : map[h][1] \in Sem)'
      BY DEF SleepInv, Typed
    <2>2. /\ (pc \in [Thread -> Busy \cup {"idle"}])' /\ (ob \in [Thread -> Sem \cup {NIL}])'
          /\ (\A u \in Thread : pc[u] \in Busy => ob[u] \in Sem)'
      BY DEF SleepInv, Typed, Goto, Enter, Busy, Inside, Waiting
    <2>. QED BY <2>1, <2>2 DEF Typed
  <1>2. SleepersQueue'
    <2>. SUFFICES ASSUME NEW u \in Thread, (pc[u] \in {"check", "schedule"} /\ asleep[u])'
                  PROVE  (u \in Queue[ob[u]])'
      BY DEF SleepersQueue
    <2>1. /\ u # t /\ pc[u] \in {"check", "schedule"} /\ asleep[u] /\ u \notin Queue[s]
          /\ ob'[u] = ob[u] /\ ob[u] \in Sem
      BY <1>0, <1>a
    <2>2. u \in Queue[ob[u]] /\ ob[u] # s
      BY <2>1 DEF SleepInv, SleepersQueue
    <2>. QED BY <2>1, <2>2 DEF SleepInv, Typed
  <1>3. NoSleeperForgotten'
    <2>. SUFFICES ASSUME NEW u \in Thread, (pc[u] = "schedule" /\ asleep[u] /\ fState[ob[u]])'
                  PROVE  (\E v \in Thread : pc[v] = "wake" /\ ob[v] = ob[u])'
      BY DEF NoSleeperForgotten
    <2>1. /\ u # t /\ pc[u] = "schedule" /\ asleep[u] /\ u \notin Queue[s]
          /\ ob'[u] = ob[u] /\ ob[u] \in Sem
      BY <1>0, <1>a
    <2>2. ob[u] # s
      BY <2>1 DEF SleepInv, SleepersQueue
    <2>3. fState[ob[u]]
      BY <2>1, <2>2 DEF SleepInv, Typed
    <2>4. PICK v \in Thread : pc[v] = "wake" /\ ob[v] = ob[u]
      BY <2>1, <2>3 DEF SleepInv, NoSleeperForgotten
    <2>5. v # t
      BY <2>2, <2>4
    <2>. QED BY <2>4, <2>5, <2>1 DEF SleepInv, Typed, Goto, Enter
  <1>. QED BY <1>1, <1>2, <1>3 DEF SleepInv

LEMMA StepKeeps ==
    ASSUME SleepInv, NEW t \in Thread, Step(t)
    PROVE  SleepInv'
  <1>. USE DEF waitVars, semVars, tabVars
  <1>0. pc[t] \in Busy => ob[t] \in Sem
    BY DEF SleepInv, Typed
  <1>1. CASE AllocHandle(t)
    <2>1. ob[t] \in Sem
      BY <1>0, <1>1 DEF AllocHandle, Busy
    <2>2. PICK x : map' = [h \in DOMAIN map \cup {x} |->
                              IF h = x THEN <<ob[t], kind[ob[t]]>> ELSE map[h]]
      BY <1>1, ZenonT(30) DEF AllocHandle, Table!Alloc
    <2>3. \A h \in DOMAIN map' : map'[h][1] \in Sem
      BY <2>1, <2>2 DEF SleepInv, Typed
    <2>4. pc[t] = "alloc" /\ Enter(t, "idle", NIL, 0) /\ UNCHANGED <<fState, Queue, asleep>>
      BY <1>1 DEF AllocHandle
    <2>5. /\ pc' = [pc EXCEPT ![t] = pc'[t]] /\ ob' = [ob EXCEPT ![t] = ob'[t]]
          /\ pc'[t] = "idle" /\ ob'[t] = NIL
      BY <2>4 DEF Enter, SleepInv, Typed
    <2>. QED BY <2>3, <2>4, <2>5, EndOfCall
  <1>2. CASE AllocHandleFails(t)
    <2>1. pc[t] = "alloc" /\ Goto(t, "release") /\ UNCHANGED <<fState, Queue, asleep, map>>
      BY <1>2 DEF AllocHandleFails
    <2>2. pc' = [pc EXCEPT ![t] = pc'[t]] /\ ob' = [ob EXCEPT ![t] = ob'[t]]
          /\ pc'[t] = "release" /\ ob'[t] = ob[t]
      BY <2>1 DEF Goto, SleepInv, Typed
    <2>. QED BY <2>1, <2>2, EndOfCall DEF SleepInv, Typed
  <1>3. CASE Release(t)
    <2>1. /\ pc[t] = "release" /\ UNCHANGED <<fState, Queue, asleep, map>>
          /\ pc' = [pc EXCEPT ![t] = pc'[t]] /\ ob' = [ob EXCEPT ![t] = ob'[t]]
          /\ \/ pc'[t] \in {"release", "destroy"} /\ ob'[t] = ob[t]
             \/ pc'[t] = "idle" /\ ob'[t] \in {ob[t], NIL}
      BY <1>3 DEF Release, Enter, SleepInv, Typed
    <2>. QED BY <2>1, EndOfCall DEF SleepInv, Typed
  <1>4. CASE WakeUp(t) \/ RTSemEventDestroy(t) \/ RTSemEventMultiDestroy(t)
    <2>1. pc[t] \in {"wake", "destroy"} /\ ob[t] \in Sem
      BY <1>0, <1>4 DEF WakeUp, RTSemEventDestroy, RTSemEventMultiDestroy, Destroy, Busy, Inside
    <2>. QED BY <1>4, <2>1, WakeAll DEF WakeUp, RTSemEventDestroy, RTSemEventMultiDestroy, Destroy
  <1>. DEFINE Touch(f, q, a, l) ==
         /\ Goto(t, l) /\ fState' = [fState EXCEPT ![ob[t]] = f]
         /\ Queue' = [Queue EXCEPT ![ob[t]] = q] /\ asleep' = [asleep EXCEPT ![t] = a]
         /\ UNCHANGED map
  <1>5. ASSUME pc[t] \in Inside, pc[t] # "wake",
               NEW f \in BOOLEAN, NEW q \in SUBSET Thread, NEW a \in BOOLEAN,
               NEW l \in Inside \cup {"release"}, Touch(f, q, a, l),
               f => fState[ob[t]] \/ l = "wake", Queue[ob[t]] \ {t} \subseteq q,
               l \in {"check", "schedule"} /\ a => t \in q, l = "schedule" => ~f
        PROVE  SleepInv'
    BY <1>0, <1>5, TouchOne DEF Busy
  <1>6. ASSUME pc[t] \in Inside
        PROVE  /\ fState[ob[t]] \in BOOLEAN /\ fState = [fState EXCEPT ![ob[t]] = fState[ob[t]]]
               /\ Queue[ob[t]] \in SUBSET Thread /\ Queue = [Queue EXCEPT ![ob[t]] = Queue[ob[t]]]
               /\ asleep[t] \in BOOLEAN /\ asleep = [asleep EXCEPT ![t] = asleep[t]]
    BY <1>0, <1>6 DEF SleepInv, Typed, Busy
  <1>7. CASE RTSemEventSignal(t) \/ RTSemEventMultiSignal(t)
    <2>1. pc[t] = "signal"
      BY <1>7 DEF RTSemEventSignal, RTSemEventMultiSignal, SetSignalled
    <2>2. PICK f \in BOOLEAN : Touch(f, Queue[ob[t]], asleep[t], "wake")
      BY <1>6, <1>7, <2>1 DEF RTSemEventSignal, RTSemEventMultiSignal, SetSignalled, Inside
    <2>. HIDE DEF Touch
    <2>3. /\ Queue[ob[t]] \in SUBSET Thread /\ Queue[ob[t]] \ {t} \subseteq Queue[ob[t]]
          /\ asleep[t] \in BOOLEAN /\ pc[t] \in Inside /\ "wake" \in Inside \cup {"release"}
      BY <1>6, <2>1 DEF Inside
    <2>. QED BY <1>5, <2>1, <2>2, <2>3
  <1>8. CASE RTSemEventMultiReset(t)
    <2>1. pc[t] = "reset" /\ Touch(FALSE, Queue[ob[t]], asleep[t], "release")
      BY <1>6, <1>8 DEF RTSemEventMultiReset, Inside
    <2>. HIDE DEF Touch
    <2>. QED BY <1>5, <1>6, <2>1 DEF Inside
  <1>9. CASE RTSemEventWait(t) \/ RTSemEventMultiWait(t)
             \/ RTSemEventWaitNoResume(t) \/ RTSemEventMultiWaitNoResume(t)
    <2>1. pc[t] = "wait" /\ pc[t] \in Inside
      BY <1>9 DEF RTSemEventWait, RTSemEventMultiWait, RTSemEventWaitNoResume,
         RTSemEventMultiWaitNoResume, Poll, Inside
    <2>2. \E f \in BOOLEAN, l \in {"release", "prepare"} :
             Touch(f, Queue[ob[t]], asleep[t], l) /\ (f => fState[ob[t]])
      <3>1. CASE fState[ob[t]]
        <4>1. Touch(kind[ob[t]] = "EVENT_MULTI", Queue[ob[t]], asleep[t], "release")
          BY <1>6, <1>9, <2>1, <3>1 DEF RTSemEventWait, RTSemEventMultiWait,
             RTSemEventWaitNoResume, RTSemEventMultiWaitNoResume, Poll, Taken
        <4>. HIDE DEF Touch
        <4>. QED BY <3>1, <4>1
      <3>2. CASE ~fState[ob[t]]
        <4>1. Touch(fState[ob[t]], Queue[ob[t]], asleep[t], "prepare")
          BY <1>6, <1>9, <2>1, <3>2 DEF RTSemEventWait, RTSemEventMultiWait,
             RTSemEventWaitNoResume, RTSemEventMultiWaitNoResume, Poll
        <4>. HIDE DEF Touch
        <4>. QED BY <1>6, <2>1, <4>1
      <3>. QED BY <3>1, <3>2
    <2>. HIDE DEF Touch
    <2>. QED BY <1>5, <1>6, <2>1, <2>2 DEF Inside, Waiting
  <1>10. CASE PrepareToWait(t)
    <2>. DEFINE q == Queue[ob[t]] \cup {t}
    <2>1. pc[t] = "prepare" /\ Touch(fState[ob[t]], q, TRUE, "check")
      BY <1>6, <1>10 DEF PrepareToWait, Inside, Waiting
    <2>2. q \in SUBSET Thread /\ Queue[ob[t]] \ {t} \subseteq q /\ t \in q
      BY <1>6, <2>1 DEF Inside, Waiting
    <2>. HIDE DEF Touch, q
    <2>. QED BY <1>5, <1>6, <2>1, <2>2 DEF Inside, Waiting
  <1>11. CASE rtSemEventWait(t) \/ rtSemEventMultiWait(t)
    <2>1. /\ pc[t] = "check"
          /\ \E f \in BOOLEAN, l \in {"finish", "schedule"} :
                /\ Touch(f, Queue[ob[t]], asleep[t], l)
                /\ f => fState[ob[t]]
                /\ l = "schedule" => ~f
      BY <1>6, <1>11 DEF rtSemEventWait, rtSemEventMultiWait, Check, Taken, Inside, Waiting
    <2>2. asleep[t] => t \in Queue[ob[t]]
      BY <2>1 DEF SleepInv, SleepersQueue
    <2>. HIDE DEF Touch
    <2>. QED BY <1>5, <1>6, <2>1, <2>2 DEF Inside, Waiting
  <1>12. CASE Schedule(t)
    <2>1. /\ pc[t] = "schedule"
          /\ \E a \in BOOLEAN : Touch(fState[ob[t]], Queue[ob[t]], a, "woken")
      BY <1>6, <1>12 DEF Schedule, Inside, Waiting
    <2>. HIDE DEF Touch
    <2>. QED BY <1>5, <1>6, <2>1 DEF Inside, Waiting
  <1>13. CASE Woken(t)
    <2>1. /\ pc[t] = "woken"
          /\ \E l \in {"finish", "prepare"} :
                Touch(fState[ob[t]], Queue[ob[t]], asleep[t], l)
      BY <1>6, <1>13 DEF Woken, Inside, Waiting
    <2>. HIDE DEF Touch
    <2>. QED BY <1>5, <1>6, <2>1 DEF Inside, Waiting
  <1>14. CASE FinishWait(t)
    <2>. DEFINE q == Queue[ob[t]] \ {t}
    <2>1. pc[t] = "finish" /\ Touch(fState[ob[t]], q, FALSE, "release")
      BY <1>6, <1>14 DEF FinishWait, Inside, Waiting
    <2>2. q \in SUBSET Thread /\ Queue[ob[t]] \ {t} \subseteq q
      BY <1>6, <2>1 DEF Inside, Waiting
    <2>. HIDE DEF Touch, q
    <2>. QED BY <1>5, <1>6, <2>1, <2>2 DEF Inside, Waiting
  <1>. QED BY <1>1, <1>2, <1>3, <1>4, <1>7, <1>8, <1>9, <1>10, <1>11, <1>12, <1>13, <1>14
       DEF Step

LEMMA CleanupKeeps == SleepInv /\ CleanupSession => SleepInv'
  <1>. SUFFICES ASSUME SleepInv, CleanupSession PROVE SleepInv'
    OBVIOUS
  <1>. USE DEF CleanupSession, thrVars, waitVars
  <1>1. Typed'
    BY DEF SleepInv, Typed, Table!Destroy
  <1>2. SleepersQueue' /\ NoSleeperForgotten'
    BY DEF SleepersQueue, NoSleeperForgotten
  <1>. QED BY <1>1, <1>2 DEF SleepInv

LEMMA SleepInitHolds == Init => SleepInv
  BY DEF Init, SleepInv, Typed, SleepersQueue, NoSleeperForgotten, Busy, Inside, Waiting

LEMMA SleepNextHolds == SleepInv /\ [Next]_vars => SleepInv'
  <1>. SUFFICES ASSUME SleepInv, [Next]_vars PROVE SleepInv'
    OBVIOUS
  <1>1. CASE UNCHANGED vars
    BY <1>1 DEF vars, tabVars, semVars, waitVars, thrVars, SleepInv, Typed, SleepersQueue,
       NoSleeperForgotten
  <1>2. CASE Next
    BY <1>2, RequestKeeps, StepKeeps, CleanupKeeps DEF Next
  <1>. QED BY <1>1, <1>2

(* A signal is not lost between a waiter's look at the state of a          *)
(* semaphore and its sleep, for any number of threads and semaphores.      *)
THEOREM NoWakeUpLost == Spec => []NoSleeperForgotten
  <1>1. SleepInv => NoSleeperForgotten
    BY DEF SleepInv
  <1>. QED BY <1>1, SleepInitHolds, SleepNextHolds, PTL DEF Spec

-----------------------------------------------------------------------------
(* The handle table.                                                       *)

(* What is free has been issued, is not in use, and is listed once. *)
TableHolds ==
    /\ issued \in Nat /\ free \in Seq(Nat)
    /\ \A i \in DOMAIN free : free[i] < issued /\ free[i] \notin DOMAIN map
    /\ \A i, j \in DOMAIN free : free[i] = free[j] => i = j
    /\ \A h \in DOMAIN map : h \in Nat /\ h < issued /\ map[h][1] \in Sem

(* Alloc issues a handle that is not in use. *)
LEMMA AllocIssues ==
    ASSUME TableHolds, NEW s \in Sem, NEW k, Table!Alloc(s, k)
    PROVE  /\ TableHolds'
           /\ \E x : /\ x \notin DOMAIN map
                     /\ map' = [h \in DOMAIN map \cup {x} |-> IF h = x THEN <<s, k>> ELSE map[h]]
  <1>. DEFINE More(n) == [i \in 1 .. (n - issued) |-> issued + i - 1]
              avail(n) == free \o More(n)
  <1>1. PICK n \in {issued, issued + Level2} :
           /\ avail(n) # <<>>
           /\ free' = Tail(avail(n))
           /\ map' = [h \in DOMAIN map \cup {Head(avail(n))} |->
                         IF h = Head(avail(n)) THEN <<s, k>> ELSE map[h]]
           /\ issued' = n
    BY ZenonT(30) DEF Table!Alloc
  <1>2. n \in Nat /\ issued \in Nat /\ n >= issued
    BY SemAssumption DEF TableHolds
  <1>3. /\ avail(n) \in Seq(Nat)
        /\ \A i \in DOMAIN avail(n) : avail(n)[i] < n /\ avail(n)[i] \notin DOMAIN map
        /\ \A i, j \in DOMAIN avail(n) : avail(n)[i] = avail(n)[j] => i = j
    <2>1. /\ More(n) \in Seq(Nat) /\ Len(More(n)) = n - issued
          /\ \A i \in 1 .. (n - issued) : More(n)[i] = issued + i - 1
      <3>1. n - issued \in Nat
        BY <1>2
      <3>2. \A i \in 1 .. (n - issued) : issued + i - 1 \in Nat
        BY <1>2
      <3>. QED BY <3>1, <3>2
    <2>. HIDE DEF More
    <2>0. free \in Seq(Nat) /\ DOMAIN free = 1 .. Len(free) /\ Len(free) \in Nat
      BY LenProperties DEF TableHolds
    <2>2. /\ avail(n) \in Seq(Nat) /\ Len(avail(n)) = Len(free) + Len(More(n))
          /\ \A i \in 1 .. Len(avail(n)) :
                avail(n)[i] = IF i <= Len(free) THEN free[i] ELSE More(n)[i - Len(free)]
      <3>1. /\ avail(n) \in Seq(Nat) /\ Len(avail(n)) = Len(free) + Len(More(n))
            /\ \A i \in 1 .. Len(free) + Len(More(n)) :
                  avail(n)[i] = IF i <= Len(free) THEN free[i] ELSE More(n)[i - Len(free)]
        <4>1. free \in Seq(Nat) /\ More(n) \in Seq(Nat)
          BY <2>0, <2>1
        <4>. QED BY <4>1, ConcatProperties, Zenon
      <3>. QED BY <3>1
    <2>. HIDE DEF avail
    <2>3. ASSUME NEW i \in 1 .. Len(avail(n))
          PROVE  \/ i \in DOMAIN free /\ avail(n)[i] = free[i]
                 \/ /\ i > Len(free) /\ i - Len(free) \in 1 .. (n - issued)
                    /\ avail(n)[i] = issued + (i - Len(free)) - 1
      <3>1. Len(avail(n)) = Len(free) + (n - issued) /\ i \in Nat
        BY <2>1, <2>2
      <3>2. CASE i <= Len(free)
        BY <2>0, <2>2, <3>2
      <3>3. CASE i > Len(free)
        <4>1. i - Len(free) \in 1 .. (n - issued)
          BY <1>2, <2>0, <3>1, <3>3
        <4>2. avail(n)[i] = More(n)[i - Len(free)]
          BY <2>0, <2>2, <3>1, <3>3
        <4>. QED BY <2>1, <3>3, <4>1, <4>2
      <3>. QED BY <2>0, <3>1, <3>2, <3>3
    <2>4. DOMAIN avail(n) = 1 .. Len(avail(n)) /\ Len(avail(n)) \in Nat
      BY <2>2, LenProperties
    <2>7. \A m \in Nat : issued <= m => m \notin DOMAIN map
      BY <1>2 DEF TableHolds
    <2>8. \A i \in DOMAIN free : free[i] \in Nat /\ free[i] < issued /\ free[i] \notin DOMAIN map
      BY DEF TableHolds
    <2>5. ASSUME NEW i \in DOMAIN avail(n)
          PROVE  avail(n)[i] < n /\ avail(n)[i] \notin DOMAIN map
      <3>1. CASE i \in DOMAIN free /\ avail(n)[i] = free[i]
        BY <1>2, <2>8, <3>1
      <3>2. CASE /\ i > Len(free) /\ i - Len(free) \in 1 .. (n - issued)
                 /\ avail(n)[i] = issued + (i - Len(free)) - 1
        <4>1. avail(n)[i] \in Nat /\ issued <= avail(n)[i] /\ avail(n)[i] < n
          BY <1>2, <3>2
        <4>. QED BY <2>7, <4>1
      <3>. QED BY <2>3, <2>4, <3>1, <3>2
    <2>6. \A i, j \in DOMAIN avail(n) : avail(n)[i] = avail(n)[j] => i = j
      <3>. SUFFICES ASSUME NEW i \in DOMAIN avail(n), NEW j \in DOMAIN avail(n),
                           avail(n)[i] = avail(n)[j]
                    PROVE  i = j
        OBVIOUS
      <3>. DEFINE Old(l) == l \in DOMAIN free /\ avail(n)[l] = free[l]
                  New(l) == /\ l > Len(free) /\ l - Len(free) \in 1 .. (n - issued)
                            /\ avail(n)[l] = issued + (l - Len(free)) - 1
      <3>0. i \in Nat /\ j \in Nat
        BY <2>4
      <3>1. (Old(i) \/ New(i)) /\ (Old(j) \/ New(j))
        BY <2>3, <2>4
      <3>2. CASE Old(i) /\ Old(j)
        BY <3>2 DEF TableHolds
      <3>3. CASE New(i) /\ New(j)
        <4>1. avail(n)[i] = issued + (i - Len(free)) - 1 /\ avail(n)[j] = issued + (j - Len(free)) - 1
          BY <3>3
        <4>2. issued + (i - Len(free)) - 1 = issued + (j - Len(free)) - 1
          BY <4>1
        <4>. QED BY <1>2, <2>0, <3>0, <4>2
      <3>4. CASE (Old(i) /\ New(j)) \/ (New(i) /\ Old(j))
        <4>1. ASSUME NEW a \in DOMAIN avail(n), NEW b \in DOMAIN avail(n), Old(a), New(b)
              PROVE  avail(n)[a] # avail(n)[b]
          BY <1>2, <2>0, <2>8, <4>1
        <4>. QED BY <3>4, <4>1
      <3>. QED BY <3>1, <3>2, <3>3, <3>4
    <2>. QED BY <2>2, <2>5, <2>6
  <1>. HIDE DEF avail
  <1>4. /\ Len(avail(n)) \in Nat \ {0} /\ DOMAIN avail(n) = 1 .. Len(avail(n))
        /\ Head(avail(n)) = avail(n)[1] /\ 1 \in DOMAIN avail(n)
        /\ free' \in Seq(Nat) /\ DOMAIN free' = 1 .. (Len(avail(n)) - 1)
        /\ \A i \in DOMAIN free' : i + 1 \in DOMAIN avail(n) /\ free'[i] = avail(n)[i + 1]
    <2>1. Len(avail(n)) \in Nat \ {0} /\ DOMAIN avail(n) = 1 .. Len(avail(n))
      BY <1>1, <1>3, EmptySeq, LenProperties
    <2>2. /\ free' \in Seq(Nat) /\ Len(free') = Len(avail(n)) - 1
          /\ \A i \in 1 .. Len(free') : free'[i] = avail(n)[i + 1]
      BY <1>1, <1>3, HeadTailProperties
    <2>. QED BY <1>1, <1>3, <2>1, <2>2, LenProperties
  <1>5. DOMAIN map' = DOMAIN map \cup {avail(n)[1]} /\ avail(n)[1] \in Nat
    BY <1>1, <1>3, <1>4
  <1>6. \A i \in DOMAIN free' : free'[i] < n /\ free'[i] \notin DOMAIN map'
    <2>. SUFFICES ASSUME NEW i \in DOMAIN free' PROVE free'[i] < n /\ free'[i] \notin DOMAIN map'
      OBVIOUS
    <2>1. free'[i] = avail(n)[i + 1] /\ i + 1 \in DOMAIN avail(n) /\ i + 1 # 1
      BY <1>4
    <2>. QED BY <1>3, <1>4, <1>5, <2>1
  <1>7. \A i, j \in DOMAIN free' : free'[i] = free'[j] => i = j
    <2>. SUFFICES ASSUME NEW i \in DOMAIN free', NEW j \in DOMAIN free', free'[i] = free'[j] PROVE i = j
      OBVIOUS
    <2>1. avail(n)[i + 1] = avail(n)[j + 1] /\ i + 1 \in DOMAIN avail(n) /\ j + 1 \in DOMAIN avail(n)
      BY <1>4
    <2>2. i + 1 = j + 1
      BY <1>3, <2>1
    <2>. QED BY <1>4, <2>2
  <1>8. \A h \in DOMAIN map' : h \in Nat /\ h < n /\ map'[h][1] \in Sem
    <2>. SUFFICES ASSUME NEW h \in DOMAIN map' PROVE h \in Nat /\ h < n /\ map'[h][1] \in Sem
      OBVIOUS
    <2>1. CASE h = avail(n)[1]
      BY <1>1, <1>3, <1>4, <1>5, <2>1
    <2>2. CASE h # avail(n)[1]
      <3>1. h \in DOMAIN map /\ map'[h] = map[h]
        BY <1>1, <1>4, <1>5, <2>2
      <3>. QED BY <1>2, <3>1 DEF TableHolds
    <2>. QED BY <2>1, <2>2
  <1>9. TableHolds'
    BY <1>1, <1>2, <1>4, <1>6, <1>7, <1>8 DEF TableHolds
  <1>. DEFINE x == Head(avail(n))
  <1>10. x \notin DOMAIN map
    <2>1. 1 \in DOMAIN avail(n)
      BY <1>4
    <2>2. avail(n)[1] \notin DOMAIN map
      BY <1>3, <2>1
    <2>3. x = avail(n)[1]
      BY <1>4
    <2>. QED BY <2>2, <2>3
  <1>11. map' = [h \in DOMAIN map \cup {x} |-> IF h = x THEN <<s, k>> ELSE map[h]]
    BY <1>1
  <1>. HIDE DEF x
  <1>. QED BY <1>9, <1>10, <1>11

(* Free keeps the order. *)
LEMMA FreeReturns ==
    ASSUME TableHolds, NEW h, NEW k, Table!Free(h, k)
    PROVE  TableHolds'
  <1>1. /\ h \in DOMAIN map /\ map' = [g \in DOMAIN map \ {h} |-> map[g]]
        /\ free' = Append(free, h) /\ issued' = issued
    BY DEF Table!Free
  <1>2. h \in Nat /\ h < issued
    BY <1>1 DEF TableHolds
  <1>3. /\ free' \in Seq(Nat) /\ Len(free') = Len(free) + 1 /\ Len(free) \in Nat
        /\ \A i \in 1 .. Len(free) : free'[i] = free[i]
        /\ free'[Len(free) + 1] = h
    BY <1>1, <1>2, AppendProperties, LenProperties DEF TableHolds
  <1>4. DOMAIN free' = 1 .. (Len(free) + 1) /\ DOMAIN free = 1 .. Len(free)
    BY <1>3, LenProperties DEF TableHolds
  <1>5. \A i \in DOMAIN free' :
           \/ i \in DOMAIN free /\ free'[i] = free[i]
           \/ i = Len(free) + 1 /\ free'[i] = h
    BY <1>3, <1>4
  <1>6. DOMAIN map' = DOMAIN map \ {h} /\ \A g \in DOMAIN map' : map'[g] = map[g]
    BY <1>1
  <1>7. \A i, j \in DOMAIN free' : free'[i] = free'[j] => i = j
    BY <1>1, <1>5 DEF TableHolds
  <1>8. \A i \in DOMAIN free' : free'[i] < issued /\ free'[i] \notin DOMAIN map'
    BY <1>1, <1>2, <1>5, <1>6 DEF TableHolds
  <1>. QED BY <1>1, <1>3, <1>6, <1>7, <1>8 DEF TableHolds

-----------------------------------------------------------------------------
(* The inductive invariant of the references.                              *)

(* What a call owes, by where it is. *)
Owes(t) ==
    /\ pc[t] = "idle" => owed[t] = 0 /\ ob[t] = NIL
    /\ pc[t] \in Busy => ob[t] \in Sem
    /\ pc[t] = "destroy" => owed[t] = 0
    /\ pc[t] = "release" => owed[t] \in {1, 2}
    /\ pc[t] \in Inside \cup {"alloc"} => owed[t] = 1

CallsHold ==
    /\ pc \in [Thread -> Busy \cup {"idle"}]
    /\ ob \in [Thread -> Sem \cup {NIL}] /\ owed \in [Thread -> 0 .. 2]
    /\ \A t \in Thread : Owes(t)

(* Only waiters are on a queue, each on its own semaphore's. *)
QueuesHold ==
    /\ Queue \in [Sem -> SUBSET Thread]
    /\ \A s \in Sem : \A u \in Queue[s] : pc[u] \in Waiting /\ ob[u] = s

RegistryHolds ==
    /\ state \in [Sem -> {"none", "live", "dead"}]
    /\ refs \in [{Sess} -> [Sem -> Nat]]
    /\ \A s \in Sem : state[s] = "live" <=> refs[Sess][s] > 0

Balanced(s) ==
    /\ IsFiniteSet(Handles(s)) /\ IsFiniteSet(Debts(s))
    /\ refs[Sess][s] = Cardinality(Handles(s)) + Cardinality(Debts(s))

RefInv == TableHolds /\ CallsHold /\ QueuesHold /\ RegistryHolds /\ \A s \in Sem : Balanced(s)

-----------------------------------------------------------------------------
(* Handles and debts, one at a time.                                       *)

LEMMA OneMore ==
    ASSUME NEW S, IsFiniteSet(S), NEW x, x \notin S
    PROVE  IsFiniteSet(S \cup {x}) /\ Cardinality(S \cup {x}) = Cardinality(S) + 1
  BY FS_AddElement

LEMMA OneLess ==
    ASSUME NEW S, IsFiniteSet(S), NEW x \in S
    PROVE  /\ IsFiniteSet(S \ {x}) /\ Cardinality(S \ {x}) = Cardinality(S) - 1
           /\ Cardinality(S) \in Nat
  BY FS_RemoveElement, FS_CardinalityType

LEMMA HandleIssued ==
    ASSUME NEW s \in Sem, NEW k, NEW x, x \notin DOMAIN map,
           map' = [h \in DOMAIN map \cup {x} |-> IF h = x THEN <<s, k>> ELSE map[h]]
    PROVE  /\ Handles(s)' = Handles(s) \cup {x} /\ x \notin Handles(s)
           /\ \A p \in Sem : p # s => Handles(p)' = Handles(p)
  <1>1. /\ DOMAIN map' = DOMAIN map \cup {x} /\ map'[x] = <<s, k>>
        /\ \A h \in DOMAIN map : map'[h] = map[h]
    OBVIOUS
  <1>2. Handles(s)' = {h \in DOMAIN map' : map'[h][1] = s} /\ x \notin Handles(s)
    BY DEF Handles
  <1>3. \A h : h \in Handles(s)' <=> h \in Handles(s) \/ h = x
    BY <1>1, <1>2 DEF Handles
  <1>4. ASSUME NEW p \in Sem, p # s PROVE Handles(p)' = Handles(p)
    BY <1>1, <1>4 DEF Handles
  <1>. QED BY <1>2, <1>3, <1>4

LEMMA HandleClosed ==
    ASSUME NEW s, NEW x \in DOMAIN map, map[x][1] = s,
           map' = [h \in DOMAIN map \ {x} |-> map[h]]
    PROVE  /\ Handles(s)' = Handles(s) \ {x} /\ x \in Handles(s)
           /\ \A p \in Sem : p # s => Handles(p)' = Handles(p)
  BY DEF Handles

(* A thread that owes nothing, or something else of nothing, takes a debt. *)
LEMMA DebtTaken ==
    ASSUME CallsHold, NEW t \in Thread, NEW s \in Sem, NEW n \in {1, 2}, NEW l,
           owed[t] = 0, Enter(t, l, s, n), IsFiniteSet(Debts(s))
    PROVE  /\ IsFiniteSet(Debts(s)') /\ Cardinality(Debts(s)') = Cardinality(Debts(s)) + n
           /\ \A p \in Sem : p # s => Debts(p)' = Debts(p)
  <1>. DEFINE a == <<t, 1>>
              b == <<t, 2>>
  <1>1. /\ ob'[t] = s /\ owed'[t] = n
        /\ \A u \in Thread : u # t => ob'[u] = ob[u] /\ owed'[u] = owed[u]
    BY DEF Enter, CallsHold
  <1>2. a \notin Debts(s) /\ b \notin Debts(s) /\ a # b
    BY DEF Debts
  <1>3. \A p \in Sem : p # s => Debts(p)' = Debts(p)
    <2>1. ASSUME NEW p \in Sem, p # s, NEW u \in Thread, NEW i \in 1 .. 2
          PROVE  (ob'[u] = p /\ i <= owed'[u]) <=> (ob[u] = p /\ i <= owed[u])
      BY <1>1, <2>1
    <2>. QED BY <2>1 DEF Debts
  <1>4. CASE n = 1
    <2>1. Debts(s)' = Debts(s) \cup {a}
      <3>1. ASSUME NEW u \in Thread, NEW i \in 1 .. 2
            PROVE  (ob'[u] = s /\ i <= owed'[u]) <=>
                      (ob[u] = s /\ i <= owed[u]) \/ (u = t /\ i = 1)
        BY <1>1, <1>4
      <3>. QED BY <3>1 DEF Debts
    <2>. QED BY <1>2, <1>3, <1>4, <2>1, OneMore
  <1>5. CASE n = 2
    <2>1. Debts(s)' = (Debts(s) \cup {a}) \cup {b}
      <3>1. ASSUME NEW u \in Thread, NEW i \in 1 .. 2
            PROVE  (ob'[u] = s /\ i <= owed'[u]) <=> (ob[u] = s /\ i <= owed[u]) \/ u = t
        BY <1>1, <1>5
      <3>2. 1 .. 2 = {1, 2}
        OBVIOUS
      <3>. QED BY <3>1, <3>2 DEF Debts
    <2>2. /\ IsFiniteSet(Debts(s) \cup {a})
          /\ Cardinality(Debts(s) \cup {a}) = Cardinality(Debts(s)) + 1
      BY <1>2, OneMore
    <2>3. b \notin Debts(s) \cup {a}
      BY <1>2
    <2>4. /\ IsFiniteSet(Debts(s)')
          /\ Cardinality(Debts(s)') = Cardinality(Debts(s) \cup {a}) + 1
      BY <2>1, <2>2, <2>3, OneMore
    <2>5. Cardinality(Debts(s)) \in Nat
      BY FS_CardinalityType
    <2>. QED BY <1>3, <1>5, <2>2, <2>4, <2>5
  <1>. QED BY <1>4, <1>5

(* A thread gives one reference back; it may forget the semaphore with the *)
(* last.                                                                   *)
LEMMA DebtPaid ==
    ASSUME CallsHold, NEW t \in Thread, NEW s \in Sem, ob[t] = s, owed[t] > 0,
           NEW l, NEW r, r = s \/ (owed[t] = 1 /\ r = NIL),
           Enter(t, l, r, owed[t] - 1), IsFiniteSet(Debts(s))
    PROVE  /\ IsFiniteSet(Debts(s)') /\ Cardinality(Debts(s)') = Cardinality(Debts(s)) - 1
           /\ Cardinality(Debts(s)) \in Nat \ {0}
           /\ \A p \in Sem : p # s => Debts(p)' = Debts(p)
  <1>. DEFINE n == owed[t]
              a == <<t, n>>
  <1>0. n \in {1, 2}
    BY DEF CallsHold
  <1>1. /\ ob'[t] = r /\ owed'[t] = n - 1
        /\ \A u \in Thread : u # t => ob'[u] = ob[u] /\ owed'[u] = owed[u]
    BY DEF Enter, CallsHold
  <1>2. \A p \in Sem : p # s => Debts(p)' = Debts(p)
    <2>1. ASSUME NEW p \in Sem, p # s, NEW u \in Thread, NEW i \in 1 .. 2
          PROVE  (ob'[u] = p /\ i <= owed'[u]) <=> (ob[u] = p /\ i <= owed[u])
      BY <1>1, <2>1, SemAssumption
    <2>. QED BY <2>1 DEF Debts
  <1>3. a \in Debts(s)
    BY <1>0 DEF Debts
  <1>4. Debts(s)' = Debts(s) \ {a}
    <2>1. ASSUME NEW u \in Thread, NEW i \in 1 .. 2
          PROVE  (ob'[u] = s /\ i <= owed'[u]) <=>
                    (ob[u] = s /\ i <= owed[u]) /\ ~(u = t /\ i = n)
      BY <1>0, <1>1
    <2>. QED BY <2>1 DEF Debts
  <1>5. /\ IsFiniteSet(Debts(s)') /\ Cardinality(Debts(s)') = Cardinality(Debts(s)) - 1
        /\ Cardinality(Debts(s)) \in Nat
    BY <1>3, <1>4, OneLess
  <1>6. Cardinality(Debts(s)) # 0
    BY <1>3, FS_EmptySet
  <1>. QED BY <1>2, <1>5, <1>6

(* Who owes nothing can forget its semaphore. *)
LEMMA NoDebt ==
    ASSUME CallsHold, NEW t \in Thread, owed[t] = 0, NEW l, NEW r, Enter(t, l, r, 0)
    PROVE  \A p : Debts(p)' = Debts(p)
  <1>1. /\ owed'[t] = 0
        /\ \A u \in Thread : u # t => ob'[u] = ob[u] /\ owed'[u] = owed[u]
    BY DEF Enter, CallsHold
  <1>2. ASSUME NEW p, NEW u \in Thread, NEW i \in 1 .. 2
        PROVE  (ob'[u] = p /\ i <= owed'[u]) <=> (ob[u] = p /\ i <= owed[u])
    BY <1>1
  <1>. QED BY <1>2 DEF Debts

-----------------------------------------------------------------------------
(* The steps of a call.                                                    *)

(* Creating a semaphore: the first reference is the creator's. *)
LEMMA CreateBalances ==
    ASSUME RefInv, NEW t \in Thread, NEW s \in Sem, SemCreate(t, s), UNCHANGED Queue
    PROVE  RefInv'
  <1>1. /\ pc[t] = "idle" /\ state[s] = "none" /\ Enter(t, "alloc", s, 1)
        /\ state' = [state EXCEPT ![s] = "live"]
        /\ refs' = [refs EXCEPT ![Sess] = [refs[Sess] EXCEPT ![s] = 1]]
        /\ UNCHANGED <<issued, free, map>>
    BY DEF SemCreate, Registry!Register, tabVars
  <1>2. owed[t] = 0
    BY <1>1 DEF RefInv, CallsHold, Owes
  <1>3. refs[Sess][s] = 0
    BY <1>1 DEF RefInv, RegistryHolds
  <1>4. TableHolds'
    BY <1>1 DEF RefInv, TableHolds
  <1>5. CallsHold' /\ QueuesHold'
    BY <1>1 DEF RefInv, CallsHold, QueuesHold, Owes, Enter, Busy, Inside, Waiting
  <1>6. /\ refs' \in [{Sess} -> [Sem -> Nat]] /\ refs'[Sess][s] = 1
        /\ \A p \in Sem : p # s => refs'[Sess][p] = refs[Sess][p]
    BY <1>1 DEF RefInv, RegistryHolds
  <1>7. RegistryHolds'
    BY <1>1, <1>6 DEF RefInv, RegistryHolds
  <1>8. /\ IsFiniteSet(Debts(s)') /\ Cardinality(Debts(s)') = Cardinality(Debts(s)) + 1
        /\ \A p \in Sem : p # s => Debts(p)' = Debts(p)
    BY <1>1, <1>2, DebtTaken DEF RefInv, Balanced
  <1>9. \A p \in Sem : Handles(p)' = Handles(p)
    BY <1>1 DEF Handles
  <1>10. \A p \in Sem : Balanced(p)'
    <2>1. Balanced(s)'
      BY <1>3, <1>6, <1>8, <1>9, FS_CardinalityType DEF RefInv, Balanced
    <2>2. ASSUME NEW p \in Sem, p # s PROVE Balanced(p)'
      BY <1>6, <1>8, <1>9, <2>2 DEF RefInv, Balanced
    <2>. QED BY <2>1, <2>2
  <1>. QED BY <1>4, <1>5, <1>7, <1>10 DEF RefInv

(* The handle takes over the creator's reference. *)
LEMMA AllocBalances ==
    ASSUME RefInv, NEW t \in Thread, AllocHandle(t)
    PROVE  RefInv'
  <1>0. ob[t] \in Sem /\ owed[t] = 1
    BY DEF AllocHandle, RefInv, CallsHold, Owes, Busy
  <1>s. PICK s \in Sem : s = ob[t]
    BY <1>0
  <1>1. /\ pc[t] = "alloc" /\ Table!Alloc(s, kind[s]) /\ Enter(t, "idle", NIL, 0)
        /\ UNCHANGED <<state, refs, Queue>>
    BY <1>s DEF AllocHandle, regVars, semVars
  <1>2. s \in Sem /\ owed[t] = 1
    BY <1>0
  <1>3. PICK x : /\ x \notin DOMAIN map
                 /\ map' = [h \in DOMAIN map \cup {x} |-> IF h = x THEN <<s, kind[s]>> ELSE map[h]]
    BY <1>1, <1>2, AllocIssues DEF RefInv
  <1>4. TableHolds'
    BY <1>1, <1>2, AllocIssues DEF RefInv
  <1>5. CallsHold' /\ QueuesHold'
    BY <1>1 DEF RefInv, CallsHold, QueuesHold, Owes, Enter, Busy, Inside, Waiting
  <1>6. RegistryHolds'
    BY <1>1 DEF RefInv, RegistryHolds
  <1>7. /\ IsFiniteSet(Debts(s)') /\ Cardinality(Debts(s)') = Cardinality(Debts(s)) - 1
        /\ Cardinality(Debts(s)) \in Nat \ {0}
        /\ \A p \in Sem : p # s => Debts(p)' = Debts(p)
    <2>1. owed[t] > 0 /\ owed[t] - 1 = 0 /\ ob[t] = s
      BY <1>2, <1>s
    <2>2. Enter(t, "idle", NIL, owed[t] - 1)
      BY <1>1, <2>1 DEF Enter
    <2>. QED BY <1>2, <2>1, <2>2, DebtPaid DEF RefInv, Balanced
  <1>8. /\ Handles(s)' = Handles(s) \cup {x} /\ x \notin Handles(s)
        /\ \A p \in Sem : p # s => Handles(p)' = Handles(p)
    BY <1>2, <1>3, HandleIssued
  <1>9. IsFiniteSet(Handles(s)') /\ Cardinality(Handles(s)') = Cardinality(Handles(s)) + 1
    BY <1>2, <1>8, OneMore DEF RefInv, Balanced
  <1>10. \A p \in Sem : Balanced(p)'
    <2>1. Balanced(s)'
      BY <1>1, <1>2, <1>7, <1>9, FS_CardinalityType DEF RefInv, Balanced
    <2>2. ASSUME NEW p \in Sem, p # s PROVE Balanced(p)'
      BY <1>1, <1>7, <1>8, <2>2 DEF RefInv, Balanced
    <2>. QED BY <2>1, <2>2
  <1>. QED BY <1>4, <1>5, <1>6, <1>10 DEF RefInv

(* A lookup takes a reference of its own. *)
LEMMA LookupBalances ==
    ASSUME RefInv, NEW t \in Thread, NEW h, NEW k, NEW l \in Inside \ Waiting, Lookup(t, h, k, l)
    PROVE  RefInv'
  <1>0. map[h][1] \in Sem
    BY DEF Lookup, RefInv, TableHolds
  <1>s. PICK s \in Sem : s = map[h][1]
    BY <1>0
  <1>1. /\ pc[t] = "idle" /\ h \in DOMAIN map /\ state[s] = "live" /\ Enter(t, l, s, 1)
        /\ refs' = [refs EXCEPT ![Sess] = [refs[Sess] EXCEPT ![s] = refs[Sess][s] + 1]]
        /\ UNCHANGED <<issued, free, map, state, Queue>>
    BY <1>s DEF Lookup, Registry!AddRef, tabVars, semVars
  <1>2. s \in Sem /\ owed[t] = 0
    BY <1>1 DEF RefInv, TableHolds, CallsHold, Owes
  <1>3. TableHolds'
    BY <1>1 DEF RefInv, TableHolds
  <1>4. CallsHold' /\ QueuesHold'
    BY <1>1, <1>2 DEF RefInv, CallsHold, QueuesHold, Owes, Enter, Busy, Inside, Waiting
  <1>5. /\ refs' \in [{Sess} -> [Sem -> Nat]] /\ refs'[Sess][s] = refs[Sess][s] + 1
        /\ \A p \in Sem : p # s => refs'[Sess][p] = refs[Sess][p]
    BY <1>1, <1>2 DEF RefInv, RegistryHolds
  <1>6. RegistryHolds'
    BY <1>1, <1>2, <1>5 DEF RefInv, RegistryHolds
  <1>7. /\ IsFiniteSet(Debts(s)') /\ Cardinality(Debts(s)') = Cardinality(Debts(s)) + 1
        /\ \A p \in Sem : p # s => Debts(p)' = Debts(p)
    BY <1>1, <1>2, DebtTaken DEF RefInv, Balanced
  <1>8. \A p \in Sem : Handles(p)' = Handles(p)
    BY <1>1 DEF Handles
  <1>9. \A p \in Sem : Balanced(p)'
    <2>1. Balanced(s)'
      BY <1>2, <1>5, <1>7, <1>8, FS_CardinalityType DEF RefInv, Balanced
    <2>2. ASSUME NEW p \in Sem, p # s PROVE Balanced(p)'
      BY <1>5, <1>7, <1>8, <2>2 DEF RefInv, Balanced
    <2>. QED BY <2>1, <2>2
  <1>. QED BY <1>3, <1>4, <1>6, <1>9 DEF RefInv

(* Closing takes the reference of the handle and one of its own. *)
LEMMA CloseBalances ==
    ASSUME RefInv, NEW t \in Thread, NEW h, NEW k, Close(t, h, k)
    PROVE  RefInv'
  <1>0. map[h][1] \in Sem
    BY DEF Close, RefInv, TableHolds
  <1>s. PICK s \in Sem : s = map[h][1]
    BY <1>0
  <1>1. /\ pc[t] = "idle" /\ h \in DOMAIN map /\ state[s] = "live" /\ Enter(t, "release", s, 2)
        /\ Table!Free(h, k)
        /\ refs' = [refs EXCEPT ![Sess] = [refs[Sess] EXCEPT ![s] = refs[Sess][s] + 1]]
        /\ UNCHANGED <<state, Queue>>
    BY <1>s DEF Close, Registry!AddRef, semVars
  <1>2. s \in Sem /\ owed[t] = 0
    BY <1>1 DEF RefInv, TableHolds, CallsHold, Owes
  <1>3. map' = [g \in DOMAIN map \ {h} |-> map[g]]
    BY <1>1 DEF Table!Free
  <1>8. /\ Handles(s)' = Handles(s) \ {h} /\ h \in Handles(s)
        /\ \A p \in Sem : p # s => Handles(p)' = Handles(p)
    BY <1>1, <1>3, <1>s, HandleClosed
  <1>4. TableHolds'
    BY <1>1, FreeReturns DEF RefInv
  <1>5. CallsHold' /\ QueuesHold'
    BY <1>1, <1>2 DEF RefInv, CallsHold, QueuesHold, Owes, Enter, Busy, Inside, Waiting
  <1>6. /\ refs' \in [{Sess} -> [Sem -> Nat]] /\ refs'[Sess][s] = refs[Sess][s] + 1
        /\ \A p \in Sem : p # s => refs'[Sess][p] = refs[Sess][p]
    BY <1>1, <1>2 DEF RefInv, RegistryHolds
  <1>7. RegistryHolds'
    BY <1>1, <1>2, <1>6 DEF RefInv, RegistryHolds
  <1>9. /\ IsFiniteSet(Debts(s)') /\ Cardinality(Debts(s)') = Cardinality(Debts(s)) + 2
        /\ \A p \in Sem : p # s => Debts(p)' = Debts(p)
    BY <1>1, <1>2, DebtTaken DEF RefInv, Balanced
  <1>10. /\ IsFiniteSet(Handles(s)') /\ Cardinality(Handles(s)') = Cardinality(Handles(s)) - 1
         /\ Cardinality(Handles(s)) \in Nat
    BY <1>2, <1>8, OneLess DEF RefInv, Balanced
  <1>11. \A p \in Sem : Balanced(p)'
    <2>1. Balanced(s)'
      BY <1>2, <1>6, <1>9, <1>10, FS_CardinalityType DEF RefInv, Balanced
    <2>2. ASSUME NEW p \in Sem, p # s PROVE Balanced(p)'
      BY <1>6, <1>8, <1>9, <2>2 DEF RefInv, Balanced
    <2>. QED BY <2>1, <2>2
  <1>. QED BY <1>4, <1>5, <1>7, <1>11 DEF RefInv

(* A reference is given back; with the last one nobody owes any more, and  *)
(* the call becomes the destroyer.                                         *)
LEMMA ReleaseBalances ==
    ASSUME RefInv, NEW t \in Thread, Release(t)
    PROVE  RefInv'
  <1>0. ob[t] \in Sem /\ owed[t] \in {1, 2}
    BY DEF Release, RefInv, CallsHold, Owes, Busy
  <1>s. PICK s \in Sem : s = ob[t]
    BY <1>0
  <1>n. PICK n \in {0, 1} : n = owed[t] - 1
    BY <1>0
  <1>. DEFINE l == IF state'[s] = "dead" THEN "destroy" ELSE IF n > 0 THEN "release" ELSE "idle"
              r == IF l = "idle" THEN NIL ELSE s
  <1>1. /\ pc[t] = "release" /\ refs[Sess][s] > 0
        /\ refs' = [refs EXCEPT ![Sess] = [refs[Sess] EXCEPT ![s] = refs[Sess][s] - 1]]
        /\ state' = IF refs'[Sess][s] = 0 THEN [state EXCEPT ![s] = "dead"] ELSE state
        /\ Enter(t, l, r, n)
        /\ UNCHANGED <<issued, free, map, Queue>>
    BY <1>s, <1>n DEF Release, Registry!Release, Registry!Keep, tabVars, semVars
  <1>2. s \in Sem /\ owed[t] \in {1, 2} /\ state[s] = "live"
    BY <1>0, <1>1 DEF RefInv, RegistryHolds
  <1>3. /\ n \in {0, 1} /\ l \in {"destroy", "release", "idle"}
        /\ l = "release" => n = 1
        /\ l = "idle" => n = 0 /\ r = NIL
        /\ l # "idle" => r = s
    BY <1>2
  <1>4. /\ refs' \in [{Sess} -> [Sem -> Nat]] /\ refs'[Sess][s] = refs[Sess][s] - 1
        /\ \A p \in Sem : p # s => refs'[Sess][p] = refs[Sess][p]
    BY <1>1, <1>2 DEF RefInv, RegistryHolds
  <1>5. RegistryHolds' /\ (l = "destroy" => refs'[Sess][s] = 0)
    BY <1>1, <1>2, <1>4 DEF RefInv, RegistryHolds
  <1>. HIDE DEF l, r
  <1>6. TableHolds'
    BY <1>1 DEF RefInv, TableHolds
  <1>7. /\ IsFiniteSet(Debts(s)') /\ Cardinality(Debts(s)') = Cardinality(Debts(s)) - 1
        /\ Cardinality(Debts(s)) \in Nat \ {0}
        /\ \A p \in Sem : p # s => Debts(p)' = Debts(p)
    <2>1. owed[t] > 0 /\ (r = s \/ (owed[t] = 1 /\ r = NIL))
      BY <1>2, <1>3, <1>n
    <2>. QED BY <1>1, <1>2, <1>s, <1>n, <2>1, DebtPaid DEF RefInv, Balanced
  <1>8. \A p \in Sem : Handles(p)' = Handles(p)
    BY <1>1 DEF Handles
  <1>9. \A p \in Sem : Balanced(p)'
    <2>1. Balanced(s)'
      BY <1>2, <1>4, <1>7, <1>8, FS_CardinalityType DEF RefInv, Balanced
    <2>2. ASSUME NEW p \in Sem, p # s PROVE Balanced(p)'
      BY <1>4, <1>7, <1>8, <2>2 DEF RefInv, Balanced
    <2>. QED BY <2>1, <2>2
  <1>10. l = "destroy" => n = 0
    <2>. SUFFICES ASSUME l = "destroy", n # 0 PROVE FALSE
      OBVIOUS
    <2>1. ob'[t] = s /\ owed'[t] = 1
      BY <1>1, <1>3 DEF Enter, RefInv, CallsHold
    <2>2. <<t, 1>> \in Debts(s)'
      BY <2>1 DEF Debts
    <2>3. /\ refs'[Sess][s] = Cardinality(Handles(s)') + Cardinality(Debts(s)')
          /\ refs'[Sess][s] = 0 /\ IsFiniteSet(Debts(s)')
          /\ Cardinality(Handles(s)') \in Nat /\ Cardinality(Debts(s)') \in Nat
      BY <1>2, <1>5, <1>9, FS_CardinalityType DEF Balanced
    <2>4. Cardinality(Debts(s)') = 0
      BY <2>3
    <2>. QED BY <2>2, <2>3, <2>4, FS_EmptySet
  <1>11. CallsHold' /\ QueuesHold'
    <2>. QED BY <1>1, <1>2, <1>3, <1>10
             DEF RefInv, CallsHold, QueuesHold, Owes, Enter, Busy, Inside, Waiting
  <1>. QED BY <1>5, <1>6, <1>9, <1>11 DEF RefInv

(* A step that neither takes nor gives back a reference. *)
LEMMA QuietBalances ==
    ASSUME RefInv, NEW t \in Thread, NEW l,
           \/ pc[t] \in Inside /\ l \in Inside \cup {"release"}
           \/ pc[t] = "alloc" /\ l = "release",
           Goto(t, l), UNCHANGED <<tabVars, regVars>>,
           Queue' \in [Sem -> SUBSET Thread],
           \A s \in Sem : \A u \in Queue'[s] : u \in Queue[s] \/ (u = t /\ s = ob[t]),
           l \notin Waiting => \A s \in Sem : t \notin Queue'[s]
    PROVE  RefInv'
  <1>1. /\ UNCHANGED <<issued, free, map, state, refs, ob, owed>>
        /\ pc' = [pc EXCEPT ![t] = l]
    BY DEF Goto, tabVars, regVars
  <1>2. TableHolds' /\ RegistryHolds'
    BY <1>1 DEF RefInv, TableHolds, RegistryHolds
  <1>3. CallsHold'
    BY <1>1 DEF RefInv, CallsHold, Owes, Busy, Inside, Waiting
  <1>4. QueuesHold'
    BY <1>1 DEF RefInv, CallsHold, QueuesHold
  <1>5. \A p \in Sem : Balanced(p)'
    BY <1>1 DEF RefInv, Balanced, Handles, Debts
  <1>. QED BY <1>2, <1>3, <1>4, <1>5 DEF RefInv

(* Nobody who is destroyed had waiters. *)
LEMMA DestroyBalances ==
    ASSUME RefInv, NEW t \in Thread, NEW k, Destroy(t, k)
    PROVE  RefInv'
  <1>1. /\ UNCHANGED <<issued, free, map, state, refs>>
        /\ pc[t] = "destroy" /\ Enter(t, "idle", NIL, 0)
        /\ Queue' = [Queue EXCEPT ![ob[t]] = {}]
    BY DEF Destroy, tabVars, regVars
  <1>2. TableHolds' /\ RegistryHolds'
    BY <1>1 DEF RefInv, TableHolds, RegistryHolds
  <1>3. ob[t] \in Sem /\ owed[t] = 0
    BY <1>1 DEF RefInv, CallsHold, Owes, Busy
  <1>4. CallsHold'
    BY <1>1 DEF RefInv, CallsHold, Owes, Enter, Busy, Inside, Waiting
  <1>5. QueuesHold'
    BY <1>1, <1>3 DEF RefInv, CallsHold, QueuesHold, Enter, Waiting
  <1>6. \A p \in Sem : Handles(p)' = Handles(p) /\ Debts(p)' = Debts(p)
    BY <1>1, <1>3, NoDebt DEF RefInv, Handles
  <1>7. \A p \in Sem : Balanced(p)'
    BY <1>1, <1>6 DEF RefInv, Balanced
  <1>. QED BY <1>2, <1>4, <1>5, <1>7 DEF RefInv

LEMMA StepBalances ==
    ASSUME RefInv, NEW t \in Thread, Step(t)
    PROVE  RefInv'
  <1>. USE DEF semVars
  <1>1. CASE AllocHandle(t) \/ Release(t) \/ RTSemEventDestroy(t) \/ RTSemEventMultiDestroy(t)
    BY <1>1, AllocBalances, ReleaseBalances, DestroyBalances DEF RTSemEventDestroy, RTSemEventMultiDestroy
  <1>. DEFINE Quiet(l) ==
         /\ \/ pc[t] \in Inside /\ l \in Inside \cup {"release"}
            \/ pc[t] = "alloc" /\ l = "release"
         /\ Goto(t, l) /\ UNCHANGED <<tabVars, regVars>>
  <1>2. Queue \in [Sem -> SUBSET Thread] /\ (pc[t] \in Busy => ob[t] \in Sem)
    BY DEF RefInv, CallsHold, QueuesHold, Owes
  <1>3. pc[t] \notin Waiting => \A s \in Sem : t \notin Queue[s]
    BY DEF RefInv, QueuesHold
  <1>4. ASSUME NEW l, Quiet(l), UNCHANGED Queue, pc[t] \in Waiting => l \in Waiting
        PROVE  RefInv'
    BY <1>2, <1>3, <1>4, QuietBalances
  <1>5. CASE AllocHandleFails(t)
    <2>1. Quiet("release") /\ UNCHANGED Queue /\ pc[t] = "alloc"
      BY <1>5 DEF AllocHandleFails
    <2>. HIDE DEF Quiet
    <2>. QED BY <1>4, <2>1 DEF Waiting
  <1>6. CASE RTSemEventSignal(t) \/ RTSemEventMultiSignal(t)
    <2>1. Quiet("wake") /\ UNCHANGED Queue /\ pc[t] = "signal"
      BY <1>6 DEF RTSemEventSignal, RTSemEventMultiSignal, SetSignalled, Inside
    <2>. HIDE DEF Quiet
    <2>. QED BY <1>4, <2>1 DEF Waiting
  <1>7. CASE RTSemEventMultiReset(t)
    <2>1. Quiet("release") /\ UNCHANGED Queue /\ pc[t] = "reset"
      BY <1>7 DEF RTSemEventMultiReset, Inside
    <2>. HIDE DEF Quiet
    <2>. QED BY <1>4, <2>1 DEF Waiting
  <1>8. CASE RTSemEventWait(t) \/ RTSemEventMultiWait(t)
             \/ RTSemEventWaitNoResume(t) \/ RTSemEventMultiWaitNoResume(t)
    <2>1. UNCHANGED Queue /\ pc[t] = "wait" /\ \E l \in {"release", "prepare"} : Quiet(l)
      BY <1>8 DEF RTSemEventWait, RTSemEventMultiWait, RTSemEventWaitNoResume,
         RTSemEventMultiWaitNoResume, Poll, Inside, Waiting
    <2>. HIDE DEF Quiet
    <2>. QED BY <1>4, <2>1 DEF Waiting
  <1>9. CASE rtSemEventWait(t) \/ rtSemEventMultiWait(t) \/ Schedule(t) \/ Woken(t)
    <2>1. UNCHANGED Queue /\ \E l \in Waiting : Quiet(l)
      BY <1>9 DEF rtSemEventWait, rtSemEventMultiWait, Check, Schedule, Woken, waitVars, Inside, Waiting
    <2>. HIDE DEF Quiet
    <2>. QED BY <1>4, <2>1
  <1>10. CASE PrepareToWait(t)
    <2>1. Quiet("check") /\ ob[t] \in Sem /\ Queue' = [Queue EXCEPT ![ob[t]] = Queue[ob[t]] \cup {t}]
      BY <1>2, <1>10 DEF PrepareToWait, Inside, Waiting, Busy
    <2>2. /\ Queue' \in [Sem -> SUBSET Thread]
          /\ \A s \in Sem : \A u \in Queue'[s] : u \in Queue[s] \/ (u = t /\ s = ob[t])
      BY <1>2, <2>1
    <2>. QED BY <2>1, <2>2, QuietBalances DEF Waiting
  <1>11. CASE WakeUp(t)
    <2>1. /\ Quiet("release") /\ ob[t] \in Sem /\ Queue' = [Queue EXCEPT ![ob[t]] = {}]
          /\ pc[t] = "wake"
      BY <1>2, <1>11 DEF WakeUp, Inside, Busy
    <2>2. /\ Queue' \in [Sem -> SUBSET Thread]
          /\ \A s \in Sem : \A u \in Queue'[s] : u \in Queue[s]
      BY <1>2, <2>1
    <2>3. \A s \in Sem : t \notin Queue'[s]
      BY <1>3, <2>1, <2>2 DEF Waiting
    <2>. QED BY <2>1, <2>2, <2>3, QuietBalances
  <1>12. CASE FinishWait(t)
    <2>1. /\ Quiet("release") /\ ob[t] \in Sem
          /\ Queue' = [Queue EXCEPT ![ob[t]] = Queue[ob[t]] \ {t}]
      BY <1>2, <1>12 DEF FinishWait, Inside, Waiting, Busy
    <2>2. /\ Queue' \in [Sem -> SUBSET Thread]
          /\ \A s \in Sem : \A u \in Queue'[s] : u \in Queue[s]
      BY <1>2, <2>1
    <2>3. \A s \in Sem : t \notin Queue'[s]
      BY <1>2, <2>1 DEF RefInv, QueuesHold
    <2>. QED BY <2>1, <2>2, <2>3, QuietBalances
  <1>. QED BY <1>1, <1>5, <1>6, <1>7, <1>8, <1>9, <1>10, <1>11, <1>12 DEF Step

LEMMA RequestBalances ==
    ASSUME RefInv, NEW t \in Thread, Request(t)
    PROVE  RefInv'
  <1>1. ASSUME NEW s \in Sem, SUPSemEventCreate(t, s) \/ SUPSemEventMultiCreate(t, s)
        PROVE  RefInv'
    BY <1>1, CreateBalances DEF SUPSemEventCreate, SUPSemEventMultiCreate, RTSemEventCreate,
       RTSemEventMultiCreate, RTSemCreate
  <1>2. ASSUME NEW h, SUPSemEventClose(t, h) \/ SUPSemEventMultiClose(t, h)
        PROVE  RefInv'
    BY <1>2, CloseBalances DEF SUPSemEventClose, SUPSemEventMultiClose
  <1>3. ASSUME NEW h, NEW k, NEW l \in {"signal", "reset", "wait"}, Lookup(t, h, k, l)
        PROVE  RefInv'
    <2>1. l \in Inside \ Waiting
      BY DEF Inside, Waiting
    <2>. QED BY <1>3, <2>1, LookupBalances
  <1>. QED BY <1>1, <1>2, <1>3 DEF Request, SUPSemEventSignal, SUPSemEventMultiSignal,
       SUPSemEventMultiReset, SUPSemEventWait, SUPSemEventWaitNoResume, SUPSemEventMultiWait,
       SUPSemEventMultiWaitNoResume

(* When the session ends no call is in progress, so nothing is owed. *)
LEMMA CleanupBalances == RefInv /\ CleanupSession => RefInv'
  <1>. SUFFICES ASSUME RefInv, CleanupSession PROVE RefInv'
    OBVIOUS
  <1>1. /\ \A t \in Thread : pc[t] = "idle"
        /\ UNCHANGED <<pc, ob, owed, Queue>>
        /\ map' = <<>> /\ free' = <<>> /\ issued' = 0
        /\ refs' = [refs EXCEPT ![Sess] = [s \in Sem |-> 0]]
        /\ state' = [s \in Sem |-> IF state[s] = "live" THEN "dead" ELSE state[s]]
    BY DEF CleanupSession, Table!Destroy, thrVars
  <1>2. TableHolds'
    BY <1>1, EmptySeq DEF TableHolds
  <1>3. CallsHold' /\ QueuesHold'
    BY <1>1 DEF RefInv, CallsHold, QueuesHold, Owes
  <1>4. RegistryHolds' /\ \A p \in Sem : refs'[Sess][p] = 0
    BY <1>1 DEF RefInv, RegistryHolds
  <1>5. \A p \in Sem : Handles(p)' = {} /\ Debts(p)' = {}
    <2>1. \A t \in Thread : owed'[t] = 0
      BY <1>1 DEF RefInv, CallsHold, Owes
    <2>. QED BY <1>1, <2>1 DEF Handles, Debts
  <1>6. \A p \in Sem : Balanced(p)'
    BY <1>4, <1>5, FS_EmptySet DEF Balanced
  <1>. QED BY <1>2, <1>3, <1>4, <1>6 DEF RefInv

LEMMA RefInitHolds == Init => RefInv
  <1>. SUFFICES ASSUME Init PROVE RefInv
    OBVIOUS
  <1>1. TableHolds /\ CallsHold /\ QueuesHold
    BY EmptySeq DEF Init, TableHolds, CallsHold, QueuesHold, Owes, Busy, Inside, Waiting
  <1>2. RegistryHolds /\ \A p \in Sem : refs[Sess][p] = 0
    BY DEF Init, RegistryHolds, Registry!Init
  <1>3. \A p \in Sem : Handles(p) = {} /\ Debts(p) = {}
    BY DEF Init, Handles, Debts
  <1>4. \A p \in Sem : Balanced(p)
    BY <1>2, <1>3, FS_EmptySet DEF Balanced
  <1>. QED BY <1>1, <1>2, <1>4 DEF RefInv

LEMMA RefNextHolds == RefInv /\ [Next]_vars => RefInv'
  <1>. SUFFICES ASSUME RefInv, [Next]_vars PROVE RefInv'
    OBVIOUS
  <1>1. CASE UNCHANGED vars
    <2>1. UNCHANGED <<issued, free, map, state, refs, Queue, pc, ob, owed>>
      BY <1>1 DEF vars, tabVars, regVars, semVars, thrVars
    <2>2. TableHolds' /\ RegistryHolds'
      BY <2>1 DEF RefInv, TableHolds, RegistryHolds
    <2>3. CallsHold' /\ QueuesHold'
      BY <2>1 DEF RefInv, CallsHold, Owes, QueuesHold
    <2>4. \A p \in Sem : Balanced(p)'
      BY <2>1 DEF RefInv, Balanced, Handles, Debts
    <2>. QED BY <2>2, <2>3, <2>4 DEF RefInv
  <1>2. CASE Next
    BY <1>2, RequestBalances, StepBalances, CleanupBalances DEF Next
  <1>. QED BY <1>1, <1>2

(* Every reference of the session to a semaphore belongs to a handle or to *)
(* a call that will give it back: none leaks, and SUPSemEventClose finds   *)
(* the two it asserts.                                                     *)
THEOREM ReferencesBalance == Spec => []RefsBalanced
  <1>1. RefInv => RefsBalanced
    BY DEF RefInv, Balanced, RefsBalanced
  <1>. QED BY <1>1, RefInitHolds, RefNextHolds, PTL DEF Spec

(* A semaphore is destroyed when no handle names it, nobody is queued on   *)
(* it and no call but the destroyer's works on it.                         *)
THEOREM DestroyedWhenUnused == Spec => []DestroyedUnused
  <1>1. RefInv => DestroyedUnused
    <2>. SUFFICES ASSUME RefInv, NEW s \in Sem, state[s] = "dead"
                  PROVE  /\ Handles(s) = {} /\ Queue[s] = {}
                         /\ \A t \in Thread : ob[t] = s => pc[t] = "destroy"
      BY DEF DestroyedUnused
    <2>1. refs[Sess][s] = 0
      BY DEF RefInv, RegistryHolds
    <2>2. Handles(s) = {} /\ Debts(s) = {}
      <3>1. /\ IsFiniteSet(Handles(s)) /\ IsFiniteSet(Debts(s))
            /\ Cardinality(Handles(s)) + Cardinality(Debts(s)) = 0
        BY <2>1 DEF RefInv, Balanced
      <3>2. Cardinality(Handles(s)) = 0 /\ Cardinality(Debts(s)) = 0
        BY <3>1, FS_CardinalityType
      <3>. QED BY <3>1, <3>2, FS_EmptySet
    <2>3. ASSUME NEW t \in Thread, ob[t] = s PROVE pc[t] = "destroy"
      <3>1. owed[t] = 0
        <4>. SUFFICES ASSUME owed[t] # 0 PROVE FALSE
          OBVIOUS
        <4>1. <<t, 1>> \in Debts(s)
          BY <2>3 DEF RefInv, CallsHold, Debts
        <4>. QED BY <2>2, <4>1
      <3>. QED BY <2>3, <3>1, SemAssumption DEF RefInv, CallsHold, Owes, Busy
    <2>4. Queue[s] = {}
      BY <2>3 DEF RefInv, QueuesHold, Waiting
    <2>. QED BY <2>2, <2>3, <2>4
  <1>. QED BY <1>1, RefInitHolds, RefNextHolds, PTL DEF Spec

-----------------------------------------------------------------------------
(* The memory of a semaphore is there for every call that works on it.     *)

(* The destructor of a dead semaphore is run by one call, and the memory   *)
(* is there until it has been.                                             *)
DestroyersHold ==
    /\ \A t \in Thread : pc[t] = "destroy" => state[ob[t]] = "dead" /\ mem[ob[t]] = "alloc"
    /\ \A t, u \in Thread : pc[t] = "destroy" /\ pc[u] = "destroy" /\ ob[t] = ob[u] => t = u

LivesHold == \A s \in Sem : state[s] = "live" => mem[s] = "alloc" /\ kind[s] \in Kind

LifeInv ==
    /\ mem \in [Sem -> {"none", "alloc", "freed"}] /\ kind \in [Sem -> Kind \cup {NIL}]
    /\ LivesHold /\ DestroyersHold

(* A call that is no destroyer owes a reference, so its semaphore lives. *)
LEMMA CallersLive ==
    ASSUME RefInv, NEW t \in Thread, pc[t] \notin {"idle", "destroy"}
    PROVE  ob[t] \in Sem /\ state[ob[t]] = "live"
  <1>1. pc[t] \in Busy /\ ob[t] \in Sem /\ owed[t] \in {1, 2}
    BY DEF RefInv, CallsHold, Owes, Busy
  <1>2. PICK s \in Sem : s = ob[t]
    BY <1>1
  <1>3. <<t, 1>> \in Debts(s)
    BY <1>1, <1>2 DEF Debts
  <1>4. /\ IsFiniteSet(Handles(s)) /\ IsFiniteSet(Debts(s))
        /\ refs[Sess][s] = Cardinality(Handles(s)) + Cardinality(Debts(s))
    BY DEF RefInv, Balanced
  <1>5. Cardinality(Debts(s)) # 0
    BY <1>3, <1>4, FS_EmptySet
  <1>6. Cardinality(Handles(s)) \in Nat /\ Cardinality(Debts(s)) \in Nat
    BY <1>4, FS_CardinalityType
  <1>7. refs[Sess][s] > 0
    BY <1>4, <1>5, <1>6
  <1>. QED BY <1>2, <1>7 DEF RefInv, RegistryHolds

(* Most steps leave the lives alone and make nobody a destroyer. *)
LEMMA LifeUntouched ==
    ASSUME LifeInv, UNCHANGED <<mem, kind, state>>,
           \A u \in Thread : pc'[u] = "destroy" => pc[u] = "destroy" /\ ob'[u] = ob[u]
    PROVE  LifeInv'
  BY DEF LifeInv, LivesHold, DestroyersHold

LEMMA EnterFrame ==
    ASSUME RefInv, NEW t \in Thread, NEW l, NEW s, NEW n, Enter(t, l, s, n)
    PROVE  /\ pc'[t] = l /\ ob'[t] = s
           /\ \A u \in Thread : u # t => pc'[u] = pc[u] /\ ob'[u] = ob[u]
  BY DEF Enter, RefInv, CallsHold

LEMMA GotoFrame ==
    ASSUME RefInv, NEW t \in Thread, NEW l, Goto(t, l)
    PROVE  /\ pc'[t] = l /\ UNCHANGED ob
           /\ \A u \in Thread : u # t => pc'[u] = pc[u]
  BY DEF Goto, RefInv, CallsHold

LEMMA CreateLives ==
    ASSUME RefInv, LifeInv, NEW t \in Thread, NEW s \in Sem, NEW k \in Kind,
           SemCreate(t, s), RTSemCreate(s, k)
    PROVE  LifeInv'
  <1>1. /\ state[s] = "none" /\ state' = [state EXCEPT ![s] = "live"]
        /\ mem' = [mem EXCEPT ![s] = "alloc"] /\ kind' = [kind EXCEPT ![s] = k]
        /\ Enter(t, "alloc", s, 1)
    BY DEF SemCreate, RTSemCreate, Registry!Register
  <1>2. /\ pc'[t] = "alloc"
        /\ \A u \in Thread : u # t => pc'[u] = pc[u] /\ ob'[u] = ob[u]
    BY <1>1, EnterFrame
  <1>3. LivesHold'
    BY <1>1 DEF LifeInv, LivesHold, RefInv, RegistryHolds
  <1>4. ASSUME NEW u \in Thread, pc'[u] = "destroy"
        PROVE  pc[u] = "destroy" /\ ob'[u] = ob[u] /\ state'[ob[u]] = "dead" /\ mem'[ob[u]] = "alloc"
    <2>1. pc[u] = "destroy" /\ ob'[u] = ob[u] /\ ob[u] \in Sem
      BY <1>2, <1>4 DEF RefInv, CallsHold, Owes, Busy
    <2>2. ob[u] # s
      BY <1>1, <2>1 DEF LifeInv, DestroyersHold
    <2>. QED BY <1>1, <2>1, <2>2 DEF LifeInv, DestroyersHold, RefInv, RegistryHolds
  <1>5. DestroyersHold'
    BY <1>4 DEF LifeInv, DestroyersHold
  <1>. QED BY <1>1, <1>3, <1>5 DEF LifeInv

(* The last reference makes the call the only destroyer. *)
LEMMA ReleaseLives ==
    ASSUME RefInv, LifeInv, NEW t \in Thread, Release(t)
    PROVE  LifeInv'
  <1>1. PICK s \in Sem : s = ob[t] /\ state[s] = "live"
    BY CallersLive DEF Release
  <1>2. /\ UNCHANGED <<mem, kind>>
        /\ state' = state \/ state' = [state EXCEPT ![s] = "dead"]
        /\ \E l, r, n : Enter(t, l, r, n) /\ (l = "destroy" => r = s /\ state'[s] = "dead")
    <2>1. /\ state' = state \/ state' = [state EXCEPT ![s] = "dead"]
          /\ UNCHANGED semVars
      BY <1>1 DEF Release, Registry!Release, Registry!Keep
    <2>2. \E l, r, n : Enter(t, l, r, n) /\ (l = "destroy" => r = s /\ state'[s] = "dead")
      <3>. DEFINE n == owed[t] - 1
                  l == IF state'[ob[t]] = "dead" THEN "destroy"
                       ELSE IF n > 0 THEN "release" ELSE "idle"
                  r == IF l = "idle" THEN NIL ELSE ob[t]
      <3>1. Enter(t, l, r, n)
        BY DEF Release
      <3>2. l = "destroy" => r = s /\ state'[s] = "dead"
        BY <1>1
      <3>. HIDE DEF l, r, n
      <3>. QED BY <3>1, <3>2
    <2>. QED BY <2>1, <2>2 DEF semVars
  <1>3. LivesHold'
    BY <1>2 DEF LifeInv, LivesHold, RefInv, RegistryHolds
  <1>4. /\ pc'[t] = "destroy" => ob'[t] = s /\ state'[s] = "dead"
        /\ \A u \in Thread : u # t => pc'[u] = pc[u] /\ ob'[u] = ob[u]
    BY <1>2, EnterFrame
  <1>5. ASSUME NEW u \in Thread, u # t, pc[u] = "destroy"
        PROVE  ob[u] \in Sem /\ ob[u] # s /\ state'[ob[u]] = "dead"
    <2>1. ob[u] \in Sem /\ ob[u] # s
      BY <1>1, <1>5 DEF LifeInv, DestroyersHold, RefInv, CallsHold, Owes, Busy
    <2>. QED BY <1>2, <1>5, <2>1 DEF LifeInv, DestroyersHold, RefInv, RegistryHolds
  <1>6. mem[s] = "alloc"
    BY <1>1 DEF LifeInv, LivesHold
  <1>7. DestroyersHold'
    BY <1>2, <1>4, <1>5, <1>6 DEF LifeInv, DestroyersHold
  <1>. QED BY <1>2, <1>3, <1>7 DEF LifeInv

LEMMA DestroyLives ==
    ASSUME RefInv, LifeInv, NEW t \in Thread, NEW k, Destroy(t, k)
    PROVE  LifeInv'
  <1>1. PICK s \in Sem : s = ob[t]
    BY DEF Destroy, RefInv, CallsHold, Owes, Busy
  <1>2. /\ pc[t] = "destroy" /\ Enter(t, "idle", NIL, 0) /\ UNCHANGED <<state, kind>>
        /\ mem' = [mem EXCEPT ![s] = "freed"]
    BY <1>1 DEF Destroy, regVars
  <1>3. state[s] = "dead"
    BY <1>1, <1>2 DEF LifeInv, DestroyersHold
  <1>4. LivesHold'
    BY <1>2, <1>3 DEF LifeInv, LivesHold
  <1>5. /\ pc'[t] = "idle"
        /\ \A u \in Thread : u # t => pc'[u] = pc[u] /\ ob'[u] = ob[u]
    BY <1>2, EnterFrame
  <1>6. ASSUME NEW u \in Thread, u # t, pc[u] = "destroy" PROVE mem'[ob[u]] = "alloc"
    <2>1. ob[u] # s
      BY <1>1, <1>2, <1>6 DEF LifeInv, DestroyersHold
    <2>. QED BY <1>2, <1>6, <2>1 DEF LifeInv, DestroyersHold
  <1>7. DestroyersHold'
    BY <1>2, <1>5, <1>6 DEF LifeInv, DestroyersHold
  <1>. QED BY <1>2, <1>4, <1>7 DEF LifeInv

LEMMA StepLives ==
    ASSUME RefInv, LifeInv, NEW t \in Thread, Step(t)
    PROVE  LifeInv'
  <1>1. CASE Release(t) \/ RTSemEventDestroy(t) \/ RTSemEventMultiDestroy(t)
    BY <1>1, ReleaseLives, DestroyLives DEF RTSemEventDestroy, RTSemEventMultiDestroy
  <1>2. CASE AllocHandle(t)
    <2>1. Enter(t, "idle", NIL, 0) /\ UNCHANGED <<mem, kind, state>>
      BY <1>2 DEF AllocHandle, regVars, semVars
    <2>. QED BY <2>1, EnterFrame, LifeUntouched
  <1>3. CASE ~(Release(t) \/ RTSemEventDestroy(t) \/ RTSemEventMultiDestroy(t) \/ AllocHandle(t))
    <2>1. UNCHANGED <<mem, kind, state>>
      BY <1>3 DEF Step, AllocHandleFails, RTSemEventSignal, RTSemEventMultiSignal, SetSignalled,
         WakeUp, RTSemEventMultiReset, RTSemEventWait, RTSemEventMultiWait, RTSemEventWaitNoResume,
         RTSemEventMultiWaitNoResume, Poll, PrepareToWait, rtSemEventWait, rtSemEventMultiWait,
         Check, Schedule, Woken, FinishWait, regVars, semVars
    <2>2. \E l \in Waiting \cup {"release", "wake"} : Goto(t, l)
      BY <1>3 DEF Step, AllocHandleFails, RTSemEventSignal, RTSemEventMultiSignal, SetSignalled,
         WakeUp, RTSemEventMultiReset, RTSemEventWait, RTSemEventMultiWait, RTSemEventWaitNoResume,
         RTSemEventMultiWaitNoResume, Poll, PrepareToWait, rtSemEventWait, rtSemEventMultiWait,
         Check, Schedule, Woken, FinishWait, Waiting
    <2>3. \A u \in Thread : pc'[u] = "destroy" => pc[u] = "destroy" /\ ob'[u] = ob[u]
      BY <2>2, GotoFrame DEF Waiting
    <2>. QED BY <2>1, <2>3, LifeUntouched
  <1>. QED BY <1>1, <1>2, <1>3

LEMMA RequestLives ==
    ASSUME RefInv, LifeInv, NEW t \in Thread, Request(t)
    PROVE  LifeInv'
  <1>1. ASSUME NEW s \in Sem, SUPSemEventCreate(t, s) \/ SUPSemEventMultiCreate(t, s)
        PROVE  LifeInv'
    <2>1. PICK k \in Kind : RTSemCreate(s, k) /\ SemCreate(t, s)
      BY <1>1 DEF SUPSemEventCreate, SUPSemEventMultiCreate, RTSemEventCreate, RTSemEventMultiCreate, Kind
    <2>. QED BY <2>1, CreateLives
  <1>2. ASSUME NEW h, NEW k, NEW l \in {"signal", "reset", "wait"}, Lookup(t, h, k, l) \/ Close(t, h, k)
        PROVE  LifeInv'
    <2>1. /\ UNCHANGED <<mem, kind, state>>
          /\ \E m, s, n : m # "destroy" /\ Enter(t, m, s, n)
      BY <1>2 DEF Lookup, Close, Registry!AddRef, semVars
    <2>2. \A u \in Thread : pc'[u] = "destroy" => pc[u] = "destroy" /\ ob'[u] = ob[u]
      BY <2>1, EnterFrame
    <2>. QED BY <2>1, <2>2, LifeUntouched
  <1>. QED BY <1>1, <1>2 DEF Request, SUPSemEventClose, SUPSemEventMultiClose, SUPSemEventSignal,
       SUPSemEventMultiSignal, SUPSemEventMultiReset, SUPSemEventWait, SUPSemEventWaitNoResume,
       SUPSemEventMultiWait, SUPSemEventMultiWaitNoResume

LEMMA LifeNextHolds == RefInv /\ LifeInv /\ [Next]_vars => LifeInv'
  <1>. SUFFICES ASSUME RefInv, LifeInv, [Next]_vars PROVE LifeInv'
    OBVIOUS
  <1>1. CASE UNCHANGED vars
    BY <1>1, LifeUntouched DEF vars, regVars, semVars, thrVars
  <1>2. CASE CleanupSession
    <2>1. /\ \A t \in Thread : pc'[t] = "idle"
          /\ mem' = [s \in Sem |-> IF mem[s] = "alloc" THEN "freed" ELSE mem[s]]
          /\ \A s \in Sem : state'[s] # "live"
          /\ UNCHANGED kind
      BY <1>2 DEF CleanupSession, thrVars
    <2>2. LivesHold' /\ DestroyersHold'
      BY <2>1 DEF LivesHold, DestroyersHold
    <2>. QED BY <2>1, <2>2 DEF LifeInv
  <1>. QED BY <1>1, <1>2, StepLives, RequestLives DEF Next

LEMMA LifeInitHolds == Init => LifeInv
  BY DEF Init, LifeInv, LivesHold, DestroyersHold, Registry!Init

(* No call ever works on a semaphore that was freed, although the waits    *)
(* look at it without a lock while another thread may close the handle:    *)
(* the reference taken under the table's lock lasts until the call gives   *)
(* it back, and whoever gives back the last one is alone.                  *)
SemaphoreIsThere == \A t \in Thread : pc[t] # "idle" => ob[t] \in Sem /\ mem[ob[t]] = "alloc"

(* Calls find their semaphore, for any number of threads and handles.      *)
THEOREM CallsFindTheirSemaphore == Spec => []SemaphoreIsThere
  <1>1. RefInv /\ LifeInv => SemaphoreIsThere
    <2>. SUFFICES ASSUME RefInv, LifeInv, NEW t \in Thread, pc[t] # "idle"
                  PROVE  ob[t] \in Sem /\ mem[ob[t]] = "alloc"
      BY DEF SemaphoreIsThere
    <2>1. CASE pc[t] = "destroy"
      BY <2>1 DEF LifeInv, DestroyersHold, RefInv, CallsHold, Owes, Busy
    <2>2. CASE pc[t] # "destroy"
      BY <2>2, CallersLive DEF LifeInv, LivesHold
    <2>. QED BY <2>1, <2>2
  <1>. QED BY <1>1, RefInitHolds, RefNextHolds, LifeInitHolds, LifeNextHolds, PTL DEF Spec

-----------------------------------------------------------------------------
(* The types of what is left, and that of the handles.                     *)

RestTypes ==
    /\ live \in BOOLEAN
    /\ lTimeout \in [Thread -> {"forever", "some", "none"}]
    /\ fInterruptible \in [Thread -> BOOLEAN]

HandlesTyped == \A h \in DOMAIN map : map[h] \in Sem \X Kind

LEMMA RestInit == Init => RestTypes /\ HandlesTyped
  BY EmptySeq DEF Init, RestTypes, HandlesTyped

LEMMA RestNext == RestTypes /\ [Next]_vars => RestTypes'
  <1>. SUFFICES ASSUME RestTypes, [Next]_vars PROVE RestTypes'
    OBVIOUS
  <1>1. ASSUME NEW t \in Thread, Request(t) PROVE RestTypes'
    <2>1. live' = live
      BY <1>1 DEF Request, SUPSemEventCreate, SUPSemEventMultiCreate, SemCreate, SUPSemEventClose,
         SUPSemEventMultiClose, Close, Table!Free, SUPSemEventSignal, SUPSemEventMultiSignal,
         SUPSemEventMultiReset, SUPSemEventWait, SUPSemEventWaitNoResume, SUPSemEventMultiWait,
         SUPSemEventMultiWaitNoResume, Lookup, tabVars
    <2>2. \/ UNCHANGED <<lTimeout, fInterruptible>>
          \/ \E ms \in {"forever", "some"}, intr \in BOOLEAN : WaitFor(t, ms, intr)
      BY <1>1 DEF Request, SUPSemEventCreate, SUPSemEventMultiCreate, SemCreate, SUPSemEventClose,
         SUPSemEventMultiClose, Close, SUPSemEventSignal, SUPSemEventMultiSignal,
         SUPSemEventMultiReset, SUPSemEventWait, SUPSemEventWaitNoResume, SUPSemEventMultiWait,
         SUPSemEventMultiWaitNoResume, waitVars
    <2>. QED BY <2>1, <2>2 DEF RestTypes, WaitFor
  <1>2. ASSUME NEW t \in Thread, Step(t) PROVE RestTypes'
    <2>1. live' = live
      BY <1>2 DEF Step, AllocHandle, Table!Alloc, Release, RTSemEventDestroy, RTSemEventMultiDestroy,
         Destroy, AllocHandleFails, RTSemEventSignal, RTSemEventMultiSignal, SetSignalled,
         WakeUp, RTSemEventMultiReset, RTSemEventWait, RTSemEventMultiWait, RTSemEventWaitNoResume,
         RTSemEventMultiWaitNoResume, Poll, PrepareToWait, rtSemEventWait, rtSemEventMultiWait,
         Check, Schedule, Woken, FinishWait, tabVars
    <2>2. /\ lTimeout' = lTimeout \/ lTimeout' = [lTimeout EXCEPT ![t] = "none"]
          /\ fInterruptible' = fInterruptible \/ fInterruptible' = [fInterruptible EXCEPT ![t] = FALSE]
      BY <1>2 DEF Step, AllocHandle, Release, RTSemEventDestroy, RTSemEventMultiDestroy,
         Destroy, AllocHandleFails, RTSemEventSignal, RTSemEventMultiSignal, SetSignalled,
         WakeUp, RTSemEventMultiReset, RTSemEventWait, RTSemEventMultiWait, RTSemEventWaitNoResume,
         RTSemEventMultiWaitNoResume, Poll, PrepareToWait, rtSemEventWait, rtSemEventMultiWait,
         Check, Schedule, Woken, FinishWait, waitVars
    <2>. QED BY <2>1, <2>2 DEF RestTypes
  <1>3. CASE CleanupSession
    BY <1>3 DEF CleanupSession, Table!Destroy, waitVars, RestTypes
  <1>4. CASE UNCHANGED vars
    BY <1>4 DEF vars, tabVars, waitVars, RestTypes
  <1>. QED BY <1>1, <1>2, <1>3, <1>4 DEF Next

(* A handle is issued for a semaphore that lives, so it has a kind. *)
LEMMA HandlesNext == RefInv /\ LifeInv /\ HandlesTyped /\ [Next]_vars => HandlesTyped'
  <1>. SUFFICES ASSUME RefInv, LifeInv, HandlesTyped, [Next]_vars PROVE HandlesTyped'
    OBVIOUS
  <1>1. CASE UNCHANGED map
    BY <1>1 DEF HandlesTyped
  <1>2. ASSUME NEW t \in Thread, AllocHandle(t) PROVE HandlesTyped'
    <2>1. ob[t] \in Sem /\ kind[ob[t]] \in Kind
      BY <1>2, CallersLive DEF AllocHandle, LifeInv, LivesHold
    <2>2. PICK x : map' = [h \in DOMAIN map \cup {x} |-> IF h = x THEN <<ob[t], kind[ob[t]]>> ELSE map[h]]
      BY <1>2, <2>1, AllocIssues DEF AllocHandle, RefInv
    <2>. QED BY <2>1, <2>2 DEF HandlesTyped
  <1>3. ASSUME NEW t \in Thread, NEW h, NEW k, Close(t, h, k) PROVE HandlesTyped'
    BY <1>3 DEF Close, Table!Free, HandlesTyped
  <1>4. CASE CleanupSession
    BY <1>4, EmptySeq DEF CleanupSession, Table!Destroy, HandlesTyped
  <1>5. ASSUME NEW t \in Thread, Step(t), ~AllocHandle(t) PROVE UNCHANGED map
    BY <1>5 DEF Step, Release, RTSemEventDestroy, RTSemEventMultiDestroy,
       Destroy, AllocHandleFails, RTSemEventSignal, RTSemEventMultiSignal, SetSignalled,
       WakeUp, RTSemEventMultiReset, RTSemEventWait, RTSemEventMultiWait, RTSemEventWaitNoResume,
       RTSemEventMultiWaitNoResume, Poll, PrepareToWait, rtSemEventWait, rtSemEventMultiWait,
       Check, Schedule, Woken, FinishWait, tabVars
  <1>6. ASSUME NEW t \in Thread, Request(t)
        PROVE  UNCHANGED map \/ \E h, k : Close(t, h, k)
    BY <1>6 DEF Request, SUPSemEventCreate, SUPSemEventMultiCreate, SemCreate, SUPSemEventClose,
       SUPSemEventMultiClose, SUPSemEventSignal, SUPSemEventMultiSignal,
       SUPSemEventMultiReset, SUPSemEventWait, SUPSemEventWaitNoResume, SUPSemEventMultiWait,
       SUPSemEventMultiWaitNoResume, Lookup, tabVars
  <1>. QED BY <1>1, <1>2, <1>3, <1>4, <1>5, <1>6 DEF Next, vars, tabVars

(* Every variable keeps its type; in particular the registry's counts stay *)
(* natural numbers, and a handle names a semaphore of a kind.              *)
THEOREM TypeCorrect == Spec => []TypeOK
  <1>1. SleepInv /\ RefInv /\ LifeInv /\ RestTypes /\ HandlesTyped => TypeOK
    <2>1. Busy \cup {"idle"} = Inside \cup {"idle", "alloc", "release", "destroy"}
      BY DEF Busy
    <2>. QED BY <2>1 DEF SleepInv, Typed, RefInv, CallsHold, RegistryHolds, QueuesHold, LifeInv,
                RestTypes, HandlesTyped, TypeOK
  <1>. QED BY <1>1, SleepInitHolds, SleepNextHolds, RefInitHolds, RefNextHolds, LifeInitHolds,
              LifeNextHolds, RestInit, RestNext, HandlesNext, PTL DEF Spec
=============================================================================
