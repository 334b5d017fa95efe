------------------------- MODULE VBoxNetFlt_proofs -------------------------
(***************************************************************************)
(* The counts of the network filter's instances are those of the calls in  *)
(* progress, an instance found idle stays idle, and the factory's list has *)
(* no freed instance; the connection to the support driver is closed only  *)
(* when nobody uses it, and connected instances keep the module loaded.    *)
(* All this for any number of instances and sending threads.               *)
(***************************************************************************)
EXTENDS VBoxNetFlt, FiniteSetTheorems, TLAPS

AttachAt  == {"attach", "add_pack", "attached", "report"}
CreateAt  == AttachAt \cup {"insert", "init", "registered", "check", "take_back", "get_module", "connect",
                           "bail"}
DestroyAt == {"destroy", "del_pack", "del_notifier", "unlink"}
ReturnTo  == {"idle", "registered", "is_idle", "notified"}

InsType ==
    [mem : {"free", "used"},
     enmState : {"Initializing", "Connected", "Disconnecting", "Destroyed"},
     enmTrunkState : {"INACTIVE", "ACTIVE", "DISCONNECTING"},
     cRefs : Int, cBusy : Int, hEventIdle : BOOLEAN, pSwitchPort : BOOLEAN,
     fDisconnectedFromHost : BOOLEAN, fRediscoveryPending : BOOLEAN,
     pDev : BOOLEAN, fRegistered : BOOLEAN, PacketType : BOOLEAN, Notifier : BOOLEAN]

CtlTypes ==
    /\ pc = [a \in Actor |-> pc[a]] /\ it \in [Actor -> Ins \cup {NIL}]
    /\ ret \in [Actor -> ReturnTo]

Types == ins \in [Ins -> InsType] /\ plugged \in Ins \cup {NIL} /\ chain \in SUBSET Ins /\ CtlTypes

-----------------------------------------------------------------------------
(* The inductive invariant.                                                *)

(* The internal network is creating an instance, *)
Creating == pc[Net] \in CreateAt \/ (pc[Net] \in {"busy", "release"} /\ ret[Net] = "registered")

(* has found its instance idle, *)
FoundIdle == pc[Net] = "is_idle" \/ (pc[Net] = "release" /\ ret[Net] = "is_idle")

(* or waits for that. *)
Waits == pc[Net] \in {"wait", "waiting", "asleep"} \/ FoundIdle

NewIsBlank ==
    /\ plugged = NIL /\ it[Net] \in Ins
    /\ ins[it[Net]].mem = "used"
    /\ ins[it[Net]].enmState = "Initializing" /\ ins[it[Net]].enmTrunkState = "INACTIVE"

OldIsDown ==
    /\ plugged # NIL /\ it[Net] = plugged
    /\ ins[plugged].enmTrunkState = "DISCONNECTING"
    /\ FoundIdle => ins[plugged].cBusy = 0

NetHolds ==
    /\ pc[Net] \in AttachAt \cup {"busy"} => ret[Net] = "registered"
    /\ pc[Net] \in DestroyAt => ret[Net] \notin {"registered", "is_idle"}
    /\ pc[Net] = "create" => plugged = NIL
    /\ Creating => NewIsBlank
    /\ Waits => OldIsDown
    /\ plugged # NIL => ins[plugged].mem = "used" /\ ins[plugged].enmState = "Connected"
    /\ pc[Net] = "insert" => it[Net] \notin chain

(* A sender is about to look at the instance the trunk is plugged into. *)
VmHolds(v) == pc[v] = "retain" => it[v] = plugged /\ plugged # NIL

(* Whoever destroys an instance has dropped its last reference. *)
DestroyerHolds(a) ==
    pc[a] \in DestroyAt /\ it[a] \in Ins /\ ins[it[a]].mem = "used"
        => ins[it[a]].enmState = "Disconnecting" /\ ins[it[a]].cRefs = 0

Own(i) == IF ins[i].enmState = "Disconnecting" THEN 0 ELSE 1

Balanced(i) ==
    /\ IsFiniteSet(Holders(i, BusyAt)) /\ IsFiniteSet(Holders(i, CountedAt))
    /\ ins[i].cBusy = Cardinality(Holders(i, BusyAt))
    /\ ins[i].cRefs = Cardinality(Holders(i, CountedAt)) + Own(i)

(* An instance is new, plugged in, or on its way out. *)
StateHolds(i) ==
    /\ ins[i].enmState # "Destroyed"
    /\ ins[i].enmState = "Initializing" => Creating /\ it[Net] = i
    /\ ins[i].enmState = "Connected" => plugged = i
    /\ ins[i].enmState = "Disconnecting" => ins[i].enmTrunkState = "DISCONNECTING" /\ ins[i].cBusy = 0

PendingHolds(i) ==
    ins[i].fRediscoveryPending => \E v \in Vm : pc[v] = "rediscover" /\ it[v] = i

InsHolds(i) == ins[i].mem = "used" => StateHolds(i) /\ PendingHolds(i) /\ Balanced(i)

ChainHolds == (\A i, j \in chain : i = j) /\ \A i \in chain : ins[i].mem = "used"

Inv ==
    /\ Types /\ NetHolds /\ ChainHolds
    /\ \A v \in Vm : VmHolds(v)
    /\ \A a \in Actor : DestroyerHolds(a)
    /\ \A i \in Ins : InsHolds(i)

-----------------------------------------------------------------------------
(* One actor moves.                                                        *)

Within(a, i, at) == it[a] = i /\ pc[a] \in at

One(p) == IF p THEN 1 ELSE 0

Moves(a) ==
    \A b \in Actor \ {a} : pc'[b] = pc[b] /\ it'[b] = it[b] /\ ret'[b] = ret[b]

(* The set of those who are inside gains or loses the actor that moves. *)
LEMMA HoldersMove ==
    ASSUME NEW a \in Actor, NEW i \in Ins, NEW at, Moves(a), IsFiniteSet(Holders(i, at))
    PROVE  /\ IsFiniteSet(Holders(i, at)')
           /\ Cardinality(Holders(i, at)) \in Nat /\ Cardinality(Holders(i, at)') \in Nat
           /\ Cardinality(Holders(i, at)') =
                 Cardinality(Holders(i, at)) + One(Within(a, i, at)') - One(Within(a, i, at))
           /\ Within(a, i, at) => Cardinality(Holders(i, at)) > 0
  <1> DEFINE H == Holders(i, at)
             K == Holders(i, at)'
  <1>1. H \ {a} = K \ {a}
    BY DEF Moves, Holders
  <1>2. (a \in H <=> Within(a, i, at)) /\ (a \in K <=> Within(a, i, at)')
    BY DEF Holders, Within
  <1>3. IsFiniteSet(H \ {a})
    BY FS_RemoveElement
  <1>4. /\ IsFiniteSet((H \ {a}) \cup {a})
        /\ Cardinality((H \ {a}) \cup {a}) = Cardinality(H \ {a}) + 1
    BY <1>3, FS_AddElement
  <1> HIDE DEF H, K
  <1>5. (a \in H => H = (H \ {a}) \cup {a}) /\ (a \notin H => H = H \ {a})
    OBVIOUS
  <1>6. (a \in K => K = (H \ {a}) \cup {a}) /\ (a \notin K => K = H \ {a})
    BY <1>1
  <1>7. Cardinality(H \ {a}) \in Nat
    BY <1>3, FS_CardinalityType
  <1>8. Cardinality(H) = Cardinality(H \ {a}) + One(Within(a, i, at))
    <2>1. CASE a \in H
      BY <2>1, <1>2, <1>4, <1>5 DEF One
    <2>2. CASE a \notin H
      <3>1. H = H \ {a} /\ ~Within(a, i, at)
        BY <2>2, <1>2, <1>5
      <3>2. One(Within(a, i, at)) = 0
        BY <3>1 DEF One
      <3>. QED BY <3>1, <3>2, <1>7
    <2>. QED BY <2>1, <2>2
  <1>9. Cardinality(K) = Cardinality(H \ {a}) + One(Within(a, i, at)') /\ IsFiniteSet(K)
    BY <1>2, <1>3, <1>4, <1>6, <1>7 DEF One
  <1>10. One(Within(a, i, at)) \in {0, 1} /\ One(Within(a, i, at)') \in {0, 1}
    BY DEF One
  <1>11. /\ Cardinality(H) \in Nat /\ Cardinality(K) \in Nat
         /\ Cardinality(K) = Cardinality(H) + One(Within(a, i, at)') - One(Within(a, i, at))
    BY <1>7, <1>8, <1>9, <1>10
  <1>12. Within(a, i, at) => Cardinality(H) > 0
    BY <1>7, <1>8 DEF One
  <1>. QED BY <1>9, <1>11, <1>12 DEF H, K

(* What the move has to do with the counts. *)
Counts(a, i) ==
    /\ ins'[i].cBusy = ins[i].cBusy + One(Within(a, i, BusyAt)') - One(Within(a, i, BusyAt))
    /\ ins'[i].cRefs = ins[i].cRefs + One(Within(a, i, CountedAt)') - One(Within(a, i, CountedAt))
                       + Own(i)' - Own(i)

LEMMA BalanceMoves ==
    ASSUME NEW a \in Actor, NEW i \in Ins, Moves(a), Balanced(i), Counts(a, i)
    PROVE  Balanced(i)'
  <1>1. /\ One(Within(a, i, BusyAt)) \in Int /\ One(Within(a, i, BusyAt)') \in Int
        /\ One(Within(a, i, CountedAt)) \in Int /\ One(Within(a, i, CountedAt)') \in Int
        /\ Own(i) \in Int /\ Own(i)' \in Int
    BY DEF One, Own
  <1>2. /\ IsFiniteSet(Holders(i, BusyAt)') /\ Cardinality(Holders(i, BusyAt)) \in Nat
        /\ Cardinality(Holders(i, BusyAt)') =
             Cardinality(Holders(i, BusyAt)) + One(Within(a, i, BusyAt)') - One(Within(a, i, BusyAt))
    BY HoldersMove DEF Balanced
  <1>3. /\ IsFiniteSet(Holders(i, CountedAt)') /\ Cardinality(Holders(i, CountedAt)) \in Nat
        /\ Cardinality(Holders(i, CountedAt)') =
             Cardinality(Holders(i, CountedAt)) + One(Within(a, i, CountedAt)') - One(Within(a, i, CountedAt))
    BY HoldersMove DEF Balanced
  <1>4. ins'[i].cBusy = Cardinality(Holders(i, BusyAt)')
    BY <1>1, <1>2 DEF Counts, Balanced
  <1>5. ins'[i].cRefs = Cardinality(Holders(i, CountedAt)') + Own(i)'
    BY <1>1, <1>3 DEF Counts, Balanced
  <1>. QED BY <1>2, <1>3, <1>4, <1>5 DEF Balanced

(* A step that only counts, at most: nobody enters who must not, and who   *)
(* ends the rediscovery takes the mark back.                               *)
Steady(a, i) ==
    /\ UNCHANGED <<ins[i].mem, ins[i].enmState, ins[i].enmTrunkState>>
    /\ ins[i].mem = "used" =>
          /\ Counts(a, i)
          /\ Within(a, i, BusyAt)' => Within(a, i, BusyAt) \/ ins[i].enmTrunkState # "DISCONNECTING"
          /\ Within(a, i, CountedAt)' => Within(a, i, CountedAt) \/ ins[i].enmState # "Disconnecting"
          /\ ins'[i].fRediscoveryPending =>
                \/ ins[i].fRediscoveryPending /\ ~Within(a, i, {"rediscover"})
                \/ a \in Vm /\ Within(a, i, {"rediscover"})'

LEMMA MoveKeeps ==
    ASSUME Inv, NEW a \in Actor, Types', Moves(a), UNCHANGED <<chain, plugged>>,
           \A i \in Ins : Steady(a, i),
           a = Net => NetHolds' /\ (Creating => Creating' /\ it'[Net] = it[Net]),
           a \in Vm => VmHolds(a)', DestroyerHolds(a)'
    PROVE  Inv'
  <1>1. ASSUME NEW i \in Ins, ins[i].mem = "used"
        PROVE  Balanced(i) /\ StateHolds(i) /\ PendingHolds(i) /\ Balanced(i)'
               /\ ins[i].cBusy \in Int /\ ins[i].cRefs \in Int
    <2>1. InsHolds(i) /\ Steady(a, i) /\ ins[i] \in InsType
      BY DEF Inv, Types
    <2>2. Balanced(i) /\ Counts(a, i)
      BY <2>1, <1>1 DEF InsHolds, Steady
    <2>3. Balanced(i)'
      BY <2>2, BalanceMoves
    <2>. QED BY <2>1, <2>2, <2>3, <1>1 DEF InsHolds, InsType
  <1>2. ASSUME NEW i \in Ins, ins[i].mem = "used", ins[i].enmTrunkState = "DISCONNECTING", ins[i].cBusy = 0
        PROVE  ins'[i].cBusy = 0
    <2>1. Balanced(i) /\ Steady(a, i)
      BY <1>1, <1>2
    <2>2. ~Within(a, i, BusyAt)
      <3>1. Cardinality(Holders(i, BusyAt)) = 0 /\ IsFiniteSet(Holders(i, BusyAt))
        BY <2>1, <1>2 DEF Balanced
      <3>2. Within(a, i, BusyAt) => Cardinality(Holders(i, BusyAt)) > 0
        BY <3>1, HoldersMove
      <3>. QED BY <3>1, <3>2
    <2>3. ~Within(a, i, BusyAt)'
      BY <2>1, <2>2, <1>2 DEF Steady
    <2>. QED BY <2>1, <2>2, <2>3, <1>2 DEF Steady, Counts, One
  <1>3. ASSUME NEW i \in Ins, ins[i].mem = "used", ins[i].enmState = "Disconnecting", ins[i].cRefs = 0
        PROVE  ins'[i].cRefs = 0
    <2>1. Balanced(i) /\ Steady(a, i)
      BY <1>1, <1>3
    <2>2. ~Within(a, i, CountedAt)
      <3>1. Own(i) = 0 /\ Cardinality(Holders(i, CountedAt)) \in Nat
        BY <2>1, <1>3, HoldersMove DEF Balanced, Own
      <3>. QED BY <3>1, <2>1, <1>3, HoldersMove DEF Balanced
    <2>3. ~Within(a, i, CountedAt)'
      BY <2>1, <2>2, <1>3 DEF Steady
    <2>4. Own(i) = 0 /\ Own(i)' = 0
      BY <2>1, <1>3 DEF Own, Steady
    <2>. QED BY <2>1, <2>2, <2>3, <2>4, <1>3 DEF Steady, Counts, One
  <1>4. \A i \in Ins : UNCHANGED <<ins[i].mem, ins[i].enmState, ins[i].enmTrunkState>>
    BY DEF Steady
  <1>5. NetHolds'
    <2>1. CASE a # Net
      <3>1. UNCHANGED <<pc[Net], it[Net], ret[Net]>>
        BY <2>1 DEF Moves, Actor
      <3>2. (Creating' <=> Creating) /\ (FoundIdle' <=> FoundIdle) /\ (Waits' <=> Waits)
        BY <3>1 DEF Creating, FoundIdle, Waits
      <3>3. NetHolds
        BY DEF Inv
      <3>4. Creating => NewIsBlank'
        BY <3>1, <3>3, <1>4 DEF NetHolds, NewIsBlank
      <3>5. plugged # NIL => plugged \in Ins
        BY DEF Inv, Types
      <3>6. Waits => OldIsDown'
        BY <3>1, <3>2, <3>3, <3>5, <1>2, <1>4 DEF NetHolds, OldIsDown
      <3>7. plugged' # NIL => ins'[plugged].mem = "used" /\ ins'[plugged].enmState = "Connected"
        BY <3>3, <3>5, <1>4 DEF NetHolds
      <3>. QED BY <3>1, <3>2, <3>3, <3>4, <3>6, <3>7 DEF NetHolds
    <2>. QED BY <2>1
  <1>6. ChainHolds'
    BY <1>4 DEF Inv, ChainHolds, Types
  <1>7. ASSUME NEW v \in Vm PROVE VmHolds(v)'
    BY DEF Inv, VmHolds, Moves, Actor
  <1>8. ASSUME NEW b \in Actor PROVE DestroyerHolds(b)'
    BY <1>3, <1>4 DEF Inv, DestroyerHolds, Moves
  <1>9. ASSUME NEW i \in Ins PROVE InsHolds(i)'
    <2>1. SUFFICES ASSUME ins'[i].mem = "used" PROVE (StateHolds(i) /\ PendingHolds(i))'
      BY <1>1, <1>4 DEF InsHolds
    <2>2. ins[i].mem = "used"
      BY <2>1, <1>4
    <2>3. Creating => Creating' /\ it'[Net] = it[Net]
      BY DEF Creating, Moves, Actor
    <2>4. StateHolds(i)'
      BY <2>2, <2>3, <1>1, <1>2, <1>4 DEF StateHolds
    <2>5. PendingHolds(i)'
      <3>1. PendingHolds(i) /\ Steady(a, i)
        BY <2>2, <1>1
      <3>2. CASE a \in Vm /\ Within(a, i, {"rediscover"})'
        BY <3>2 DEF PendingHolds, Within
      <3>3. CASE ins[i].fRediscoveryPending /\ ~Within(a, i, {"rediscover"})
        BY <3>1, <3>3 DEF PendingHolds, Within, Moves, Actor
      <3>. QED BY <3>1, <3>2, <3>3, <2>2 DEF Steady, PendingHolds
    <2>. QED BY <2>4, <2>5
  <1>. QED BY <1>5, <1>6, <1>7, <1>8, <1>9 DEF Inv

(* A step without any of that. *)
KeepsCore ==
    /\ ins' \in [Ins -> InsType]
    /\ \A i \in Ins : UNCHANGED <<ins[i].mem, ins[i].enmState, ins[i].enmTrunkState, ins[i].cRefs,
                                  ins[i].cBusy, ins[i].fRediscoveryPending>>

Quiet(a) ==
    /\ KeepsCore /\ UNCHANGED <<chain, plugged>>
    /\ pc[a] # "rediscover"
    /\ pc'[a] \in BusyAt <=> pc[a] \in BusyAt
    /\ pc'[a] \in CountedAt <=> pc[a] \in CountedAt
    /\ it'[a] = it[a] \/ pc[a] \notin CountedAt

LEMMA QuietKeeps ==
    ASSUME Inv, NEW a \in Actor, CtlTypes', Moves(a), Quiet(a),
           a = Net => NetHolds' /\ (Creating => Creating' /\ it'[Net] = it[Net]),
           a \in Vm => VmHolds(a)', DestroyerHolds(a)'
    PROVE  Inv'
  <1>1. ASSUME NEW i \in Ins PROVE Steady(a, i)
    <2>1. /\ Within(a, i, BusyAt)' <=> Within(a, i, BusyAt)
          /\ Within(a, i, CountedAt)' <=> Within(a, i, CountedAt)
          /\ ~Within(a, i, {"rediscover"})
      BY DEF Quiet, Within, BusyAt, CountedAt
    <2>2. ins[i] \in InsType
      BY DEF Inv, Types
    <2>3. Counts(a, i)
      <3>1. One(Within(a, i, BusyAt)') = One(Within(a, i, BusyAt)) /\ One(Within(a, i, BusyAt)) \in Int
        BY <2>1 DEF One
      <3>2. /\ One(Within(a, i, CountedAt)') = One(Within(a, i, CountedAt))
            /\ One(Within(a, i, CountedAt)) \in Int
        BY <2>1 DEF One
      <3>3. Own(i)' = Own(i) /\ Own(i) \in Int
        BY DEF Own, Quiet, KeepsCore
      <3>. QED BY <3>1, <3>2, <3>3, <2>2 DEF Counts, Quiet, KeepsCore, InsType
    <2>. QED BY <2>1, <2>3 DEF Steady, Quiet, KeepsCore
  <1>2. Types' /\ UNCHANGED <<chain, plugged>>
    BY DEF Inv, Types, Quiet, KeepsCore
  <1>. QED BY <1>1, <1>2, MoveKeeps

LEMMA NobodyTouched == Inv /\ UNCHANGED ins => KeepsCore
  BY DEF Inv, Types, KeepsCore

(* One instance changes. *)
LEMMA OneTouched ==
    ASSUME Inv, NEW i \in Ins, NEW r \in InsType, ins' = [ins EXCEPT ![i] = r]
    PROVE  /\ ins' \in [Ins -> InsType] /\ ins'[i] = r /\ \A j \in Ins \ {i} : ins'[j] = ins[j]
           /\ ins[i] \in InsType
  BY DEF Inv, Types

LEMMA CoreUntouched ==
    ASSUME Inv, NEW i \in Ins, NEW r \in InsType, ins' = [ins EXCEPT ![i] = r],
           /\ r.mem = ins[i].mem /\ r.enmState = ins[i].enmState
           /\ r.enmTrunkState = ins[i].enmTrunkState
           /\ r.cRefs = ins[i].cRefs /\ r.cBusy = ins[i].cBusy
           /\ r.fRediscoveryPending = ins[i].fRediscoveryPending
    PROVE  KeepsCore
  BY OneTouched DEF KeepsCore

(* The fields that only say what the instance has with the kernel. *)
LEMMA FieldsUntouched ==
    ASSUME Inv, NEW i \in Ins, NEW b \in BOOLEAN,
           \/ ins' = [ins EXCEPT ![i].pDev = b]
           \/ ins' = [ins EXCEPT ![i].PacketType = b]
           \/ ins' = [ins EXCEPT ![i].Notifier = b]
           \/ ins' = [ins EXCEPT ![i].hEventIdle = b]
           \/ ins' = [ins EXCEPT ![i].fDisconnectedFromHost = FALSE, ![i].fRegistered = TRUE]
           \/ ins' = [ins EXCEPT ![i].fRegistered = FALSE, ![i].fDisconnectedFromHost = TRUE,
                                 ![i].pDev = FALSE]
    PROVE  KeepsCore
  <1>0. ins[i] \in InsType /\ ins \in [Ins -> InsType]
    BY DEF Inv, Types
  <1>1. CASE ins' = [ins EXCEPT ![i].pDev = b]
    <2>1. PICK r : r = [ins[i] EXCEPT !.pDev = b]
      OBVIOUS
    <2>2. ins' = [ins EXCEPT ![i] = r]
      BY <1>0, <1>1, <2>1
    <2>. QED BY <1>0, <2>1, <2>2, CoreUntouched DEF InsType
  <1>2. CASE ins' = [ins EXCEPT ![i].PacketType = b]
    <2>1. PICK r : r = [ins[i] EXCEPT !.PacketType = b]
      OBVIOUS
    <2>2. ins' = [ins EXCEPT ![i] = r]
      BY <1>0, <1>2, <2>1
    <2>. QED BY <1>0, <2>1, <2>2, CoreUntouched DEF InsType
  <1>3. CASE ins' = [ins EXCEPT ![i].Notifier = b]
    <2>1. PICK r : r = [ins[i] EXCEPT !.Notifier = b]
      OBVIOUS
    <2>2. ins' = [ins EXCEPT ![i] = r]
      BY <1>0, <1>3, <2>1
    <2>. QED BY <1>0, <2>1, <2>2, CoreUntouched DEF InsType
  <1>4. CASE ins' = [ins EXCEPT ![i].hEventIdle = b]
    <2>1. PICK r : r = [ins[i] EXCEPT !.hEventIdle = b]
      OBVIOUS
    <2>2. ins' = [ins EXCEPT ![i] = r]
      BY <1>0, <1>4, <2>1
    <2>. QED BY <1>0, <2>1, <2>2, CoreUntouched DEF InsType
  <1>5. CASE ins' = [ins EXCEPT ![i].fDisconnectedFromHost = FALSE, ![i].fRegistered = TRUE]
    <2>1. PICK r : r = [ins[i] EXCEPT !.fDisconnectedFromHost = FALSE, !.fRegistered = TRUE]
      OBVIOUS
    <2>2. ins' = [ins EXCEPT ![i] = r]
      BY <1>0, <1>5, <2>1
    <2>. QED BY <1>0, <2>1, <2>2, CoreUntouched DEF InsType
  <1>6. CASE ins' = [ins EXCEPT ![i].fRegistered = FALSE, ![i].fDisconnectedFromHost = TRUE,
                                ![i].pDev = FALSE]
    <2>1. PICK r : r = [ins[i] EXCEPT !.fRegistered = FALSE, !.fDisconnectedFromHost = TRUE,
                                      !.pDev = FALSE]
      OBVIOUS
    <2>2. ins' = [ins EXCEPT ![i] = r]
      BY <1>0, <1>6, <2>1
    <2>. QED BY <1>0, <2>1, <2>2, CoreUntouched DEF InsType
  <1>. QED BY <1>1, <1>2, <1>3, <1>4, <1>5, <1>6

(* Going elsewhere. *)
LEMMA GotoMoves ==
    ASSUME Inv, NEW a \in Actor, NEW l, Goto(a, l)
    PROVE  /\ Moves(a) /\ CtlTypes' /\ pc'[a] = l
           /\ it'[a] = IF l \in {"idle", "fac_release"} THEN NIL ELSE it[a]
           /\ ret'[a] = IF l = "idle" THEN "idle" ELSE ret[a]
  BY DEF Inv, Types, CtlTypes, Goto, Moves, ReturnTo

LEMMA ActorsDiffer ==
    /\ {Net, Kernel, Rx, Exit} \subseteq Actor /\ Vm \subseteq Actor
    /\ {Net, Kernel, Rx, Exit} \cap Vm = {}
    /\ Net \notin {Kernel, Rx, Exit}
  BY VmAssumption DEF Actor, Net, Kernel, Rx, Exit

-----------------------------------------------------------------------------
(* Every step preserves the invariant: first the quiet ones.               *)

LEMMA AttachKeeps ==
    ASSUME Inv, NEW a \in {Net, Kernel}, NEW i \in Ins,
           vboxNetFltLinuxAttachToInterface(a, i) \/ dev_add_pack(a, i) \/ SetIndicators(a, i)
    PROVE  Inv'
  <1>1. KeepsCore
    BY FieldsUntouched DEF vboxNetFltLinuxAttachToInterface, dev_add_pack, SetIndicators
  <1>2. PICK l : /\ l \in {"add_pack", "attached", "report"} /\ Goto(a, l)
                 /\ pc[a] \in {"attach", "add_pack", "attached"} /\ UNCHANGED <<chain, plugged>>
    BY DEF vboxNetFltLinuxAttachToInterface, dev_add_pack, SetIndicators, At, globals
  <1>3. a \in Actor /\ a \notin Vm
    BY ActorsDiffer
  <1>4. Moves(a) /\ CtlTypes' /\ pc'[a] = l /\ it'[a] = it[a] /\ ret'[a] = ret[a]
    BY <1>2, <1>3, GotoMoves
  <1>5. Quiet(a)
    BY <1>1, <1>2, <1>4 DEF Quiet, BusyAt, CountedAt
  <1>6. DestroyerHolds(a)'
    BY <1>2, <1>4 DEF DestroyerHolds, DestroyAt
  <1>7. CASE a = Net
    <2>1. NetHolds /\ Creating /\ Creating' /\ ~Waits'
      BY <1>2, <1>4, <1>7 DEF Inv, Creating, Waits, FoundIdle, CreateAt, AttachAt
    <2>2. NewIsBlank'
      BY <2>1, <1>1, <1>2, <1>4, <1>7 DEF NetHolds, NewIsBlank, KeepsCore
    <2>3. NetHolds'
      BY <2>1, <2>2, <1>2, <1>4, <1>7 DEF NetHolds, NewIsBlank, AttachAt, DestroyAt
    <2>. QED BY <2>1, <2>3, <1>3, <1>4, <1>5, <1>6, <1>7, QuietKeeps
  <1>. QED BY <1>3, <1>4, <1>5, <1>6, <1>7, QuietKeeps

(* An actor other than the internal network, outside every count. *)
LEMMA OthersQuiet ==
    ASSUME Inv, NEW a \in {Kernel, Rx, Exit}, CtlTypes', Moves(a), KeepsCore,
           UNCHANGED <<chain, plugged>>,
           pc[a] \notin CountedAt, pc'[a] \notin CountedAt \cup DestroyAt
    PROVE  Inv'
  <1>1. a \in Actor /\ a \notin Vm /\ a # Net
    BY ActorsDiffer
  <1>2. Quiet(a)
    BY DEF Quiet, BusyAt, CountedAt
  <1>3. DestroyerHolds(a)'
    BY DEF DestroyerHolds
  <1>. QED BY <1>1, <1>2, <1>3, QuietKeeps

LEMMA DeviceKeeps ==
    ASSUME Inv, DeviceEvent \/ Notified \/ (\E i \in Ins : RemovePack(i))
    PROVE  Inv'
  <1>1. CASE Unheard
    <2>1. CtlTypes' /\ Moves(Kernel) /\ KeepsCore /\ UNCHANGED <<chain, plugged, pc>>
      BY <1>1, NobodyTouched DEF Unheard, ctl, globals, Moves, Inv, Types, CtlTypes
    <2>2. pc[Kernel] = "idle"
      BY <1>1 DEF Unheard
    <2>. QED BY <2>1, <2>2, OthersQuiet DEF CountedAt, BusyAt, DestroyAt
  <1>2. ASSUME NEW i \in Ins, vboxNetFltLinuxNotifierCallback(i) PROVE Inv'
    <2>1. KeepsCore /\ UNCHANGED <<chain, plugged>> /\ pc[Kernel] = "idle"
      BY <1>2, NobodyTouched DEF vboxNetFltLinuxNotifierCallback, globals
    <2>2. CtlTypes' /\ Moves(Kernel) /\ pc'[Kernel] = "attach"
      BY <1>2, ActorsDiffer DEF vboxNetFltLinuxNotifierCallback, Inv, Types, CtlTypes, Moves, ReturnTo
    <2>. QED BY <2>1, <2>2, OthersQuiet DEF CountedAt, BusyAt, DestroyAt
  <1>3. ASSUME NEW i \in Ins, vboxNetFltLinuxUnregisterDevice(i) PROVE Inv'
    <2>1. KeepsCore
      BY <1>3, FieldsUntouched DEF vboxNetFltLinuxUnregisterDevice
    <2>2. UNCHANGED <<chain, plugged>> /\ pc[Kernel] = "idle"
      BY <1>3 DEF vboxNetFltLinuxUnregisterDevice, globals
    <2>3. CtlTypes' /\ Moves(Kernel) /\ pc'[Kernel] = "rem_pack"
      BY <1>3, ActorsDiffer DEF vboxNetFltLinuxUnregisterDevice, Inv, Types, CtlTypes, Moves
    <2>. QED BY <2>1, <2>2, <2>3, OthersQuiet DEF CountedAt, BusyAt, DestroyAt
  <1>4. ASSUME NEW i \in Ins, RemovePack(i) PROVE Inv'
    <2>1. KeepsCore
      BY <1>4, FieldsUntouched DEF RemovePack
    <2>2. UNCHANGED <<chain, plugged>> /\ pc[Kernel] = "rem_pack" /\ Goto(Kernel, "notified")
      BY <1>4 DEF RemovePack, globals, At
    <2>3. CtlTypes' /\ Moves(Kernel) /\ pc'[Kernel] = "notified"
      BY <2>2, ActorsDiffer, GotoMoves
    <2>. QED BY <2>1, <2>2, <2>3, OthersQuiet DEF CountedAt, BusyAt, DestroyAt
  <1>5. CASE Notified
    <2>1. KeepsCore
      BY <1>5, NobodyTouched DEF Notified
    <2>2. UNCHANGED <<chain, plugged>> /\ pc[Kernel] = "notified" /\ Goto(Kernel, "idle")
      BY <1>5 DEF Notified, globals
    <2>3. CtlTypes' /\ Moves(Kernel) /\ pc'[Kernel] = "idle"
      BY <2>2, ActorsDiffer, GotoMoves
    <2>. QED BY <2>1, <2>2, <2>3, OthersQuiet DEF CountedAt, BusyAt, DestroyAt
  <1>. QED BY <1>1, <1>2, <1>3, <1>4, <1>5 DEF DeviceEvent

LEMMA ReceiveKeeps ==
    ASSUME Inv, Receive \/ Received
    PROVE  Inv'
  <1>1. ASSUME NEW i \in Ins, vboxNetFltLinuxPacketHandler(i) PROVE Inv'
    <2>1. KeepsCore /\ UNCHANGED <<chain, plugged>> /\ pc[Rx] = "idle"
      BY <1>1, NobodyTouched DEF vboxNetFltLinuxPacketHandler, globals
    <2>2. CtlTypes' /\ Moves(Rx) /\ pc'[Rx] = "recv"
      BY <1>1, ActorsDiffer DEF vboxNetFltLinuxPacketHandler, Inv, Types, CtlTypes, Moves
    <2>. QED BY <2>1, <2>2, OthersQuiet DEF CountedAt, BusyAt, DestroyAt
  <1>2. ASSUME NEW i \in Ins, vboxNetFltLinuxForwardSegment(i) PROVE Inv'
    <2>1. /\ KeepsCore /\ UNCHANGED <<chain, plugged>> /\ pc[Rx] = "recv" /\ Goto(Rx, "idle")
      BY <1>2, NobodyTouched DEF vboxNetFltLinuxForwardSegment, globals, At
    <2>2. CtlTypes' /\ Moves(Rx) /\ pc'[Rx] = "idle"
      BY <2>1, ActorsDiffer, GotoMoves
    <2>. QED BY <2>1, <2>2, OthersQuiet DEF CountedAt, BusyAt, DestroyAt
  <1>. QED BY <1>1, <1>2 DEF Receive, Received

(* Unloading and loading touches no instance. *)
LEMMA ExitKeeps ==
    ASSUME Inv, VBoxNetFltLinuxUnload \/ ExitStep \/ VBoxNetFltLinuxInit
    PROVE  Inv'
  <1>1. /\ UNCHANGED <<ins, chain, plugged, it, ret>>
        /\ UNCHANGED pc \/ \E l \in {"try", "dereg", "term", "recheck", "close", "rereg", "gone", "idle"} :
              pc' = [pc EXCEPT ![Exit] = l]
        /\ pc[Exit] \in {"try", "dereg", "term", "recheck", "close", "rereg", "gone", "idle"}
    BY DEF VBoxNetFltLinuxUnload, ExitStep, VBoxNetFltLinuxInit, vboxNetFltTryDeleteIdc,
           SUPR0ComponentDeregisterFactory, Recheck, SUPR0ComponentRegisterFactory, SUPR0IdcClose, Gone,
           ExitTo, globals, ctl
  <1>2. /\ CtlTypes' /\ Moves(Exit) /\ KeepsCore
        /\ pc'[Exit] \in {"try", "dereg", "term", "recheck", "close", "rereg", "gone", "idle"}
    BY <1>1, ActorsDiffer, NobodyTouched DEF Inv, Types, CtlTypes, Moves
  <1>. QED BY <1>1, <1>2, OthersQuiet DEF CountedAt, BusyAt, DestroyAt

LEMMA DestroyerKeeps ==
    ASSUME Inv, NEW a \in {Net, Kernel}, NEW i \in Ins,
           vboxNetFltDestroyInstance(a, i) \/ vboxNetFltOsDeleteInstance(a, i) \/ DeleteNotifier(a, i)
    PROVE  Inv'
  <1>1. a \in Actor /\ a \notin Vm
    BY ActorsDiffer
  <1>2. PICK l : /\ l \in DestroyAt /\ Goto(a, l) /\ pc[a] \in DestroyAt /\ UNCHANGED <<chain, plugged>>
                 /\ it[a] = i /\ ins[i].mem = "used"
    BY DEF vboxNetFltDestroyInstance, vboxNetFltOsDeleteInstance, DeleteNotifier, At, globals, DestroyAt
  <1>3. Moves(a) /\ CtlTypes' /\ pc'[a] = l /\ it'[a] = it[a] /\ ret'[a] = ret[a]
    BY <1>1, <1>2, GotoMoves DEF DestroyAt
  <1>4. DestroyerHolds(a) /\ ins[i].enmState = "Disconnecting"
    BY <1>1, <1>2 DEF Inv, DestroyerHolds
  <1>5. KeepsCore
    <2>1. CASE vboxNetFltDestroyInstance(a, i)
      <3>0. ins[i] \in InsType /\ ins \in [Ins -> InsType]
        BY DEF Inv, Types
      <3>1. PICK r : r = [ins[i] EXCEPT !.enmState = "Disconnecting"]
        OBVIOUS
      <3>2. ins' = [ins EXCEPT ![i] = r]
        BY <3>0, <3>1, <2>1 DEF vboxNetFltDestroyInstance
      <3>. QED BY <3>0, <3>1, <3>2, <1>4, CoreUntouched DEF InsType
    <2>2. CASE vboxNetFltOsDeleteInstance(a, i) \/ DeleteNotifier(a, i)
      BY <2>2, FieldsUntouched DEF vboxNetFltOsDeleteInstance, DeleteNotifier
    <2>. QED BY <2>1, <2>2
  <1>6. Quiet(a)
    BY <1>2, <1>3, <1>5 DEF Quiet, BusyAt, CountedAt, DestroyAt
  <1>7. DestroyerHolds(a)'
    BY <1>2, <1>3, <1>4, <1>5 DEF DestroyerHolds, KeepsCore
  <1>8. CASE a = Net
    <2>1. NetHolds /\ ~Creating /\ ~Creating' /\ ~Waits'
      BY <1>2, <1>3, <1>8 DEF Inv, Creating, Waits, FoundIdle, CreateAt, AttachAt, DestroyAt
    <2>2. plugged \in Ins \cup {NIL}
      BY DEF Inv, Types
    <2>3. NetHolds'
      BY <2>1, <2>2, <1>2, <1>3, <1>5, <1>8 DEF NetHolds, AttachAt, DestroyAt, KeepsCore
    <2>. QED BY <2>1, <2>3, <1>1, <1>3, <1>6, <1>7, QuietKeeps
  <1>. QED BY <1>1, <1>3, <1>6, <1>7, <1>8, QuietKeeps

LEMMA SenderKeeps ==
    ASSUME Inv, NEW v \in Vm,
           \/ vboxNetFltPortXmit(v)
           \/ \E i \in Ins : XmitRetain(v, i) /\ ins[i].enmTrunkState # "ACTIVE"
           \/ \E i \in Ins : vboxNetFltPortOsXmit(v, i) /\ UNCHANGED ins
    PROVE  Inv'
  <1>1. v \in Actor /\ v # Net
    BY ActorsDiffer
  <1>2. KeepsCore /\ UNCHANGED <<chain, plugged>>
    BY NobodyTouched DEF vboxNetFltPortXmit, XmitRetain, vboxNetFltTryRetainBusyActive,
                         vboxNetFltPortOsXmit, globals
  <1>3. CASE vboxNetFltPortXmit(v)
    <2>1. plugged \in Ins \cup {NIL} /\ CtlTypes
      BY DEF Inv, Types
    <2>2. /\ pc[v] = "idle" /\ plugged # NIL
          /\ pc' = [pc EXCEPT ![v] = "retain"] /\ it' = [it EXCEPT ![v] = plugged]
          /\ ret' = [ret EXCEPT ![v] = "idle"]
      BY <1>3 DEF vboxNetFltPortXmit, Connected
    <2>3. CtlTypes' /\ Moves(v) /\ pc'[v] = "retain" /\ it'[v] = plugged
      BY <2>1, <2>2, <1>1 DEF CtlTypes, Moves, ReturnTo
    <2>4. Quiet(v)
      BY <2>2, <2>3, <1>2 DEF Quiet, BusyAt, CountedAt
    <2>5. VmHolds(v)' /\ DestroyerHolds(v)'
      BY <2>2, <2>3, <1>2 DEF VmHolds, DestroyerHolds, DestroyAt
    <2>. QED BY <2>3, <2>4, <2>5, <1>1, QuietKeeps
  <1>4. ASSUME NEW i \in Ins, XmitRetain(v, i), ins[i].enmTrunkState # "ACTIVE" PROVE Inv'
    <2>1. pc[v] = "retain" /\ Goto(v, "idle")
      BY <1>4 DEF XmitRetain, At
    <2>2. CtlTypes' /\ Moves(v) /\ pc'[v] = "idle"
      BY <2>1, <1>1, GotoMoves
    <2>3. Quiet(v)
      BY <2>1, <2>2, <1>2 DEF Quiet, BusyAt, CountedAt
    <2>4. VmHolds(v)' /\ DestroyerHolds(v)'
      BY <2>2 DEF VmHolds, DestroyerHolds, DestroyAt
    <2>. QED BY <2>2, <2>3, <2>4, <1>1, QuietKeeps
  <1>5. ASSUME NEW i \in Ins, vboxNetFltPortOsXmit(v, i), UNCHANGED ins PROVE Inv'
    <2>1. pc[v] = "xmit" /\ Goto(v, "busy")
      <3>1. ins \in [Ins -> InsType]
        BY DEF Inv, Types
      <3>2. CASE /\ ~ins[i].fRediscoveryPending
                 /\ ins' = [ins EXCEPT ![i].fRediscoveryPending = TRUE]
        <4>1. ins'[i].fRediscoveryPending = TRUE
          BY <3>1, <3>2 DEF InsType
        <4>. QED BY <4>1, <3>2, <1>5
      <3>. QED BY <3>2, <1>5 DEF vboxNetFltPortOsXmit, At
    <2>2. CtlTypes' /\ Moves(v) /\ pc'[v] = "busy" /\ it'[v] = it[v]
      BY <2>1, <1>1, GotoMoves
    <2>3. Quiet(v)
      BY <2>1, <2>2, <1>2 DEF Quiet, BusyAt, CountedAt
    <2>4. VmHolds(v)' /\ DestroyerHolds(v)'
      BY <2>2 DEF VmHolds, DestroyerHolds, DestroyAt
    <2>. QED BY <2>2, <2>3, <2>4, <1>1, QuietKeeps
  <1>. QED BY <1>3, <1>4, <1>5

LEMMA CreatorKeeps ==
    ASSUME Inv, KeepsCore, UNCHANGED <<chain, plugged>>, CtlTypes', Moves(Net),
           pc[Net] \in CreateAt, pc'[Net] \in CreateAt \ {"insert"}, it'[Net] = it[Net],
           pc'[Net] \in AttachAt => ret'[Net] = "registered"
    PROVE  Inv'
  <1>1. NetHolds /\ Creating /\ Creating' /\ ~Waits'
    BY DEF Inv, Creating, Waits, FoundIdle, CreateAt, AttachAt
  <1>2. NewIsBlank'
    BY <1>1 DEF NetHolds, NewIsBlank, KeepsCore
  <1>3. NetHolds'
    BY <1>1, <1>2 DEF NetHolds, NewIsBlank, CreateAt, AttachAt, DestroyAt
  <1>4. Quiet(Net) /\ DestroyerHolds(Net)'
    BY DEF Quiet, BusyAt, CountedAt, CreateAt, AttachAt, DestroyAt, DestroyerHolds
  <1>. QED BY <1>1, <1>3, <1>4, ActorsDiffer, QuietKeeps

LEMMA FactoryKeeps ==
    ASSUME Inv,
           \/ Open \/ vboxNetFltFactoryRelease
           \/ vboxNetFltFactoryCreateAndConnect /\ Goto(Net, "fac_release") /\ UNCHANGED ins
    PROVE  Inv'
  <1>1. PICK l : /\ l \in {"create", "fac_release", "idle"} /\ Goto(Net, l)
                 /\ pc[Net] \in {"idle", "create", "fac_release"}
                 /\ l = "create" => plugged = NIL
                 /\ UNCHANGED <<ins, chain, plugged>>
    BY DEF Open, SUPR0ComponentQueryFactory, vboxNetFltFactoryCreateAndConnect,
           vboxNetFltFactoryRelease, globals
  <1>2. KeepsCore /\ CtlTypes' /\ Moves(Net) /\ pc'[Net] = l
    BY <1>1, ActorsDiffer, NobodyTouched, GotoMoves
  <1>3. NetHolds /\ ~Creating /\ ~Creating' /\ ~Waits'
    BY <1>1, <1>2 DEF Inv, Creating, Waits, FoundIdle, CreateAt, AttachAt
  <1>4. NetHolds'
    BY <1>1, <1>2, <1>3 DEF NetHolds, AttachAt, DestroyAt
  <1>5. Quiet(Net) /\ DestroyerHolds(Net)'
    BY <1>1, <1>2 DEF Quiet, BusyAt, CountedAt, DestroyAt, DestroyerHolds
  <1>. QED BY <1>2, <1>3, <1>4, <1>5, ActorsDiffer, QuietKeeps

LEMMA InitInstanceKeeps ==
    ASSUME Inv, NEW i \in Ins,
           \/ vboxNetFltOsInitInstance(i) \/ NotifierRegistered(i) \/ CheckRegistered(i)
           \/ TakeBackNotifier(i) \/ try_module_get(i)
    PROVE  Inv'
  <1>. DEFINE Fails == vboxNetFltOsInitInstance(i) /\ Goto(Net, "bail")
  <1>1. CASE vboxNetFltOsInitInstance(i) /\ ~Goto(Net, "bail")
    <2>1. KeepsCore /\ UNCHANGED <<chain, plugged, it>> /\ pc[Net] = "init"
      BY <1>1, FieldsUntouched DEF vboxNetFltOsInitInstance, globals, At
    <2>2. CtlTypes' /\ Moves(Net) /\ pc'[Net] \in {"attach", "registered"} /\ ret'[Net] = "registered"
      BY <1>1, ActorsDiffer DEF vboxNetFltOsInitInstance, Inv, Types, CtlTypes, Moves, ReturnTo
    <2>. QED BY <2>1, <2>2, CreatorKeeps DEF CreateAt, AttachAt
  <1>2. CASE NotifierRegistered(i) \/ CheckRegistered(i) \/ TakeBackNotifier(i) \/ try_module_get(i) \/ Fails
    <2>1. KeepsCore
      BY <1>2, FieldsUntouched, NobodyTouched
         DEF NotifierRegistered, CheckRegistered, TakeBackNotifier, try_module_get, vboxNetFltOsInitInstance
    <2>2. PICK l : /\ l \in {"check", "take_back", "get_module", "bail", "connect"} /\ Goto(Net, l)
                   /\ pc[Net] \in {"init", "registered", "check", "take_back", "get_module"}
                   /\ UNCHANGED <<chain, plugged>>
      BY <1>2 DEF NotifierRegistered, CheckRegistered, TakeBackNotifier, try_module_get,
                  vboxNetFltOsInitInstance, globals, At
    <2>3. CtlTypes' /\ Moves(Net) /\ pc'[Net] = l /\ it'[Net] = it[Net]
      BY <2>2, ActorsDiffer, GotoMoves
    <2>. QED BY <2>1, <2>2, <2>3, CreatorKeeps DEF CreateAt, AttachAt
  <1>. QED BY <1>1, <1>2

LEMMA WaiterKeeps ==
    ASSUME Inv, NEW i \in Ins, CheckBusy(i) \/ RTSemEventWait(i) \/ WaitTimesOut(i)
    PROVE  Inv'
  <1>1. KeepsCore
    BY FieldsUntouched, NobodyTouched DEF CheckBusy, RTSemEventWait, WaitTimesOut
  <1>2. /\ pc[Net] \in {"waiting", "asleep"} /\ it[Net] = i /\ UNCHANGED <<chain, plugged>>
    BY DEF CheckBusy, RTSemEventWait, WaitTimesOut, At, globals
  <1>3. /\ CtlTypes' /\ Moves(Net) /\ it'[Net] = it[Net]
        /\ pc'[Net] \in {"waiting", "asleep", "release"}
        /\ pc'[Net] = "release" => ret'[Net] = "idle" \/ (ins[i].cBusy = 0 /\ ret'[Net] = "is_idle")
    <2>1. CASE CheckBusy(i)
      BY <2>1, ActorsDiffer DEF CheckBusy, Inv, Types, CtlTypes, Moves, ReturnTo
    <2>2. CASE RTSemEventWait(i)
      BY <2>2, ActorsDiffer, GotoMoves DEF RTSemEventWait
    <2>3. CASE WaitTimesOut(i)
      BY <2>3, ActorsDiffer DEF WaitTimesOut, Inv, Types, CtlTypes, Moves, ReturnTo
    <2>. QED BY <2>1, <2>2, <2>3
  <1>4. NetHolds /\ Waits /\ ~Creating /\ ~Creating' /\ (FoundIdle' => ins[i].cBusy = 0)
    BY <1>2, <1>3 DEF Inv, Creating, Waits, FoundIdle, CreateAt, AttachAt
  <1>5. plugged = i
    BY <1>2, <1>4 DEF NetHolds, OldIsDown
  <1>6. OldIsDown'
    BY <1>1, <1>2, <1>3, <1>4, <1>5 DEF NetHolds, OldIsDown, KeepsCore
  <1>7. NetHolds'
    BY <1>1, <1>2, <1>3, <1>4, <1>5, <1>6 DEF NetHolds, KeepsCore, AttachAt, DestroyAt
  <1>8. Quiet(Net) /\ DestroyerHolds(Net)'
    BY <1>1, <1>2, <1>3 DEF Quiet, BusyAt, CountedAt, DestroyAt, DestroyerHolds
  <1>. QED BY <1>3, <1>4, <1>7, <1>8, ActorsDiffer, QuietKeeps

-----------------------------------------------------------------------------
(* The steps that count.                                                   *)

LEMMA CountKeeps ==
    ASSUME Inv, NEW a \in Actor, NEW i \in Ins, NEW r \in InsType,
           ins' = [ins EXCEPT ![i] = r], ins[i].mem = "used",
           /\ r.mem = ins[i].mem /\ r.enmState = ins[i].enmState
           /\ r.enmTrunkState = ins[i].enmTrunkState,
           CtlTypes', Moves(a), UNCHANGED <<chain, plugged>>,
           it[a] = i \/ pc[a] \notin CountedAt, it'[a] = i \/ pc'[a] \notin CountedAt,
           r.cBusy = ins[i].cBusy + One(pc'[a] \in BusyAt) - One(pc[a] \in BusyAt),
           r.cRefs = ins[i].cRefs + One(pc'[a] \in CountedAt) - One(pc[a] \in CountedAt),
           pc'[a] \in BusyAt => pc[a] \in BusyAt \/ ins[i].enmTrunkState # "DISCONNECTING",
           pc'[a] \in CountedAt => pc[a] \in CountedAt \/ ins[i].enmState # "Disconnecting",
           r.fRediscoveryPending =>
               \/ ins[i].fRediscoveryPending /\ pc[a] # "rediscover"
               \/ a \in Vm /\ pc'[a] = "rediscover",
           a = Net => NetHolds' /\ (Creating => Creating' /\ it'[Net] = it[Net]),
           a \in Vm => VmHolds(a)', DestroyerHolds(a)'
    PROVE  Inv'
  <1>1. /\ ins' \in [Ins -> InsType] /\ ins'[i] = r /\ ins[i] \in InsType
        /\ \A j \in Ins \ {i} : ins'[j] = ins[j]
    BY OneTouched
  <1>2. Types'
    BY <1>1 DEF Inv, Types
  <1>3. Steady(a, i)
    <2>1. /\ Within(a, i, BusyAt)' <=> pc'[a] \in BusyAt
          /\ Within(a, i, BusyAt) <=> pc[a] \in BusyAt
          /\ Within(a, i, CountedAt)' <=> pc'[a] \in CountedAt
          /\ Within(a, i, CountedAt) <=> pc[a] \in CountedAt
          /\ Within(a, i, {"rediscover"})' <=> pc'[a] = "rediscover"
          /\ Within(a, i, {"rediscover"}) <=> pc[a] = "rediscover"
      BY DEF Within, BusyAt, CountedAt
    <2>2. /\ One(Within(a, i, BusyAt)') = One(pc'[a] \in BusyAt)
          /\ One(Within(a, i, BusyAt)) = One(pc[a] \in BusyAt)
          /\ One(Within(a, i, CountedAt)') = One(pc'[a] \in CountedAt)
          /\ One(Within(a, i, CountedAt)) = One(pc[a] \in CountedAt)
      BY <2>1 DEF One
    <2>3. Own(i)' = Own(i) /\ Own(i) \in Int
      BY <1>1 DEF Own
    <2>4. /\ One(pc'[a] \in CountedAt) \in Int /\ One(pc[a] \in CountedAt) \in Int
          /\ ins[i].cRefs \in Int
      BY <1>1 DEF One, InsType
    <2>5. Counts(a, i)
      BY <1>1, <2>2, <2>3, <2>4 DEF Counts
    <2>. QED BY <1>1, <2>1, <2>5 DEF Steady
  <1>4. ASSUME NEW j \in Ins \ {i} PROVE Steady(a, j)
    <2>1. ~Within(a, j, BusyAt) /\ ~Within(a, j, BusyAt)' /\ ~Within(a, j, CountedAt)
          /\ ~Within(a, j, CountedAt)' /\ ~Within(a, j, {"rediscover"})
      BY DEF Within, BusyAt, CountedAt
    <2>2. ins'[j] = ins[j] /\ ins[j] \in InsType
      BY <1>1 DEF Inv, Types
    <2>3. Own(j)' = Own(j) /\ Own(j) \in Int
      BY <2>2 DEF Own
    <2>4. Counts(a, j)
      BY <2>1, <2>2, <2>3 DEF Counts, One, InsType
    <2>. QED BY <2>1, <2>2, <2>4 DEF Steady
  <1>5. \A j \in Ins : Steady(a, j)
    BY <1>3, <1>4
  <1>. QED BY <1>2, <1>5, MoveKeeps

(* A call with a reference of its own, on the way in, *)
LEMMA RetainKeeps ==
    ASSUME Inv, NEW a \in Actor, NEW i \in Ins, ins[i].mem = "used", vboxNetFltRetain(i),
           CtlTypes', Moves(a), UNCHANGED <<chain, plugged>>,
           pc[a] \notin CountedAt, pc'[a] \in CountedAt \ BusyAt, it'[a] = i,
           ins[i].enmState # "Disconnecting",
           a = Net => NetHolds' /\ (Creating => Creating' /\ it'[Net] = it[Net]), a \notin Vm
    PROVE  Inv'
  <1>1. ins[i] \in InsType /\ ins \in [Ins -> InsType]
    BY DEF Inv, Types
  <1>2. PICK r : r = [ins[i] EXCEPT !.cRefs = @ + 1]
    OBVIOUS
  <1>3. ins' = [ins EXCEPT ![i] = r]
    BY <1>1, <1>2 DEF vboxNetFltRetain
  <1>4. /\ r \in InsType /\ r.mem = ins[i].mem /\ r.enmState = ins[i].enmState
        /\ r.enmTrunkState = ins[i].enmTrunkState /\ r.cBusy = ins[i].cBusy
        /\ r.cRefs = ins[i].cRefs + 1 /\ r.fRediscoveryPending = ins[i].fRediscoveryPending
        /\ r.cBusy \in Int /\ r.cRefs \in Int
    BY <1>1, <1>2 DEF InsType
  <1>5. pc[a] \notin BusyAt /\ pc[a] # "rediscover" /\ pc'[a] \notin DestroyAt
    BY DEF CountedAt, BusyAt, DestroyAt
  <1>6. /\ r.cBusy = ins[i].cBusy + One(pc'[a] \in BusyAt) - One(pc[a] \in BusyAt)
        /\ r.cRefs = ins[i].cRefs + One(pc'[a] \in CountedAt) - One(pc[a] \in CountedAt)
    <2>1. One(pc'[a] \in BusyAt) = 0 /\ One(pc[a] \in BusyAt) = 0
      BY <1>5 DEF One
    <2>2. One(pc'[a] \in CountedAt) = 1 /\ One(pc[a] \in CountedAt) = 0
      BY DEF One
    <2>3. ins[i].cBusy \in Int /\ ins[i].cRefs \in Int
      BY <1>1 DEF InsType
    <2>. QED BY <2>1, <2>2, <2>3, <1>4
  <1>7. DestroyerHolds(a)'
    BY <1>5 DEF DestroyerHolds
  <1>. QED BY <1>3, <1>4, <1>5, <1>6, <1>7, CountKeeps

(* and one that makes the instance busy as well. *)
LEMMA RetainBusyKeeps ==
    ASSUME Inv, NEW a \in Actor, NEW i \in Ins, ins[i].mem = "used", Retained(i),
           CtlTypes', Moves(a), UNCHANGED <<chain, plugged>>,
           pc[a] \notin CountedAt, pc'[a] \in {"busy", "xmit"}, it'[a] = i,
           ins[i].enmTrunkState # "DISCONNECTING",
           a = Net => NetHolds' /\ (Creating => Creating' /\ it'[Net] = it[Net])
    PROVE  Inv'
  <1>1. ins[i] \in InsType /\ ins \in [Ins -> InsType]
    BY DEF Inv, Types
  <1>2. PICK r : r = [ins[i] EXCEPT !.cRefs = @ + 1, !.cBusy = @ + 1]
    OBVIOUS
  <1>3. ins' = [ins EXCEPT ![i] = r]
    BY <1>1, <1>2 DEF Retained
  <1>4. /\ r \in InsType /\ r.mem = ins[i].mem /\ r.enmState = ins[i].enmState
        /\ r.enmTrunkState = ins[i].enmTrunkState /\ r.cBusy = ins[i].cBusy + 1
        /\ r.cRefs = ins[i].cRefs + 1 /\ r.fRediscoveryPending = ins[i].fRediscoveryPending
        /\ ins[i].cBusy \in Int /\ ins[i].cRefs \in Int
    <2>1. PICK m, n : m = ins[i].cRefs + 1 /\ n = ins[i].cBusy + 1
      OBVIOUS
    <2>2. m \in Int /\ n \in Int /\ ins[i].cBusy \in Int /\ ins[i].cRefs \in Int
      BY <1>1, <2>1 DEF InsType
    <2>3. r = [ins[i] EXCEPT !.cRefs = m, !.cBusy = n]
      BY <1>1, <1>2, <2>1 DEF InsType
    <2>4. r \in InsType /\ r.cRefs = m /\ r.cBusy = n
      BY <1>1, <2>2, <2>3 DEF InsType
    <2>5. /\ r.mem = ins[i].mem /\ r.enmState = ins[i].enmState
          /\ r.enmTrunkState = ins[i].enmTrunkState
          /\ r.fRediscoveryPending = ins[i].fRediscoveryPending
      BY <1>1, <2>3 DEF InsType
    <2>. QED BY <2>1, <2>2, <2>4, <2>5
  <1>5. /\ pc[a] \notin BusyAt /\ pc[a] # "rediscover" /\ pc'[a] \in BusyAt /\ pc'[a] \in CountedAt
        /\ pc'[a] \notin DestroyAt /\ pc'[a] # "retain"
    BY DEF CountedAt, BusyAt, DestroyAt
  <1>6. /\ r.cBusy = ins[i].cBusy + One(pc'[a] \in BusyAt) - One(pc[a] \in BusyAt)
        /\ r.cRefs = ins[i].cRefs + One(pc'[a] \in CountedAt) - One(pc[a] \in CountedAt)
    <2>1. One(pc'[a] \in BusyAt) = 1 /\ One(pc[a] \in BusyAt) = 0
      BY <1>5 DEF One
    <2>2. One(pc'[a] \in CountedAt) = 1 /\ One(pc[a] \in CountedAt) = 0
      BY <1>5 DEF One
    <2>. QED BY <2>1, <2>2, <1>4
  <1>7. DestroyerHolds(a)' /\ VmHolds(a)'
    BY <1>5 DEF DestroyerHolds, VmHolds
  <1>8. ins[i].enmState # "Disconnecting"
    BY DEF Inv, InsHolds, StateHolds
  <1>. QED BY <1>3, <1>4, <1>5, <1>6, <1>7, <1>8, CountKeeps

LEMMA PortCallKeeps == Inv /\ PortCall => Inv'
  <1> SUFFICES ASSUME Inv, PortCall PROVE Inv'
    OBVIOUS
  <1>1. /\ pc[Net] = "idle" /\ plugged # NIL /\ ins[plugged].enmState = "Connected"
        /\ vboxNetFltRetain(plugged)
        /\ pc' = [pc EXCEPT ![Net] = "release"] /\ it' = [it EXCEPT ![Net] = plugged]
        /\ ret' = [ret EXCEPT ![Net] = "idle"] /\ UNCHANGED <<chain, plugged>>
    BY DEF PortCall, Connected, globals
  <1>2. plugged \in Ins /\ NetHolds /\ ins[plugged].mem = "used"
    BY <1>1 DEF Inv, Types, NetHolds
  <1>3. /\ CtlTypes' /\ Moves(Net) /\ pc'[Net] = "release" /\ it'[Net] = plugged /\ ret'[Net] = "idle"
    BY <1>1, <1>2, ActorsDiffer DEF Inv, Types, CtlTypes, Moves, ReturnTo
  <1>4. ~Creating /\ ~Creating' /\ ~Waits'
    BY <1>1, <1>3 DEF Creating, Waits, FoundIdle, CreateAt, AttachAt
  <1>5. ins'[plugged].mem = "used" /\ ins'[plugged].enmState = "Connected"
    <2>1. ins[plugged] \in InsType /\ ins \in [Ins -> InsType]
      BY <1>2 DEF Inv, Types
    <2>. QED BY <2>1, <1>1, <1>2 DEF vboxNetFltRetain, InsType
  <1>6. NetHolds'
    BY <1>1, <1>2, <1>3, <1>4, <1>5 DEF NetHolds, AttachAt, DestroyAt
  <1>. QED BY <1>1, <1>2, <1>3, <1>4, <1>6, ActorsDiffer, RetainKeeps DEF CountedAt, BusyAt

LEMMA WaitAgainKeeps ==
    ASSUME Inv, WaitAgain
    PROVE  Inv'
  <1>0. plugged \in Ins \cup {NIL} /\ CtlTypes /\ Net \in Actor
    BY ActorsDiffer DEF Inv, Types
  <1>1. /\ KeepsCore /\ UNCHANGED <<chain, plugged>> /\ pc[Net] = "idle"
        /\ plugged # NIL /\ ins[plugged].enmTrunkState = "DISCONNECTING"
    BY NobodyTouched DEF WaitAgain, Connected, globals
  <1>2. CtlTypes' /\ Moves(Net) /\ pc'[Net] = "wait" /\ it'[Net] = plugged
    BY <1>0 DEF WaitAgain, CtlTypes, Moves
  <1>3. NetHolds /\ ~Creating /\ ~Creating' /\ ~FoundIdle'
    BY <1>1, <1>2 DEF Inv, Creating, FoundIdle, CreateAt, AttachAt
  <1>4. OldIsDown'
    BY <1>0, <1>1, <1>2, <1>3 DEF OldIsDown, KeepsCore
  <1>5. NetHolds'
    BY <1>0, <1>1, <1>2, <1>3, <1>4 DEF NetHolds, KeepsCore, AttachAt, DestroyAt
  <1>6. Quiet(Net) /\ DestroyerHolds(Net)'
    BY <1>1, <1>2 DEF Quiet, BusyAt, CountedAt, DestroyAt, DestroyerHolds
  <1>. QED BY <1>2, <1>3, <1>5, <1>6, ActorsDiffer, QuietKeeps

LEMMA WaitForIdleKeeps ==
    ASSUME Inv, NEW i \in Ins, vboxNetFltPortWaitForIdle(i)
    PROVE  Inv'
  <1>1. /\ pc[Net] = "wait" /\ it[Net] = i /\ ins[i].mem = "used" /\ vboxNetFltRetain(i)
        /\ Goto(Net, "waiting") /\ UNCHANGED <<chain, plugged>>
    BY DEF vboxNetFltPortWaitForIdle, At, globals
  <1>2. /\ CtlTypes' /\ Moves(Net) /\ pc'[Net] = "waiting" /\ it'[Net] = i
    BY <1>1, ActorsDiffer, GotoMoves
  <1>3. NetHolds /\ Waits /\ ~Creating /\ ~Creating' /\ ~FoundIdle'
    BY <1>1, <1>2 DEF Inv, Creating, Waits, FoundIdle, CreateAt, AttachAt
  <1>4. /\ plugged = i /\ ins[i].enmTrunkState = "DISCONNECTING" /\ ins[i].enmState = "Connected"
        /\ i # NIL
    BY <1>1, <1>3 DEF NetHolds, OldIsDown
  <1>5. ins'[i].mem = "used" /\ ins'[i].enmState = "Connected" /\ ins'[i].enmTrunkState = "DISCONNECTING"
    <2>1. ins[i] \in InsType /\ ins \in [Ins -> InsType]
      BY DEF Inv, Types
    <2>. QED BY <2>1, <1>1, <1>4 DEF vboxNetFltRetain, InsType
  <1>6. OldIsDown'
    BY <1>1, <1>2, <1>3, <1>4, <1>5 DEF OldIsDown
  <1>7. NetHolds'
    BY <1>1, <1>2, <1>3, <1>4, <1>5, <1>6 DEF NetHolds, AttachAt, DestroyAt
  <1>. QED BY <1>1, <1>2, <1>3, <1>4, <1>7, ActorsDiffer, RetainKeeps DEF CountedAt, BusyAt

LEMMA ReportKeeps ==
    ASSUME Inv, NEW a \in {Net, Kernel}, NEW i \in Ins, Report(a, i)
    PROVE  Inv'
  <1>1. a \in Actor /\ a \notin Vm /\ Net # Kernel
    BY ActorsDiffer
  <1>2. /\ pc[a] = "report" /\ it[a] = i /\ ins[i].mem = "used" /\ UNCHANGED <<chain, plugged>>
        /\ ins[i] \in InsType /\ ins \in [Ins -> InsType] /\ ret[a] \in ReturnTo /\ NetHolds
    BY <1>1 DEF Report, At, globals, Inv, Types, CtlTypes
  <1>3. CASE MayReport(i)
    <2>1. Retained(i) /\ Goto(a, "busy") /\ ins[i].enmTrunkState # "DISCONNECTING"
      BY <1>3 DEF Report, vboxNetFltTryRetainBusyNotDisconnected, MayReport
    <2>2. CtlTypes' /\ Moves(a) /\ pc'[a] = "busy" /\ it'[a] = i /\ ret'[a] = ret[a]
      BY <2>1, <1>1, <1>2, GotoMoves
    <2>3. a = Net => NetHolds' /\ Creating'
      <3> SUFFICES ASSUME a = Net PROVE NetHolds' /\ Creating'
        OBVIOUS
      <3>1. ret[Net] = "registered" /\ Creating /\ Creating' /\ ~Waits'
        BY <1>2, <2>2 DEF NetHolds, Creating, Waits, FoundIdle, CreateAt, AttachAt
      <3>2. UNCHANGED <<ins[i].mem, ins[i].enmState, ins[i].enmTrunkState>>
        BY <1>2, <2>1 DEF Retained, InsType
      <3>3. NewIsBlank'
        BY <1>2, <2>2, <3>1, <3>2 DEF NetHolds, NewIsBlank
      <3>. QED BY <1>2, <2>2, <3>1, <3>3 DEF NetHolds, NewIsBlank, AttachAt, DestroyAt
    <2>. QED BY <2>1, <2>2, <2>3, <1>1, <1>2, RetainBusyKeeps DEF CountedAt, BusyAt
  <1>4. CASE ~MayReport(i)
    <2>1. UNCHANGED ins /\ Goto(a, ret[a])
      BY <1>4 DEF Report, vboxNetFltTryRetainBusyNotDisconnected
    <2>2. a # Net
      BY <1>2, <1>4 DEF NetHolds, NewIsBlank, MayReport, Creating, CreateAt, AttachAt
    <2>3. KeepsCore /\ CtlTypes' /\ Moves(a) /\ pc'[a] = ret[a]
      BY <2>1, <1>1, NobodyTouched, GotoMoves
    <2>. QED BY <2>2, <2>3, <1>2, OthersQuiet DEF CountedAt, BusyAt, DestroyAt, ReturnTo
  <1>. QED BY <1>3, <1>4

(* Sending: busy from the look at the trunk's state on. *)
LEMMA XmitKeeps ==
    ASSUME Inv, NEW v \in Vm, NEW i \in Ins,
           \/ XmitRetain(v, i) \/ vboxNetFltPortOsXmit(v, i) \/ vboxNetFltMaybeRediscovered(v, i)
    PROVE  Inv'
  <1>1. v \in Actor /\ v # Net
    BY ActorsDiffer
  <1>2. ins[i] \in InsType /\ ins \in [Ins -> InsType]
    BY DEF Inv, Types
  <1>3. CASE XmitRetain(v, i) /\ ins[i].enmTrunkState = "ACTIVE"
    <2>1. /\ pc[v] = "retain" /\ it[v] = i /\ ins[i].mem = "used" /\ Retained(i) /\ Goto(v, "xmit")
          /\ UNCHANGED <<chain, plugged>>
      BY <1>3 DEF XmitRetain, At, vboxNetFltTryRetainBusyActive, globals
    <2>2. CtlTypes' /\ Moves(v) /\ pc'[v] = "xmit" /\ it'[v] = i
      BY <2>1, <1>1, GotoMoves
    <2>. QED BY <2>1, <2>2, <1>1, <1>3, RetainBusyKeeps DEF CountedAt, BusyAt
  <1>4. ASSUME NEW b \in BOOLEAN, NEW l \in BusyAt, pc[v] \in BusyAt, it[v] = i, ins[i].mem = "used",
               ins' = [ins EXCEPT ![i].fRediscoveryPending = b], Goto(v, l), UNCHANGED <<chain, plugged>>,
               b => l = "rediscover"
        PROVE  Inv'
    <2>1. PICK r : r = [ins[i] EXCEPT !.fRediscoveryPending = b]
      OBVIOUS
    <2>2. ins' = [ins EXCEPT ![i] = r]
      BY <1>2, <1>4, <2>1
    <2>3. /\ r \in InsType /\ r.mem = ins[i].mem /\ r.enmState = ins[i].enmState
          /\ r.enmTrunkState = ins[i].enmTrunkState /\ r.cBusy = ins[i].cBusy
          /\ r.cRefs = ins[i].cRefs /\ r.fRediscoveryPending = b
          /\ r.cBusy \in Int /\ r.cRefs \in Int
      BY <1>2, <2>1 DEF InsType
    <2>4. CtlTypes' /\ Moves(v) /\ pc'[v] = l /\ it'[v] = i
      BY <1>1, <1>4, GotoMoves DEF BusyAt
    <2>5. /\ pc[v] \in CountedAt /\ pc'[v] \in CountedAt /\ pc'[v] \notin DestroyAt /\ pc'[v] # "retain"
          /\ pc[v] \in BusyAt /\ pc'[v] \in BusyAt
      BY <1>4, <2>4 DEF CountedAt, BusyAt, DestroyAt
    <2>6. /\ One(pc'[v] \in BusyAt) = 1 /\ One(pc[v] \in BusyAt) = 1
          /\ One(pc'[v] \in CountedAt) = 1 /\ One(pc[v] \in CountedAt) = 1
      BY <2>5 DEF One
    <2>7. /\ r.cBusy = ins[i].cBusy + One(pc'[v] \in BusyAt) - One(pc[v] \in BusyAt)
          /\ r.cRefs = ins[i].cRefs + One(pc'[v] \in CountedAt) - One(pc[v] \in CountedAt)
      BY <2>3, <2>6
    <2>8. DestroyerHolds(v)' /\ VmHolds(v)'
      BY <2>5 DEF DestroyerHolds, VmHolds
    <2>. QED BY <2>2, <2>3, <2>4, <2>5, <2>7, <2>8, <1>1, <1>4, CountKeeps
  <1>5. CASE vboxNetFltPortOsXmit(v, i) /\ ~UNCHANGED ins
    BY <1>4, <1>5 DEF vboxNetFltPortOsXmit, At, BusyAt, globals
  <1>6. CASE vboxNetFltMaybeRediscovered(v, i)
    BY <1>4, <1>6 DEF vboxNetFltMaybeRediscovered, At, BusyAt, globals
  <1>. QED BY <1>3, <1>5, <1>6, SenderKeeps

LEMMA ReleaseBusyKeeps ==
    ASSUME Inv, NEW a \in Actor, NEW i \in Ins, ReleaseBusy(a, i)
    PROVE  Inv'
  <1>1. /\ pc[a] = "busy" /\ it[a] = i /\ ins[i].mem = "used" /\ Goto(a, "release")
        /\ UNCHANGED <<chain, plugged>>
        /\ ins[i] \in InsType /\ ins \in [Ins -> InsType] /\ NetHolds
    BY DEF ReleaseBusy, At, globals, Inv, Types
  <1>2. CtlTypes' /\ Moves(a) /\ pc'[a] = "release" /\ it'[a] = i /\ ret'[a] = ret[a]
    BY <1>1, GotoMoves
  <1>3. PICK n : n = ins[i].cBusy - 1
    OBVIOUS
  <1>14. PICK b \in BOOLEAN : b = (ins[i].hEventIdle \/ ins[i].cBusy = 1)
    OBVIOUS
  <1>4. PICK r : r = [ins[i] EXCEPT !.cBusy = n, !.hEventIdle = b]
    OBVIOUS
  <1>5. n \in Int /\ ins[i].cBusy \in Int /\ ins[i].cRefs \in Int
    BY <1>1, <1>3 DEF InsType
  <1>6. r \in InsType /\ r.cBusy = n
    BY <1>1, <1>4, <1>5 DEF InsType
  <1>7. /\ r.mem = ins[i].mem /\ r.enmState = ins[i].enmState
        /\ r.enmTrunkState = ins[i].enmTrunkState /\ r.cRefs = ins[i].cRefs
        /\ r.fRediscoveryPending = ins[i].fRediscoveryPending
    BY <1>1, <1>4 DEF InsType
  <1>8. ins' = [ins EXCEPT ![i] = r]
    BY <1>1, <1>3, <1>4, <1>14 DEF ReleaseBusy
  <1>9. /\ pc[a] \in BusyAt /\ pc[a] \in CountedAt /\ pc'[a] \notin BusyAt /\ pc'[a] \in CountedAt
        /\ pc'[a] \notin DestroyAt /\ pc'[a] # "retain" /\ pc[a] # "rediscover"
    BY <1>1, <1>2 DEF BusyAt, CountedAt, DestroyAt
  <1>10. /\ One(pc'[a] \in BusyAt) = 0 /\ One(pc[a] \in BusyAt) = 1
         /\ One(pc'[a] \in CountedAt) = 1 /\ One(pc[a] \in CountedAt) = 1
    BY <1>9 DEF One
  <1>11. /\ r.cBusy = ins[i].cBusy + One(pc'[a] \in BusyAt) - One(pc[a] \in BusyAt)
         /\ r.cRefs = ins[i].cRefs + One(pc'[a] \in CountedAt) - One(pc[a] \in CountedAt)
    BY <1>3, <1>5, <1>6, <1>7, <1>10
  <1>12. DestroyerHolds(a)' /\ VmHolds(a)'
    BY <1>9 DEF DestroyerHolds, VmHolds
  <1>13. ASSUME a = Net PROVE NetHolds' /\ Creating'
    <2>1. ret[Net] = "registered" /\ Creating /\ Creating' /\ ~Waits'
      BY <1>1, <1>2, <1>13 DEF NetHolds, Creating, Waits, FoundIdle, CreateAt, AttachAt
    <2>2. ins'[i] = r
      BY <1>6, <1>8, OneTouched
    <2>3. NewIsBlank'
      BY <1>1, <1>2, <1>7, <1>13, <2>1, <2>2 DEF NetHolds, NewIsBlank
    <2>. QED BY <1>1, <1>2, <1>13, <2>1, <2>3 DEF NetHolds, NewIsBlank, AttachAt, DestroyAt
  <1>. QED BY <1>1, <1>2, <1>6, <1>7, <1>8, <1>9, <1>11, <1>12, <1>13, CountKeeps

(* Who finds one reference left finds the instance disconnected: the call  *)
(* itself is the reference.                                                *)
LEMMA ReleaseKeeps ==
    ASSUME Inv, NEW a \in Actor, NEW i \in Ins, vboxNetFltRelease(a, i)
    PROVE  Inv'
  <1>1. /\ pc[a] = "release" /\ it[a] = i /\ ins[i].mem = "used"
        /\ UNCHANGED <<chain, plugged>>
        /\ ins[i] \in InsType /\ ins \in [Ins -> InsType] /\ NetHolds
        /\ ret[a] \in ReturnTo /\ InsHolds(i)
    BY DEF vboxNetFltRelease, At, globals, Inv, Types, CtlTypes
  <1>2. PICK l : l = (IF ins[i].cRefs = 1 THEN "destroy" ELSE ret[a])
    OBVIOUS
  <1>3. /\ CtlTypes' /\ Moves(a) /\ pc'[a] = l
        /\ it'[a] = IF l \in {"idle", "fac_release"} THEN NIL ELSE it[a]
        /\ ret'[a] = IF l = "idle" THEN "idle" ELSE ret[a]
    BY <1>2, GotoMoves DEF vboxNetFltRelease
  <1>4. PICK r : r = [ins[i] EXCEPT !.cRefs = @ - 1]
    OBVIOUS
  <1>5. r \in InsType /\ r.cRefs = ins[i].cRefs - 1 /\ ins[i].cRefs \in Int /\ ins[i].cBusy \in Int
    BY <1>1, <1>4 DEF InsType
  <1>6. /\ r.mem = ins[i].mem /\ r.enmState = ins[i].enmState
        /\ r.enmTrunkState = ins[i].enmTrunkState /\ r.cBusy = ins[i].cBusy
        /\ r.fRediscoveryPending = ins[i].fRediscoveryPending
    BY <1>1, <1>4 DEF InsType
  <1>7. ins' = [ins EXCEPT ![i] = r]
    BY <1>1, <1>4 DEF vboxNetFltRelease
  <1>8. /\ pc[a] \notin BusyAt /\ pc[a] \in CountedAt /\ pc'[a] \notin BusyAt /\ pc'[a] \notin CountedAt
        /\ pc'[a] # "retain" /\ pc[a] # "rediscover"
    BY <1>1, <1>2, <1>3 DEF BusyAt, CountedAt, ReturnTo
  <1>9. /\ One(pc'[a] \in BusyAt) = 0 /\ One(pc[a] \in BusyAt) = 0
        /\ One(pc'[a] \in CountedAt) = 0 /\ One(pc[a] \in CountedAt) = 1
    BY <1>8 DEF One
  <1>10. /\ r.cBusy = ins[i].cBusy + One(pc'[a] \in BusyAt) - One(pc[a] \in BusyAt)
         /\ r.cRefs = ins[i].cRefs + One(pc'[a] \in CountedAt) - One(pc[a] \in CountedAt)
    BY <1>5, <1>6, <1>9
  <1>11. ins[i].cRefs = 1 => ins[i].enmState = "Disconnecting"
    <2>1. Balanced(i) /\ Within(a, i, CountedAt)
      BY <1>1, <1>8 DEF InsHolds, Within
    <2>2. Cardinality(Holders(i, CountedAt)) \in Nat /\ Cardinality(Holders(i, CountedAt)) > 0
      BY <2>1, <1>3, HoldersMove DEF Balanced
    <2>3. ins[i].cRefs = Cardinality(Holders(i, CountedAt)) + Own(i)
      BY <2>1 DEF Balanced
    <2>. QED BY <2>2, <2>3 DEF Own
  <1>12. ins'[i] = r
    BY <1>5, <1>7, OneTouched
  <1>13. DestroyerHolds(a)'
    BY <1>1, <1>2, <1>3, <1>5, <1>6, <1>11, <1>12 DEF DestroyerHolds, DestroyAt, ReturnTo
  <1>14. VmHolds(a)'
    BY <1>8 DEF VmHolds
  <1>15. ASSUME a = Net PROVE NetHolds' /\ (Creating => Creating' /\ it'[Net] = it[Net])
    <2>1. plugged = i => ins[i].enmState # "Disconnecting"
      BY <1>1, InsAssumption DEF NetHolds
    <2>2. CASE ins[i].cRefs = 1
      <3>1. ret[Net] \notin {"registered", "is_idle"}
        BY <1>1, <1>11, <1>15, <2>1, <2>2 DEF NetHolds, NewIsBlank, OldIsDown, Creating, Waits, FoundIdle
      <3>2. ~Creating /\ ~Creating' /\ ~Waits' /\ pc'[Net] = "destroy" /\ ret'[Net] = ret[Net]
        BY <3>1, <1>1, <1>2, <1>3, <1>15, <2>2 DEF Creating, Waits, FoundIdle, CreateAt, AttachAt
      <3>3. plugged # i
        BY <2>1, <2>2, <1>11
      <3>. QED BY <1>1, <1>7, <3>1, <3>2, <3>3 DEF NetHolds, AttachAt, DestroyAt
    <2>3. CASE ins[i].cRefs # 1 /\ ret[Net] = "registered"
      <3>1. Creating /\ Creating' /\ ~Waits' /\ pc'[Net] = "registered" /\ ret'[Net] = ret[Net] /\ it'[Net] = it[Net]
        BY <1>1, <1>2, <1>3, <1>15, <2>3 DEF Creating, Waits, FoundIdle, CreateAt, AttachAt
      <3>2. NewIsBlank'
        BY <1>1, <1>6, <1>12, <1>15, <3>1 DEF NetHolds, NewIsBlank
      <3>. QED BY <1>1, <3>1, <3>2 DEF NetHolds, NewIsBlank, AttachAt, DestroyAt
    <2>4. CASE ins[i].cRefs # 1 /\ ret[Net] = "is_idle"
      <3>1. /\ Waits /\ FoundIdle /\ ~Creating /\ ~Creating' /\ pc'[Net] = "is_idle"
            /\ ret'[Net] = ret[Net] /\ it'[Net] = it[Net]
        BY <1>1, <1>2, <1>3, <1>15, <2>4 DEF Creating, Waits, FoundIdle, CreateAt, AttachAt
      <3>2. plugged = i /\ plugged # NIL /\ OldIsDown
        BY <1>1, <1>15, <3>1 DEF NetHolds, OldIsDown
      <3>3. OldIsDown' /\ ins'[plugged].mem = "used" /\ ins'[plugged].enmState = "Connected"
        BY <1>1, <1>6, <1>12, <1>15, <3>1, <3>2 DEF NetHolds, OldIsDown
      <3>. QED BY <1>1, <3>1, <3>2, <3>3 DEF NetHolds, AttachAt, DestroyAt
    <2>5. CASE ins[i].cRefs # 1 /\ ret[Net] \in {"idle", "notified"}
      <3>1. ~Creating /\ ~Creating' /\ ~Waits' /\ pc'[Net] \in {"idle", "notified"}
        BY <1>1, <1>2, <1>3, <1>15, <2>5 DEF Creating, Waits, FoundIdle, CreateAt, AttachAt
      <3>2. plugged # NIL => ins'[plugged].mem = "used" /\ ins'[plugged].enmState = "Connected"
        <4>1. plugged \in Ins \cup {NIL}
          BY DEF Inv, Types
        <4>. QED BY <4>1, <1>1, <1>5, <1>6, <1>7, <1>12, OneTouched DEF NetHolds
      <3>. QED BY <1>1, <3>1, <3>2 DEF NetHolds, AttachAt, DestroyAt
    <2>. QED BY <1>1, <1>15, <2>2, <2>3, <2>4, <2>5 DEF ReturnTo
  <1>. QED BY <1>1, <1>3, <1>5, <1>6, <1>7, <1>8, <1>10, <1>13, <1>14, <1>15, CountKeeps

-----------------------------------------------------------------------------
(* The steps that create, connect, disconnect and free an instance.        *)

(* What they leave alone. *)
LEMMA BystanderHolds ==
    ASSUME Inv, NEW a \in Actor, Moves(a), NEW j \in Ins, ins'[j] = ins[j],
           pc[a] \notin CountedAt \/ it[a] # j, pc'[a] \notin CountedAt \/ it'[a] # j,
           Creating /\ it[Net] = j => (Creating /\ it[Net] = j)',
           plugged = j => plugged' = j
    PROVE  InsHolds(j)'
  <1> SUFFICES ASSUME ins[j].mem = "used" PROVE (StateHolds(j) /\ PendingHolds(j) /\ Balanced(j))'
    BY DEF InsHolds
  <1>1. StateHolds(j) /\ PendingHolds(j) /\ Balanced(j) /\ ins[j] \in InsType
    BY DEF Inv, InsHolds, Types
  <1>2. ~Within(a, j, CountedAt) /\ ~Within(a, j, CountedAt)' /\ ~Within(a, j, BusyAt) /\ ~Within(a, j, BusyAt)'
        /\ ~Within(a, j, {"rediscover"})
    BY DEF Within, CountedAt, BusyAt
  <1>3. Own(j)' = Own(j) /\ Own(j) \in Int
    BY DEF Own
  <1>4. Counts(a, j)
    BY <1>1, <1>2, <1>3 DEF Counts, One, InsType
  <1>5. Balanced(j)'
    BY <1>1, <1>4, BalanceMoves
  <1>6. PendingHolds(j)'
    BY <1>1, <1>2, ActorsDiffer DEF PendingHolds, Within, Moves
  <1>7. StateHolds(j)'
    BY <1>1 DEF StateHolds
  <1>. QED BY <1>5, <1>6, <1>7

(* An instance is freed, *)
LEMMA UnlinkKeeps ==
    ASSUME Inv, NEW a \in {Net, Kernel}, NEW i \in Ins, Unlink(a, i)
    PROVE  Inv'
  <1>0. a \in Actor /\ a \notin Vm
    BY ActorsDiffer
  <1>1. /\ pc[a] = "unlink" /\ it[a] = i /\ ins[i].mem = "used" /\ Goto(a, ret[a])
        /\ chain' = chain \ {i} /\ UNCHANGED plugged
        /\ ins[i] \in InsType /\ ins \in [Ins -> InsType] /\ NetHolds
        /\ ret[a] \in ReturnTo /\ DestroyerHolds(a) /\ plugged \in Ins \cup {NIL}
    BY <1>0 DEF Unlink, vboxNetFltUnlinkLocked, At, Inv, Types, CtlTypes
  <1>2. /\ CtlTypes' /\ Moves(a) /\ pc'[a] = ret[a]
    BY <1>0, <1>1, GotoMoves
  <1>3. PICK r : r = [ins[i] EXCEPT !.mem = "free", !.enmState = "Destroyed"]
    OBVIOUS
  <1>4. r \in InsType /\ r.mem = "free"
    BY <1>1, <1>3 DEF InsType
  <1>5. ins' = [ins EXCEPT ![i] = r]
    BY <1>1, <1>3 DEF Unlink
  <1>6. ins' \in [Ins -> InsType] /\ ins'[i].mem = "free" /\ \A j \in Ins \ {i} : ins'[j] = ins[j]
    BY <1>4, <1>5, OneTouched
  <1>7. ins[i].enmState = "Disconnecting"
    BY <1>1 DEF DestroyerHolds, DestroyAt
  <1>8. Types'
    BY <1>1, <1>2, <1>6 DEF Inv, Types
  <1>9. ChainHolds'
    BY <1>1, <1>6 DEF Inv, Types, ChainHolds
  <1>10. plugged # i
    BY <1>1, <1>7, InsAssumption DEF NetHolds
  <1>11. Creating => it[Net] # i
    BY <1>1, <1>7 DEF NetHolds, NewIsBlank
  <1>12. a = Net => ~Creating /\ ~Creating' /\ ~Waits' /\ pc'[Net] \in {"idle", "notified"}
    BY <1>1, <1>2 DEF NetHolds, Creating, Waits, FoundIdle, CreateAt, AttachAt, DestroyAt, ReturnTo
  <1>13. a # Net => UNCHANGED <<pc[Net], it[Net], ret[Net]>>
    BY <1>2, ActorsDiffer DEF Moves
  <1>14. NetHolds'
    <2>1. plugged # NIL => ins'[plugged] = ins[plugged]
      BY <1>1, <1>6, <1>10
    <2>2. CASE a = Net
      BY <2>1, <2>2, <1>1, <1>12 DEF NetHolds, AttachAt, DestroyAt
    <2>3. CASE a # Net
      <3>1. (Creating' <=> Creating) /\ (FoundIdle' <=> FoundIdle) /\ (Waits' <=> Waits)
        BY <2>3, <1>13 DEF Creating, FoundIdle, Waits
      <3>2. Creating => NewIsBlank'
        BY <2>3, <1>1, <1>6, <1>11, <1>13 DEF NetHolds, NewIsBlank
      <3>3. Waits => OldIsDown'
        BY <2>1, <2>3, <3>1, <1>1, <1>13 DEF NetHolds, OldIsDown
      <3>. QED BY <2>1, <2>3, <3>1, <3>2, <3>3, <1>1, <1>13 DEF NetHolds
    <2>. QED BY <2>2, <2>3
  <1>15. \A v \in Vm : VmHolds(v)'
    BY <1>0, <1>1, <1>2, ActorsDiffer DEF Inv, VmHolds, Moves
  <1>16. ASSUME NEW b \in Actor PROVE DestroyerHolds(b)'
    <2>1. CASE b = a
      BY <2>1, <1>1, <1>2 DEF DestroyerHolds, DestroyAt, ReturnTo
    <2>2. CASE b # a
      BY <2>2, <1>2, <1>6 DEF DestroyerHolds, Moves, Inv
    <2>. QED BY <2>1, <2>2
  <1>17. ASSUME NEW j \in Ins PROVE InsHolds(j)'
    <2>1. CASE j = i
      BY <2>1, <1>6 DEF InsHolds
    <2>2. CASE j # i
      <3>1. pc[a] \notin CountedAt /\ pc'[a] \notin CountedAt
        BY <1>1, <1>2 DEF CountedAt, BusyAt, ReturnTo
      <3>2. Creating /\ it[Net] = j => (Creating /\ it[Net] = j)'
        BY <1>12, <1>13 DEF Creating
      <3>. QED BY <2>2, <3>1, <3>2, <1>0, <1>1, <1>2, <1>6, BystanderHolds
    <2>. QED BY <2>1, <2>2
  <1>. QED BY <1>8, <1>9, <1>14, <1>15, <1>16, <1>17 DEF Inv

(* or given up before it was connected. *)
LEMMA GiveUpKeeps ==
    ASSUME Inv, NEW i \in Ins,
           BailOut(i) \/ (vboxNetFltNewInstance(i) /\ chain # {})
    PROVE  Inv'
  <1>1. /\ pc[Net] \in {"bail", "insert"} /\ it[Net] = i /\ ins[i].mem = "used" /\ Goto(Net, "fac_release")
        /\ pc[Net] = "insert" => chain' = chain
        /\ pc[Net] = "bail" => chain' = chain \ {i}
        /\ UNCHANGED plugged /\ NetHolds
        /\ ins[i] \in InsType /\ ins \in [Ins -> InsType] /\ ins' = [ins EXCEPT ![i].mem = "free"]
    BY DEF BailOut, vboxNetFltNewInstance, vboxNetFltUnlinkLocked, At, Inv, Types
  <1>2. /\ CtlTypes' /\ Moves(Net) /\ pc'[Net] = "fac_release" /\ Net \in Actor
    BY <1>1, ActorsDiffer, GotoMoves
  <1>3. PICK r : r = [ins[i] EXCEPT !.mem = "free"]
    OBVIOUS
  <1>4. r \in InsType /\ r.mem = "free"
    BY <1>1, <1>3 DEF InsType
  <1>5. ins' = [ins EXCEPT ![i] = r]
    BY <1>1, <1>3
  <1>6. ins' \in [Ins -> InsType] /\ ins'[i].mem = "free" /\ \A j \in Ins \ {i} : ins'[j] = ins[j]
    BY <1>4, <1>5, OneTouched
  <1>7. plugged = NIL /\ Creating /\ ~Creating' /\ ~Waits'
    BY <1>1, <1>2 DEF NetHolds, NewIsBlank, Creating, Waits, FoundIdle, CreateAt, AttachAt
  <1>8. chain' \subseteq chain \ {i} /\ chain \subseteq Ins
    BY <1>1 DEF NetHolds, Inv, Types
  <1>9. Types' /\ ChainHolds'
    BY <1>1, <1>2, <1>6, <1>8 DEF Inv, Types, ChainHolds
  <1>10. NetHolds'
    BY <1>1, <1>2, <1>7 DEF NetHolds, AttachAt, DestroyAt
  <1>11. \A v \in Vm : VmHolds(v)'
    BY <1>1, <1>2, ActorsDiffer DEF Inv, VmHolds, Moves
  <1>12. ASSUME NEW b \in Actor PROVE DestroyerHolds(b)'
    <2>1. CASE b = Net
      BY <2>1, <1>2 DEF DestroyerHolds, DestroyAt
    <2>2. CASE b # Net
      BY <2>2, <1>2, <1>6 DEF DestroyerHolds, Moves, Inv
    <2>. QED BY <2>1, <2>2
  <1>13. ASSUME NEW j \in Ins PROVE InsHolds(j)'
    <2>1. CASE j = i
      BY <2>1, <1>6 DEF InsHolds
    <2>2. CASE j # i
      <3>1. pc[Net] \notin CountedAt /\ pc'[Net] \notin CountedAt
        BY <1>1, <1>2 DEF CountedAt, BusyAt
      <3>. QED BY <2>2, <3>1, <1>1, <1>2, <1>6, BystanderHolds
    <2>. QED BY <2>1, <2>2
  <1>. QED BY <1>9, <1>10, <1>11, <1>12, <1>13 DEF Inv

(* A new instance: nobody is anywhere with it. *)
LEMMA CreateKeeps ==
    ASSUME Inv, vboxNetFltFactoryCreateAndConnect, pc'[Net] = "insert"
    PROVE  Inv'
  <1>0. Net \in Actor /\ CtlTypes /\ NetHolds /\ ins \in [Ins -> InsType]
    BY ActorsDiffer DEF Inv, Types
  <1>1. PICK i \in Ins :
           /\ pc[Net] = "create" /\ chain = {} /\ ins[i].mem = "free" /\ \A a \in Actor : it[a] # i
           /\ ins' = [ins EXCEPT ![i] = [Blank EXCEPT !.mem = "used", !.cRefs = 1, !.pSwitchPort = TRUE]]
           /\ pc' = [pc EXCEPT ![Net] = "insert"] /\ it' = [it EXCEPT ![Net] = i]
           /\ UNCHANGED <<ret, chain, plugged>>
    <2>1. ~Goto(Net, "fac_release")
      BY <1>0, GotoMoves
    <2>. QED BY <2>1 DEF vboxNetFltFactoryCreateAndConnect, globals
  <1>2. PICK r : r = [Blank EXCEPT !.mem = "used", !.cRefs = 1, !.pSwitchPort = TRUE]
    OBVIOUS
  <1>3. /\ r \in InsType /\ r.mem = "used" /\ r.enmState = "Initializing" /\ r.enmTrunkState = "INACTIVE"
        /\ r.cRefs = 1 /\ r.cBusy = 0 /\ r.fRediscoveryPending = FALSE
    <2>1. PICK k : k = Blank
      OBVIOUS
    <2>2. /\ k.enmState = "Initializing" /\ k.enmTrunkState = "INACTIVE"
          /\ k.cBusy = 0 /\ k.fRediscoveryPending = FALSE
      BY <2>1 DEF Blank
    <2>3. k \in InsType
      BY <2>1 DEF Blank, InsType
    <2>4. r = [k EXCEPT !.mem = "used", !.cRefs = 1, !.pSwitchPort = TRUE]
      BY <1>2, <2>1
    <2>5. r \in InsType
      <3>1. PICK m : m = [k EXCEPT !.mem = "used"]
        OBVIOUS
      <3>2. m \in InsType
        BY <2>3, <3>1 DEF InsType
      <3>3. PICK n : n = [m EXCEPT !.cRefs = 1]
        OBVIOUS
      <3>4. n \in InsType
        BY <3>2, <3>3 DEF InsType
      <3>5. r = [n EXCEPT !.pSwitchPort = TRUE]
        BY <2>4, <3>1, <3>3
      <3>. QED BY <3>4, <3>5 DEF InsType
    <2>6. r.mem = "used" /\ r.cRefs = 1
      BY <2>3, <2>4 DEF InsType
    <2>7. /\ r.enmState = k.enmState /\ r.enmTrunkState = k.enmTrunkState /\ r.cBusy = k.cBusy
          /\ r.fRediscoveryPending = k.fRediscoveryPending
      BY <2>3, <2>4 DEF InsType
    <2>. QED BY <2>2, <2>5, <2>6, <2>7
  <1>4. ins' \in [Ins -> InsType] /\ ins'[i] = r /\ \A j \in Ins \ {i} : ins'[j] = ins[j]
    BY <1>1, <1>2, <1>3, OneTouched
  <1>5. CtlTypes' /\ Moves(Net) /\ it'[Net] = i /\ plugged = NIL
    BY <1>0, <1>1 DEF CtlTypes, Moves, NetHolds
  <1>6. ~Creating /\ Creating' /\ ~Waits'
    BY <1>1, <1>5 DEF Creating, Waits, FoundIdle, CreateAt, AttachAt
  <1>7. Types' /\ ChainHolds'
    BY <1>1, <1>4, <1>5 DEF Inv, Types, ChainHolds
  <1>8. NewIsBlank'
    BY <1>1, <1>3, <1>4, <1>5 DEF NewIsBlank
  <1>9. NetHolds'
    BY <1>1, <1>5, <1>6, <1>8 DEF NetHolds, AttachAt, DestroyAt
  <1>10. \A v \in Vm : VmHolds(v)'
    BY <1>1, <1>5, ActorsDiffer DEF Inv, VmHolds, Moves
  <1>11. ASSUME NEW b \in Actor PROVE DestroyerHolds(b)'
    <2>1. CASE b = Net
      BY <2>1 DEF DestroyerHolds, DestroyAt
    <2>2. CASE b # Net
      BY <2>2, <1>1, <1>4, <1>5 DEF DestroyerHolds, Moves, Inv
    <2>. QED BY <2>1, <2>2
  <1>12. ASSUME NEW j \in Ins PROVE InsHolds(j)'
    <2>1. CASE j = i
      <3>1. Holders(i, BusyAt)' = {} /\ Holders(i, CountedAt)' = {}
        BY <1>1, <1>5 DEF Holders, Moves, BusyAt, CountedAt
      <3>2. Own(i)' = 1
        BY <1>3, <1>4 DEF Own
      <3>3. Balanced(i)'
        BY <1>3, <1>4, <3>1, <3>2, FS_EmptySet DEF Balanced
      <3>4. StateHolds(i)' /\ PendingHolds(i)'
        BY <1>3, <1>4, <1>5, <1>6 DEF StateHolds, PendingHolds
      <3>. QED BY <2>1, <3>3, <3>4 DEF InsHolds
    <2>2. CASE j # i
      <3>1. pc[Net] \notin CountedAt /\ pc'[Net] \notin CountedAt
        BY <1>1 DEF CountedAt, BusyAt
      <3>. QED BY <2>2, <3>1, <1>0, <1>1, <1>4, <1>5, <1>6, BystanderHolds
    <2>. QED BY <2>1, <2>2
  <1>. QED BY <1>7, <1>9, <1>10, <1>11, <1>12 DEF Inv

LEMMA InsertKeeps ==
    ASSUME Inv, NEW i \in Ins, vboxNetFltNewInstance(i), chain = {}
    PROVE  Inv'
  <1>1. /\ pc[Net] = "insert" /\ it[Net] = i /\ ins[i].mem = "used" /\ Goto(Net, "init")
        /\ chain' = chain \cup {i} /\ UNCHANGED <<ins, plugged>> /\ NetHolds
    BY DEF vboxNetFltNewInstance, At, Inv
  <1>2. /\ CtlTypes' /\ Moves(Net) /\ pc'[Net] = "init" /\ it'[Net] = i /\ Net \in Actor
    BY <1>1, ActorsDiffer, GotoMoves
  <1>3. Creating /\ Creating' /\ ~Waits'
    BY <1>1, <1>2 DEF Creating, Waits, FoundIdle, CreateAt, AttachAt
  <1>4. Types' /\ ChainHolds'
    BY <1>1, <1>2 DEF Inv, Types, ChainHolds
  <1>5. NewIsBlank'
    BY <1>1, <1>2, <1>3 DEF NetHolds, NewIsBlank
  <1>6. NetHolds'
    BY <1>1, <1>2, <1>3, <1>5 DEF NetHolds, AttachAt, DestroyAt
  <1>7. \A v \in Vm : VmHolds(v)'
    BY <1>1, <1>2, ActorsDiffer DEF Inv, VmHolds, Moves
  <1>8. ASSUME NEW b \in Actor PROVE DestroyerHolds(b)'
    <2>1. CASE b = Net
      BY <2>1, <1>2 DEF DestroyerHolds, DestroyAt
    <2>2. CASE b # Net
      BY <2>2, <1>1, <1>2 DEF DestroyerHolds, Moves, Inv
    <2>. QED BY <2>1, <2>2
  <1>9. ASSUME NEW j \in Ins PROVE InsHolds(j)'
    <2>1. pc[Net] \notin CountedAt /\ pc'[Net] \notin CountedAt
      BY <1>1, <1>2 DEF CountedAt, BusyAt
    <2>. QED BY <2>1, <1>1, <1>2, <1>3, BystanderHolds
  <1>. QED BY <1>4, <1>6, <1>7, <1>8, <1>9 DEF Inv

(* The creator's reference becomes the internal network's. *)
LEMMA ConnectKeeps ==
    ASSUME Inv, NEW i \in Ins, vboxNetFltConnectIt(i)
    PROVE  Inv'
  <1>1. /\ pc[Net] = "connect" /\ it[Net] = i /\ ins[i].mem = "used" /\ Goto(Net, "fac_release")
        /\ UNCHANGED chain /\ plugged' = i /\ NetHolds /\ InsHolds(i)
        /\ ins[i] \in InsType /\ ins \in [Ins -> InsType]
    BY DEF vboxNetFltConnectIt, At, globals, Inv, Types
  <1>2. CtlTypes' /\ Moves(Net) /\ pc'[Net] = "fac_release" /\ Net \in Actor
    BY <1>1, ActorsDiffer, GotoMoves
  <1>3. PICK r : r = [ins[i] EXCEPT !.enmState = "Connected"]
    OBVIOUS
  <1>4. /\ r \in InsType /\ r.mem = "used" /\ r.enmState = "Connected"
        /\ r.cRefs = ins[i].cRefs /\ r.cBusy = ins[i].cBusy /\ r.enmTrunkState = ins[i].enmTrunkState
        /\ r.fRediscoveryPending = ins[i].fRediscoveryPending
        /\ ins[i].cRefs \in Int /\ ins[i].cBusy \in Int
    BY <1>1, <1>3 DEF InsType
  <1>5. ins' = [ins EXCEPT ![i] = r]
    BY <1>1, <1>3 DEF vboxNetFltConnectIt
  <1>6. ins' \in [Ins -> InsType] /\ ins'[i] = r /\ \A j \in Ins \ {i} : ins'[j] = ins[j]
    BY <1>4, <1>5, OneTouched
  <1>7. /\ plugged = NIL /\ ins[i].enmState = "Initializing" /\ Creating /\ ~Creating' /\ ~Waits'
    BY <1>1, <1>2 DEF NetHolds, NewIsBlank, Creating, Waits, FoundIdle, CreateAt, AttachAt
  <1>8. Types' /\ ChainHolds'
    BY <1>1, <1>2, <1>4, <1>6 DEF Inv, Types, ChainHolds
  <1>9. NetHolds'
    BY <1>1, <1>2, <1>4, <1>6, <1>7 DEF NetHolds, AttachAt, DestroyAt
  <1>10. \A v \in Vm : VmHolds(v)'
    BY <1>2, <1>7, ActorsDiffer DEF Inv, VmHolds, Moves
  <1>11. ASSUME NEW b \in Actor PROVE DestroyerHolds(b)'
    <2>1. CASE b = Net
      BY <2>1, <1>2 DEF DestroyerHolds, DestroyAt
    <2>2. CASE b # Net
      BY <2>2, <1>1, <1>2, <1>6, <1>7 DEF DestroyerHolds, Moves, Inv
    <2>. QED BY <2>1, <2>2
  <1>12. pc[Net] \notin CountedAt /\ pc'[Net] \notin CountedAt
    BY <1>1, <1>2 DEF CountedAt, BusyAt
  <1>13. ASSUME NEW j \in Ins PROVE InsHolds(j)'
    <2>1. CASE j = i
      <3>1. Own(i)' = 1 /\ Own(i) = 1
        BY <1>4, <1>6, <1>7 DEF Own
      <3>2. /\ ~Within(Net, i, CountedAt) /\ ~Within(Net, i, CountedAt)' /\ ~Within(Net, i, BusyAt)
            /\ ~Within(Net, i, BusyAt)'
        BY <1>12 DEF Within, CountedAt
      <3>3. Counts(Net, i)
        BY <1>4, <1>6, <3>1, <3>2 DEF Counts, One
      <3>4. Balanced(i)'
        BY <1>1, <1>2, <3>3, BalanceMoves DEF InsHolds
      <3>5. StateHolds(i)'
        BY <1>1, <1>4, <1>6 DEF StateHolds
      <3>6. PendingHolds(i)'
        BY <1>1, <1>2, <1>4, <1>6, ActorsDiffer DEF InsHolds, PendingHolds, Moves
      <3>. QED BY <2>1, <3>4, <3>5, <3>6 DEF InsHolds
    <2>2. CASE j # i
      BY <2>2, <1>1, <1>2, <1>6, <1>7, <1>12, InsAssumption, BystanderHolds
    <2>. QED BY <2>1, <2>2
  <1>. QED BY <1>8, <1>9, <1>10, <1>11, <1>13 DEF Inv

(* The state of the trunk. *)
LEMMA SetStateKeeps ==
    ASSUME Inv, NEW s \in {"ACTIVE", "INACTIVE", "DISCONNECTING"}, vboxNetFltPortSetState(s)
    PROVE  Inv'
  <1>0. plugged \in Ins \cup {NIL} /\ NetHolds /\ CtlTypes /\ Net \in Actor /\ ins \in [Ins -> InsType]
    BY ActorsDiffer DEF Inv, Types
  <1>1. /\ pc[Net] = "idle" /\ plugged # NIL /\ ins[plugged].enmState = "Connected"
        /\ ins' = [ins EXCEPT ![plugged].enmTrunkState = s] /\ UNCHANGED <<chain, plugged, ret>>
        /\ \/ s = "DISCONNECTING" /\ pc' = [pc EXCEPT ![Net] = "wait"] /\ it' = [it EXCEPT ![Net] = plugged]
           \/ s # "DISCONNECTING" /\ UNCHANGED <<pc, it>>
    BY DEF vboxNetFltPortSetState, Connected, globals
  <1>2. PICK i \in Ins : i = plugged
    BY <1>0, <1>1
  <1>3. ins[i] \in InsType /\ ins[i].mem = "used" /\ InsHolds(i)
    BY <1>0, <1>1, <1>2 DEF NetHolds, Inv
  <1>4. PICK r : r = [ins[i] EXCEPT !.enmTrunkState = s]
    OBVIOUS
  <1>5. /\ r \in InsType /\ r.mem = "used" /\ r.enmState = "Connected" /\ r.enmTrunkState = s
        /\ r.cRefs = ins[i].cRefs /\ r.cBusy = ins[i].cBusy
        /\ r.fRediscoveryPending = ins[i].fRediscoveryPending
        /\ ins[i].cRefs \in Int /\ ins[i].cBusy \in Int
    BY <1>1, <1>2, <1>3, <1>4 DEF InsType
  <1>6. ins' = [ins EXCEPT ![i] = r]
    BY <1>0, <1>1, <1>2, <1>4
  <1>7. ins' \in [Ins -> InsType] /\ ins'[i] = r /\ \A j \in Ins \ {i} : ins'[j] = ins[j]
    BY <1>5, <1>6, OneTouched
  <1>8. /\ CtlTypes' /\ Moves(Net) /\ pc'[Net] \in {"idle", "wait"}
        /\ pc'[Net] = "wait" => s = "DISCONNECTING" /\ it'[Net] = i
        /\ \A b \in Actor \ {Net} : pc'[b] = pc[b] /\ it'[b] = it[b]
    BY <1>0, <1>1, <1>2 DEF CtlTypes, Moves
  <1>9. Types' /\ ChainHolds'
    BY <1>1, <1>2, <1>3, <1>5, <1>7, <1>8 DEF Inv, Types, ChainHolds
  <1>10. ~Creating /\ ~Creating' /\ ~FoundIdle' /\ (Waits' => pc'[Net] = "wait")
    BY <1>1, <1>8 DEF Creating, Waits, FoundIdle, CreateAt, AttachAt
  <1>11. Waits' => OldIsDown'
    BY <1>1, <1>2, <1>5, <1>7, <1>8, <1>10 DEF OldIsDown
  <1>12. NetHolds'
    BY <1>0, <1>1, <1>2, <1>5, <1>7, <1>8, <1>10, <1>11 DEF NetHolds, AttachAt, DestroyAt
  <1>13. \A v \in Vm : VmHolds(v)'
    BY <1>1, <1>8, ActorsDiffer DEF Inv, VmHolds
  <1>14. ASSUME NEW b \in Actor PROVE DestroyerHolds(b)'
    <2>1. CASE b = Net
      BY <2>1, <1>8 DEF DestroyerHolds, DestroyAt
    <2>2. CASE b # Net
      BY <2>2, <1>1, <1>2, <1>3, <1>7, <1>8 DEF DestroyerHolds, Inv
    <2>. QED BY <2>1, <2>2
  <1>15. pc[Net] \notin CountedAt /\ pc'[Net] \notin CountedAt
    BY <1>1, <1>8 DEF CountedAt, BusyAt
  <1>16. ASSUME NEW j \in Ins PROVE InsHolds(j)'
    <2>1. CASE j = i
      <3>1. Own(i)' = 1 /\ Own(i) = 1
        BY <1>1, <1>2, <1>5, <1>7 DEF Own
      <3>2. /\ ~Within(Net, i, CountedAt) /\ ~Within(Net, i, CountedAt)' /\ ~Within(Net, i, BusyAt)
            /\ ~Within(Net, i, BusyAt)'
        BY <1>15 DEF Within, CountedAt
      <3>3. Counts(Net, i)
        BY <1>5, <1>7, <3>1, <3>2 DEF Counts, One
      <3>4. Balanced(i)'
        BY <1>0, <1>3, <1>8, <3>3, BalanceMoves DEF InsHolds
      <3>5. StateHolds(i)'
        BY <1>1, <1>2, <1>5, <1>7 DEF StateHolds
      <3>6. PendingHolds(i)'
        BY <1>3, <1>5, <1>7, <1>8, ActorsDiffer DEF InsHolds, PendingHolds
      <3>. QED BY <2>1, <3>4, <3>5, <3>6 DEF InsHolds
    <2>2. CASE j # i
      BY <2>2, <1>0, <1>1, <1>2, <1>7, <1>8, <1>10, <1>15, BystanderHolds
    <2>. QED BY <2>1, <2>2
  <1>. QED BY <1>9, <1>12, <1>13, <1>14, <1>16 DEF Inv

(* The internal network gives its reference to its own call. *)
LEMMA DisconnectKeeps ==
    ASSUME Inv, NEW i \in Ins, vboxNetFltPortDisconnectAndRelease(i)
    PROVE  Inv'
  <1>1. /\ pc[Net] = "is_idle" /\ it[Net] = i /\ ins[i].mem = "used" /\ \A v \in Vm : pc[v] = "idle"
        /\ UNCHANGED <<chain, it>> /\ plugged' = NIL
        /\ pc' = [pc EXCEPT ![Net] = "release"] /\ ret' = [ret EXCEPT ![Net] = "idle"]
        /\ ins[i] \in InsType /\ ins \in [Ins -> InsType] /\ NetHolds /\ CtlTypes /\ Net \in Actor
        /\ InsHolds(i)
    BY ActorsDiffer DEF vboxNetFltPortDisconnectAndRelease, At, globals, Inv, Types
  <1>2. /\ CtlTypes' /\ Moves(Net) /\ pc'[Net] = "release" /\ ret'[Net] = "idle"
    BY <1>1 DEF CtlTypes, Moves, ReturnTo
  <1>3. PICK r : r = [ins[i] EXCEPT !.enmState = "Disconnecting", !.pSwitchPort = FALSE]
    OBVIOUS
  <1>4. /\ r \in InsType /\ r.mem = "used" /\ r.enmState = "Disconnecting"
        /\ r.cRefs = ins[i].cRefs /\ r.cBusy = ins[i].cBusy /\ r.enmTrunkState = ins[i].enmTrunkState
        /\ r.fRediscoveryPending = ins[i].fRediscoveryPending
        /\ ins[i].cRefs \in Int /\ ins[i].cBusy \in Int
    <2>1. PICK k : k = [ins[i] EXCEPT !.enmState = "Disconnecting"]
      OBVIOUS
    <2>2. k \in InsType /\ k.enmState = "Disconnecting"
      BY <1>1, <2>1 DEF InsType
    <2>3. /\ k.mem = ins[i].mem /\ k.cRefs = ins[i].cRefs /\ k.cBusy = ins[i].cBusy
          /\ k.enmTrunkState = ins[i].enmTrunkState
          /\ k.fRediscoveryPending = ins[i].fRediscoveryPending
      BY <1>1, <2>1 DEF InsType
    <2>4. r = [k EXCEPT !.pSwitchPort = FALSE]
      BY <1>3, <2>1
    <2>5. r \in InsType
      BY <2>2, <2>4 DEF InsType
    <2>6. /\ r.mem = k.mem /\ r.enmState = k.enmState /\ r.cRefs = k.cRefs /\ r.cBusy = k.cBusy
          /\ r.enmTrunkState = k.enmTrunkState /\ r.fRediscoveryPending = k.fRediscoveryPending
      BY <2>2, <2>4 DEF InsType
    <2>7. ins[i].cRefs \in Int /\ ins[i].cBusy \in Int
      BY <1>1 DEF InsType
    <2>. QED BY <1>1, <2>2, <2>3, <2>5, <2>6, <2>7
  <1>5. ins' = [ins EXCEPT ![i] = r]
    BY <1>1, <1>3 DEF vboxNetFltPortDisconnectAndRelease
  <1>6. ins' \in [Ins -> InsType] /\ ins'[i] = r /\ \A j \in Ins \ {i} : ins'[j] = ins[j]
    BY <1>4, <1>5, OneTouched
  <1>7. Waits /\ FoundIdle /\ ~Creating /\ ~Creating' /\ ~Waits'
    BY <1>1, <1>2 DEF Creating, Waits, FoundIdle, CreateAt, AttachAt
  <1>8. /\ plugged = i /\ i # NIL /\ ins[i].enmTrunkState = "DISCONNECTING" /\ ins[i].cBusy = 0
        /\ ins[i].enmState = "Connected"
    BY <1>1, <1>7 DEF NetHolds, OldIsDown
  <1>9. Types' /\ ChainHolds'
    BY <1>1, <1>2, <1>4, <1>6 DEF Inv, Types, ChainHolds
  <1>10. NetHolds'
    BY <1>1, <1>2, <1>7 DEF NetHolds, AttachAt, DestroyAt
  <1>11. \A v \in Vm : VmHolds(v)'
    BY <1>1, <1>2, ActorsDiffer DEF VmHolds, Moves
  <1>12. ASSUME NEW b \in Actor PROVE DestroyerHolds(b)'
    <2>1. CASE b = Net
      BY <2>1, <1>2 DEF DestroyerHolds, DestroyAt
    <2>2. CASE b # Net
      <3>1. DestroyerHolds(b)
        BY DEF Inv
      <3>2. pc[b] \in DestroyAt => it[b] # i
        BY <3>1, <1>1, <1>8 DEF DestroyerHolds
      <3>. QED BY <2>2, <3>1, <3>2, <1>2, <1>6 DEF DestroyerHolds, Moves
    <2>. QED BY <2>1, <2>2
  <1>13. ASSUME NEW j \in Ins PROVE InsHolds(j)'
    <2>1. CASE j = i
      <3>1. Own(i)' = 0 /\ Own(i) = 1
        BY <1>4, <1>6, <1>8 DEF Own
      <3>2. /\ ~Within(Net, i, CountedAt) /\ Within(Net, i, CountedAt)' /\ ~Within(Net, i, BusyAt)
            /\ ~Within(Net, i, BusyAt)'
        BY <1>1, <1>2 DEF Within, CountedAt, BusyAt
      <3>3. Counts(Net, i)
        BY <1>4, <1>6, <3>1, <3>2 DEF Counts, One
      <3>4. Balanced(i)'
        BY <1>1, <1>2, <3>3, BalanceMoves DEF InsHolds
      <3>5. StateHolds(i)'
        BY <1>4, <1>6, <1>8 DEF StateHolds
      <3>6. PendingHolds(i)'
        BY <1>1, <1>2, <1>4, <1>6, ActorsDiffer DEF InsHolds, PendingHolds, Moves
      <3>. QED BY <2>1, <3>4, <3>5, <3>6 DEF InsHolds
    <2>2. CASE j # i
      BY <2>2, <1>1, <1>2, <1>6, <1>7, <1>8, BystanderHolds
    <2>. QED BY <2>1, <2>2
  <1>. QED BY <1>9, <1>10, <1>11, <1>12, <1>13 DEF Inv

-----------------------------------------------------------------------------

LEMMA InitHolds == Init => Inv
  <1> SUFFICES ASSUME Init PROVE Inv
    OBVIOUS
  <1>1. Blank \in InsType /\ Blank.mem = "free" /\ Blank.enmState = "Initializing"
    BY DEF Blank, InsType
  <1>2. ins = [i \in Ins |-> Blank] /\ plugged = NIL /\ chain = {}
        /\ pc = [a \in Actor |-> "idle"] /\ it = [a \in Actor |-> NIL] /\ ret = [a \in Actor |-> "idle"]
    BY DEF Init
  <1>3. Types
    BY <1>1, <1>2 DEF Types, CtlTypes, ReturnTo
  <1>4. pc[Net] = "idle"
    BY <1>2, ActorsDiffer
  <1>5. NetHolds /\ ChainHolds
    BY <1>2, <1>4 DEF NetHolds, ChainHolds, Creating, Waits, FoundIdle, CreateAt, AttachAt, DestroyAt
  <1>6. (\A v \in Vm : VmHolds(v)) /\ \A a \in Actor : DestroyerHolds(a)
    BY <1>2, ActorsDiffer DEF VmHolds, DestroyerHolds, DestroyAt
  <1>7. \A i \in Ins : InsHolds(i)
    BY <1>1, <1>2 DEF InsHolds
  <1>. QED BY <1>3, <1>5, <1>6, <1>7 DEF Inv

LEMMA NextHolds == Inv /\ [Next]_vars => Inv'
  <1> SUFFICES ASSUME Inv, [Next]_vars PROVE Inv'
    OBVIOUS
  <1>0. Net \in Actor /\ Kernel \in Actor /\ Vm \subseteq Actor
    BY ActorsDiffer
  <1>1. CASE UNCHANGED vars
    <2>1. UNCHANGED <<ins, chain, pc, it, ret, plugged>>
      BY <1>1 DEF vars, globals, ctl
    <2>2. Types' /\ NetHolds' /\ ChainHolds'
      BY <2>1 DEF Inv, Types, CtlTypes, NetHolds, ChainHolds, Creating, Waits, FoundIdle, NewIsBlank, OldIsDown
    <2>3. \A v \in Vm : VmHolds(v)'
      BY <2>1 DEF Inv, VmHolds
    <2>4. \A a \in Actor : DestroyerHolds(a)'
      BY <2>1 DEF Inv, DestroyerHolds
    <2>5. \A i \in Ins : InsHolds(i)'
      BY <2>1 DEF Inv, InsHolds, StateHolds, PendingHolds, Balanced, Holders, Own, Creating
    <2>. QED BY <2>2, <2>3, <2>4, <2>5 DEF Inv
  <1>2. CASE DeviceEvent \/ Receive \/ Received \/ VBoxNetFltLinuxUnload \/ ExitStep \/ VBoxNetFltLinuxInit
    BY <1>2, DeviceKeeps, ReceiveKeeps, ExitKeeps
  <1>3. ASSUME NEW a \in Actor, ReleaseStep(a) PROVE Inv'
    BY <1>3, ReleaseBusyKeeps, ReleaseKeeps DEF ReleaseStep
  <1>4. ASSUME NEW a \in {Net, Kernel}, AttachStep(a) \/ DestroyStep(a) PROVE Inv'
    BY <1>4, AttachKeeps, ReportKeeps, DestroyerKeeps, UnlinkKeeps DEF AttachStep, DestroyStep
  <1>5. CASE KernelStep
    BY <1>0, <1>3, <1>4, <1>5, DeviceKeeps DEF KernelStep
  <1>6. CASE CreateStep
    <2>1. CASE vboxNetFltFactoryCreateAndConnect
      <3>1. CASE Goto(Net, "fac_release") /\ UNCHANGED ins
        BY <2>1, <3>1, FactoryKeeps
      <3>2. CASE ~(Goto(Net, "fac_release") /\ UNCHANGED ins)
        <4>1. pc'[Net] = "insert"
          BY <1>0, <2>1, <3>2 DEF vboxNetFltFactoryCreateAndConnect, Inv, Types, CtlTypes
        <4>. QED BY <2>1, <4>1, CreateKeeps
      <3>. QED BY <3>1, <3>2
    <2>2. CASE vboxNetFltFactoryRelease
      BY <2>2, FactoryKeeps
    <2>3. ASSUME NEW i \in Ins, vboxNetFltNewInstance(i) PROVE Inv'
      BY <2>3, InsertKeeps, GiveUpKeeps
    <2>4. ASSUME NEW i \in Ins, vboxNetFltConnectIt(i) \/ BailOut(i) PROVE Inv'
      BY <2>4, ConnectKeeps, GiveUpKeeps
    <2>. QED BY <1>6, <2>1, <2>2, <2>3, <2>4, InitInstanceKeeps DEF CreateStep
  <1>7. CASE CloseStep
    BY <1>7, WaitAgainKeeps, WaitForIdleKeeps, WaiterKeeps, DisconnectKeeps DEF CloseStep
  <1>8. CASE NetStep
    BY <1>0, <1>3, <1>4, <1>6, <1>7, <1>8 DEF NetStep
  <1>9. CASE Open \/ Use \/ Timeout
    BY <1>9, FactoryKeeps, PortCallKeeps, SetStateKeeps, WaiterKeeps DEF Use, Timeout
  <1>10. ASSUME NEW v \in Vm, vboxNetFltPortXmit(v) \/ VmStep(v) PROVE Inv'
    BY <1>0, <1>3, <1>10, SenderKeeps, XmitKeeps DEF VmStep
  <1>. QED BY <1>1, <1>2, <1>5, <1>8, <1>9, <1>10 DEF Next

(* What the calls in progress and the counts have to do with each other    *)
(* holds always.                                                           *)
THEOREM InvariantHolds == Spec => []Inv
  BY InitHolds, NextHolds, PTL DEF Spec

(* The counts of an instance are those of the calls in progress: nobody    *)
(* forgets a reference and nobody drops one twice.                         *)
THEOREM CountsBalance == Spec => []RefsBalanced
  <1>1. Inv => RefsBalanced
    <2> SUFFICES ASSUME Inv, NEW i \in Ins, ins[i].mem = "used"
                 PROVE  /\ ins[i].cBusy = Cardinality(Holders(i, BusyAt))
                        /\ ins[i].cRefs = Cardinality(Holders(i, CountedAt)) + (IF Owned(i) THEN 1 ELSE 0)
      BY DEF RefsBalanced
    <2>1. Balanced(i) /\ StateHolds(i) /\ ins[i] \in InsType /\ NetHolds
      BY DEF Inv, InsHolds, Types
    <2>2. Owned(i) <=> ins[i].enmState # "Disconnecting"
      BY <2>1, InsAssumption DEF Owned, StateHolds, NetHolds, InsType
    <2>. QED BY <2>1, <2>2 DEF Balanced, Own
  <1>. QED BY <1>1, InvariantHolds, PTL

(* An instance that was found idle, or is disconnected, is in no call that *)
(* keeps it busy.                                                          *)
THEOREM IdleStaysIdle == Spec => []IdleIsIdle
  <1>1. Inv => IdleIsIdle
    <2> SUFFICES ASSUME Inv, NEW i \in Ins, ins[i].mem = "used",
                        ins[i].enmState = "Disconnecting" \/ (it[Net] = i /\ pc[Net] = "is_idle")
                 PROVE  ins[i].cBusy = 0 /\ ~ins[i].fRediscoveryPending
      BY DEF IdleIsIdle
    <2>1. Balanced(i) /\ StateHolds(i) /\ PendingHolds(i) /\ NetHolds
      BY DEF Inv, InsHolds
    <2>2. ins[i].cBusy = 0
      BY <2>1 DEF StateHolds, NetHolds, Waits, FoundIdle, OldIsDown
    <2>3. Holders(i, BusyAt) = {}
      BY <2>1, <2>2, FS_EmptySet DEF Balanced
    <2>. QED BY <2>1, <2>2, <2>3, ActorsDiffer DEF PendingHolds, Holders, BusyAt
  <1>. QED BY <1>1, InvariantHolds, PTL

(* The factory never finds a freed instance, nor two of one name.          *)
THEOREM ListStaysSound == Spec => []ListIsSound
  <1>1. Inv => ListIsSound
    <2> SUFFICES ASSUME Inv PROVE ListIsSound
      OBVIOUS
    <2>1. ChainHolds
      BY DEF Inv
    <2>2. CASE chain = {}
      BY <2>1, <2>2, FS_EmptySet DEF ListIsSound, ChainHolds
    <2>3. CASE chain # {}
      <3>1. PICK i : i \in chain
        BY <2>3
      <3>2. chain = {i}
        BY <2>1, <3>1 DEF ChainHolds
      <3>. QED BY <2>1, <3>2, FS_Singleton DEF ListIsSound, ChainHolds
    <2>. QED BY <2>2, <2>3
  <1>. QED BY <1>1, InvariantHolds, PTL

-----------------------------------------------------------------------------
(* The connection to the support driver is closed when nobody uses it.     *)

(* The internal network has a reference to the factory. *)
HasFactory == pc[Net] \in {"create", "fac_release"} \/ Creating

(* From the second look on the factory cannot be found any more. *)
ExitHolds ==
    /\ pc[Exit] # "idle" => module # "live"
    /\ pc[Exit] \in {"recheck", "close"} => ~factories
    /\ pc[Exit] = "close" => chain = {} /\ cFactoryRefs = 0

(* An instance is in the list from its insertion until it is freed. *)
Listed(i) == ins[i].mem = "used" => i \in chain \/ (pc[Net] = "insert" /\ it[Net] = i)

Destroys(a, i) == it[a] = i /\ pc[a] \in DestroyAt

DestroysAlone ==
    \A i \in Ins : \A a, b \in Actor :
        ins[i].mem = "used" /\ Destroys(a, i) /\ Destroys(b, i) => a = b

NetAt == {"idle", "create", "fac_release", "wait", "waiting", "asleep", "is_idle", "busy", "release"}
             \cup CreateAt \cup DestroyAt

NetAlive ==
    /\ pc[Net] \in NetAt /\ ret[Net] \in {"idle", "registered", "is_idle"}
    /\ pc[Net] \in {"release"} \cup DestroyAt => it[Net] \in Ins /\ ins[it[Net]].mem = "used"

(* The module has a reference for each instance that was connected, until  *)
(* who destroys it has taken back its notifier.                            *)
Bound(i) ==
    /\ ins[i].mem = "used" /\ ins[i].enmState # "Initializing"
    /\ \A a \in Actor : ~(it[a] = i /\ pc[a] = "unlink")

BoundSet == {i \in Ins : Bound(i)}

LoadedHolds ==
    /\ IsFiniteSet(BoundSet) /\ modRefs = Cardinality(BoundSet) + One(pc[Net] = "connect")
    /\ module \in {"live", "going", "gone"} /\ (modRefs # 0 => module = "live")

UseHolds ==
    /\ cFactoryRefs = One(HasFactory) /\ ExitHolds /\ DestroysAlone /\ NetAlive
    /\ LoadedHolds /\ \A i \in Ins : Listed(i)

SameMem ==
    \A i \in Ins :
        /\ ins'[i].mem = ins[i].mem
        /\ ins'[i].enmState = "Initializing" <=> ins[i].enmState = "Initializing"

(* Nobody begins to destroy an instance. *)
NoEntry(a) == pc'[a] \in DestroyAt => pc[a] \in DestroyAt /\ it'[a] = it[a]

LEMMA AloneStays ==
    ASSUME DestroysAlone, NEW a \in Actor, Moves(a), NoEntry(a),
           \A i \in Ins : \/ ins'[i].mem = "used" => ins[i].mem = "used"
                          \/ \A b \in Actor \ {a} : it[b] # i
    PROVE  DestroysAlone'
  <1> SUFFICES ASSUME NEW i \in Ins, NEW b \in Actor, NEW c \in Actor,
                      ins'[i].mem = "used", Destroys(b, i)', Destroys(c, i)'
               PROVE  b = c
    BY DEF DestroysAlone
  <1>1. Destroys(b, i) /\ Destroys(c, i)
    BY DEF Destroys, Moves, NoEntry
  <1>2. CASE ins[i].mem = "used"
    BY <1>1, <1>2 DEF DestroysAlone
  <1>3. CASE \A d \in Actor \ {a} : it[d] # i
    BY <1>1, <1>3 DEF Destroys
  <1>. QED BY <1>2, <1>3

LEMMA BoundStays ==
    ASSUME NEW a \in Actor, Moves(a), SameMem, pc[a] # "unlink", pc'[a] # "unlink"
    PROVE  \A i \in Ins : Bound(i)' <=> Bound(i)
  BY DEF Bound, SameMem, Moves

LEMMA LoadedStays ==
    ASSUME LoadedHolds, UNCHANGED <<module, modRefs>>, pc'[Net] = "connect" <=> pc[Net] = "connect",
           \A i \in Ins : Bound(i)' <=> Bound(i)
    PROVE  LoadedHolds'
  <1>1. BoundSet' = BoundSet
    BY DEF BoundSet
  <1>2. One(pc[Net] = "connect")' = One(pc[Net] = "connect")
    BY DEF One
  <1>. QED BY <1>1, <1>2 DEF LoadedHolds

(* A step that leaves the list and the factory alone and frees nothing. *)
LEMMA RestKeeps ==
    ASSUME UseHolds, NEW a \in Actor \ {Exit}, Moves(a), NoEntry(a), LoadedHolds',
           \A i \in Ins : ins'[i].mem = ins[i].mem,
           UNCHANGED <<chain, cFactoryRefs, factories, module>>,
           a = Net => (HasFactory' <=> HasFactory) /\ NetAlive' /\ pc[Net] # "insert"
    PROVE  UseHolds'
  <1>0. Net \in Actor /\ Exit \in Actor /\ Net # Exit
    BY ActorsDiffer
  <1>1. a # Net => UNCHANGED <<pc[Net], it[Net], ret[Net]>>
    BY <1>0 DEF Moves
  <1>2. HasFactory' <=> HasFactory
    BY <1>1 DEF HasFactory, Creating
  <1>3. cFactoryRefs' = One(HasFactory)'
    BY <1>2 DEF UseHolds, One
  <1>4. ExitHolds'
    BY <1>0 DEF UseHolds, ExitHolds, Moves
  <1>5. DestroysAlone'
    BY AloneStays DEF UseHolds
  <1>6. NetAlive'
    BY <1>1 DEF UseHolds, NetAlive
  <1>7. ASSUME NEW i \in Ins PROVE Listed(i)'
    BY <1>1 DEF UseHolds, Listed
  <1>. QED BY <1>3, <1>4, <1>5, <1>6, <1>7 DEF UseHolds

(* Nor does it connect or destroy an instance. *)
LEMMA FrameKeeps ==
    ASSUME UseHolds, NEW a \in Actor \ {Exit}, Moves(a), NoEntry(a), SameMem,
           UNCHANGED <<chain, cFactoryRefs, factories, module, modRefs>>,
           pc[a] # "unlink", pc'[a] # "unlink",
           a = Net => /\ HasFactory' <=> HasFactory
                      /\ NetAlive' /\ pc[Net] # "insert"
                      /\ pc'[Net] = "connect" <=> pc[Net] = "connect"
    PROVE  UseHolds'
  <1>1. Net \in Actor /\ (a # Net => UNCHANGED pc[Net])
    BY ActorsDiffer DEF Moves
  <1>2. \A i \in Ins : Bound(i)' <=> Bound(i)
    BY BoundStays
  <1>3. LoadedHolds'
    BY <1>1, <1>2, LoadedStays DEF UseHolds
  <1>. QED BY <1>3, RestKeeps DEF SameMem

(* Somebody who is neither the internal network nor unloads the module. *)
LEMMA OtherKeeps ==
    ASSUME UseHolds, NEW a \in Actor \ {Exit, Net}, Moves(a), SameMem,
           pc[a] # "unlink", pc'[a] \notin DestroyAt,
           UNCHANGED <<chain, cFactoryRefs, factories, module, modRefs>>
    PROVE  UseHolds'
  BY FrameKeeps DEF NoEntry, DestroyAt

(* What the steps do to one field or two of an instance.                   *)
LEMMA CoreMem == KeepsCore => SameMem
  BY DEF KeepsCore, SameMem

LEMMA CountMem ==
    ASSUME Inv, NEW i \in Ins, NEW x, NEW y,
           \/ ins' = [ins EXCEPT ![i].cRefs = x]
           \/ ins' = [ins EXCEPT ![i].cRefs = x, ![i].cBusy = y]
           \/ ins' = [ins EXCEPT ![i].cBusy = x, ![i].hEventIdle = y]
           \/ ins' = [ins EXCEPT ![i].fRediscoveryPending = x]
           \/ /\ ins[i].enmState # "Initializing" /\ x # "Initializing"
              /\ \/ ins' = [ins EXCEPT ![i].enmState = x]
                 \/ ins' = [ins EXCEPT ![i].enmState = x, ![i].pSwitchPort = y]
           \/ ins' = [ins EXCEPT ![i].enmTrunkState = x]
    PROVE  SameMem
  <1>1. ins \in [Ins -> InsType]
    BY DEF Inv, Types
  <1>. QED BY <1>1 DEF SameMem, InsType

LEMMA DeviceUse ==
    ASSUME Inv, UseHolds, DeviceEvent \/ Notified \/ (\E i \in Ins : RemovePack(i))
    PROVE  UseHolds'
  <1>0. Kernel \in Actor \ {Exit, Net}
    BY ActorsDiffer DEF Kernel, Exit
  <1>1. CASE Unheard
    <2>1. pc[Kernel] = "idle" /\ SameMem /\ Moves(Kernel) /\ UNCHANGED <<pc, it, chain, cFactoryRefs, factories, module, modRefs>>
      BY <1>1 DEF Unheard, SameMem, Moves, ctl, globals, supdrv, kernel
    <2>. QED BY <1>0, <2>1, OtherKeeps DEF DestroyAt
  <1>2. ASSUME NEW i \in Ins, vboxNetFltLinuxNotifierCallback(i) PROVE UseHolds'
    <2>1. pc[Kernel] = "idle" /\ SameMem /\ UNCHANGED <<chain, cFactoryRefs, factories, module, modRefs>>
      BY <1>2 DEF vboxNetFltLinuxNotifierCallback, SameMem, globals, supdrv, kernel
    <2>2. Moves(Kernel) /\ pc'[Kernel] = "attach"
      BY <1>0, <1>2 DEF vboxNetFltLinuxNotifierCallback, Inv, Types, CtlTypes, Moves
    <2>. QED BY <1>0, <2>1, <2>2, OtherKeeps DEF DestroyAt
  <1>3. ASSUME NEW i \in Ins, vboxNetFltLinuxUnregisterDevice(i) PROVE UseHolds'
    <2>1. pc[Kernel] = "idle" /\ SameMem /\ UNCHANGED <<chain, cFactoryRefs, factories, module, modRefs>>
      BY <1>3, FieldsUntouched, CoreMem DEF vboxNetFltLinuxUnregisterDevice, globals, supdrv, kernel
    <2>2. Moves(Kernel) /\ pc'[Kernel] = "rem_pack"
      BY <1>0, <1>3 DEF vboxNetFltLinuxUnregisterDevice, Inv, Types, CtlTypes, Moves
    <2>. QED BY <1>0, <2>1, <2>2, OtherKeeps DEF DestroyAt
  <1>4. ASSUME NEW i \in Ins, RemovePack(i) PROVE UseHolds'
    <2>1. SameMem
      BY <1>4, FieldsUntouched, CoreMem DEF RemovePack
    <2>2. pc[Kernel] = "rem_pack" /\ Goto(Kernel, "notified") /\ UNCHANGED <<chain, cFactoryRefs, factories, module, modRefs>>
      BY <1>4 DEF RemovePack, At, globals, supdrv, kernel
    <2>3. Moves(Kernel) /\ pc'[Kernel] = "notified"
      BY <1>0, <2>2, GotoMoves
    <2>. QED BY <1>0, <2>1, <2>2, <2>3, OtherKeeps DEF DestroyAt
  <1>5. CASE Notified
    <2>1. pc[Kernel] = "notified" /\ SameMem /\ Goto(Kernel, "idle") /\ UNCHANGED <<chain, cFactoryRefs, factories, module, modRefs>>
      BY <1>5 DEF Notified, SameMem, globals, supdrv, kernel
    <2>2. Moves(Kernel) /\ pc'[Kernel] = "idle"
      BY <1>0, <2>1, GotoMoves
    <2>. QED BY <1>0, <2>1, <2>2, OtherKeeps DEF DestroyAt
  <1>. QED BY <1>1, <1>2, <1>3, <1>4, <1>5 DEF DeviceEvent

LEMMA ReceiveUse ==
    ASSUME Inv, UseHolds, Receive \/ Received
    PROVE  UseHolds'
  <1>0. Rx \in Actor \ {Exit, Net}
    BY ActorsDiffer DEF Rx, Exit
  <1>1. ASSUME NEW i \in Ins, vboxNetFltLinuxPacketHandler(i) PROVE UseHolds'
    <2>1. pc[Rx] = "idle" /\ SameMem /\ UNCHANGED <<chain, cFactoryRefs, factories, module, modRefs>>
      BY <1>1 DEF vboxNetFltLinuxPacketHandler, SameMem, globals, supdrv, kernel
    <2>2. Moves(Rx) /\ pc'[Rx] = "recv"
      BY <1>0, <1>1 DEF vboxNetFltLinuxPacketHandler, Inv, Types, CtlTypes, Moves
    <2>. QED BY <1>0, <2>1, <2>2, OtherKeeps DEF DestroyAt
  <1>2. ASSUME NEW i \in Ins, vboxNetFltLinuxForwardSegment(i) PROVE UseHolds'
    <2>1. pc[Rx] = "recv" /\ SameMem /\ Goto(Rx, "idle") /\ UNCHANGED <<chain, cFactoryRefs, factories, module, modRefs>>
      BY <1>2 DEF vboxNetFltLinuxForwardSegment, At, SameMem, globals, supdrv, kernel
    <2>2. Moves(Rx) /\ pc'[Rx] = "idle"
      BY <1>0, <2>1, GotoMoves
    <2>. QED BY <1>0, <2>1, <2>2, OtherKeeps DEF DestroyAt
  <1>. QED BY <1>1, <1>2 DEF Receive, Received

(* A sender, except for dropping its reference. *)
LEMMA SenderUse ==
    ASSUME Inv, UseHolds, NEW v \in Vm,
           \/ vboxNetFltPortXmit(v)
           \/ \E i \in Ins : \/ XmitRetain(v, i) \/ vboxNetFltPortOsXmit(v, i)
                             \/ vboxNetFltMaybeRediscovered(v, i)
    PROVE  UseHolds'
  <1>0. v \in Actor \ {Exit, Net}
    BY ActorsDiffer
  <1>1. UNCHANGED <<chain, cFactoryRefs, factories, module, modRefs>>
    BY DEF vboxNetFltPortXmit, XmitRetain, vboxNetFltPortOsXmit, vboxNetFltMaybeRediscovered, globals, supdrv, kernel
  <1>2. CASE vboxNetFltPortXmit(v)
    <2>1. SameMem /\ pc[v] = "idle"
      BY <1>2 DEF vboxNetFltPortXmit, SameMem
    <2>2. Moves(v) /\ pc'[v] = "retain"
      BY <1>0, <1>2 DEF vboxNetFltPortXmit, Inv, Types, CtlTypes, Moves
    <2>. QED BY <1>0, <1>1, <2>1, <2>2, OtherKeeps DEF DestroyAt
  <1>3. ASSUME NEW i \in Ins,
               XmitRetain(v, i) \/ vboxNetFltPortOsXmit(v, i) \/ vboxNetFltMaybeRediscovered(v, i)
        PROVE  UseHolds'
    <2>1. SameMem
      <3>1. CASE UNCHANGED ins
        BY <3>1 DEF SameMem
      <3>2. CASE XmitRetain(v, i) /\ ~UNCHANGED ins
        <4>1. PICK x, y : ins' = [ins EXCEPT ![i].cRefs = x, ![i].cBusy = y]
          BY <3>2 DEF XmitRetain, vboxNetFltTryRetainBusyActive, Retained
        <4>. QED BY <4>1, CountMem
      <3>3. CASE ~XmitRetain(v, i) /\ ~UNCHANGED ins
        <4>1. PICK x : ins' = [ins EXCEPT ![i].fRediscoveryPending = x]
          BY <1>3, <3>3 DEF vboxNetFltPortOsXmit, vboxNetFltMaybeRediscovered
        <4>. QED BY <4>1, CountMem
      <3>. QED BY <3>1, <3>2, <3>3
    <2>2. PICK l \in {"xmit", "idle", "busy", "rediscover"} : Goto(v, l) /\ pc[v] # "unlink"
      BY <1>3 DEF XmitRetain, vboxNetFltPortOsXmit, vboxNetFltMaybeRediscovered, At
    <2>3. Moves(v) /\ pc'[v] = l
      BY <1>0, <2>2, GotoMoves
    <2>. QED BY <1>0, <1>1, <2>1, <2>2, <2>3, OtherKeeps DEF DestroyAt
  <1>. QED BY <1>2, <1>3

(* Attaching to the interface, by either thread that owns rtnl. *)
LEMMA AttachUse ==
    ASSUME Inv, UseHolds, NEW a \in {Net, Kernel}, AttachStep(a)
    PROVE  UseHolds'
  <1>0. a \in Actor \ {Exit}
    BY ActorsDiffer DEF Kernel, Exit, Net
  <1>1. PICK i \in Ins : \/ vboxNetFltLinuxAttachToInterface(a, i) \/ dev_add_pack(a, i)
                         \/ SetIndicators(a, i) \/ Report(a, i)
    BY DEF AttachStep
  <1>2. UNCHANGED <<chain, cFactoryRefs, factories, module, modRefs>> /\ pc[a] \in AttachAt
        /\ it[a] = i /\ ins[i].mem = "used"
    BY <1>1 DEF vboxNetFltLinuxAttachToInterface, dev_add_pack, SetIndicators, Report, At, globals, supdrv, kernel,
                AttachAt
  <1>3. PICK l : l \in {"add_pack", "attached", "report", "busy", ret[a]} /\ Goto(a, l)
    BY <1>1 DEF vboxNetFltLinuxAttachToInterface, dev_add_pack, SetIndicators, Report
  <1>4. ret[a] \in ReturnTo
    BY <1>0 DEF Inv, Types, CtlTypes
  <1>5. SameMem
    <2>1. CASE UNCHANGED ins
      BY <2>1 DEF SameMem
    <2>2. CASE Report(a, i) /\ ~UNCHANGED ins
      <3>1. PICK x, y : ins' = [ins EXCEPT ![i].cRefs = x, ![i].cBusy = y]
        BY <2>2 DEF Report, vboxNetFltTryRetainBusyNotDisconnected, Retained
      <3>. QED BY <3>1, CountMem
    <2>3. CASE ~Report(a, i)
      BY <2>3, <1>1, FieldsUntouched, CoreMem
         DEF vboxNetFltLinuxAttachToInterface, dev_add_pack, SetIndicators
    <2>. QED BY <2>1, <2>2, <2>3
  <1>6. /\ Moves(a) /\ pc'[a] = l /\ NoEntry(a)
        /\ pc[a] \notin {"unlink", "connect"} /\ l \notin {"unlink", "connect"}
    BY <1>0, <1>2, <1>3, <1>4, GotoMoves DEF NoEntry, DestroyAt, ReturnTo, AttachAt
  <1>7. CASE a = Net
    <2>1. ret[Net] = "registered"
      BY <1>2, <1>7 DEF Inv, NetHolds
    <2>2. ret'[Net] = "registered"
      BY <2>1, <1>0, <1>3, <1>7, GotoMoves
    <2>3. HasFactory /\ HasFactory' /\ NetAlive' /\ pc[Net] # "insert"
      BY <2>1, <2>2, <1>2, <1>3, <1>6, <1>7
         DEF HasFactory, Creating, CreateAt, AttachAt, DestroyAt, NetAlive, NetAt
    <2>. QED BY <1>0, <1>2, <1>5, <1>6, <1>7, <2>3, FrameKeeps
  <1>. QED BY <1>0, <1>2, <1>5, <1>6, <1>7, FrameKeeps

(* Destroying an instance, up to the removal of its notifier. *)
LEMMA DestroyerUse ==
    ASSUME Inv, UseHolds, NEW a \in {Net, Kernel}, NEW i \in Ins,
           vboxNetFltDestroyInstance(a, i) \/ vboxNetFltOsDeleteInstance(a, i)
    PROVE  UseHolds'
  <1>0. a \in Actor \ {Exit}
    BY ActorsDiffer DEF Kernel, Exit, Net
  <1>1. /\ UNCHANGED <<chain, cFactoryRefs, factories, module, modRefs>>
        /\ pc[a] \in {"destroy", "del_pack"} /\ it[a] = i /\ ins[i].mem = "used"
    BY DEF vboxNetFltDestroyInstance, vboxNetFltOsDeleteInstance, At, globals, supdrv, kernel
  <1>2. PICK l : l \in {"del_pack", "del_notifier"} /\ Goto(a, l)
    BY DEF vboxNetFltDestroyInstance, vboxNetFltOsDeleteInstance
  <1>3. SameMem
    <2>1. ins[i].enmState # "Initializing"
      BY <1>0, <1>1 DEF Inv, DestroyerHolds, DestroyAt
    <2>2. CASE vboxNetFltDestroyInstance(a, i)
      BY <2>1, <2>2, CountMem DEF vboxNetFltDestroyInstance
    <2>3. CASE vboxNetFltOsDeleteInstance(a, i)
      BY <2>3, FieldsUntouched, CoreMem DEF vboxNetFltOsDeleteInstance
    <2>. QED BY <2>2, <2>3
  <1>4. Moves(a) /\ pc'[a] = l /\ it'[a] = it[a] /\ ret'[a] = ret[a]
    BY <1>0, <1>2, GotoMoves
  <1>5. NoEntry(a)
    BY <1>1, <1>4 DEF NoEntry, DestroyAt
  <1>6. CASE a = Net
    <2>1. ~HasFactory /\ ~HasFactory' /\ pc[Net] # "insert"
      BY <1>1, <1>2, <1>4, <1>6 DEF HasFactory, Creating, CreateAt, AttachAt
    <2>2. NetAlive'
      BY <1>1, <1>2, <1>3, <1>4, <1>6 DEF UseHolds, NetAlive, NetAt, DestroyAt, SameMem
    <2>. QED BY <1>0, <1>1, <1>2, <1>3, <1>4, <1>5, <1>6, <2>1, <2>2, FrameKeeps
  <1>. QED BY <1>0, <1>1, <1>2, <1>3, <1>4, <1>5, <1>6, FrameKeeps

(* The module's reference goes with the notifier. *)
LEMMA NotifierUse ==
    ASSUME Inv, UseHolds, NEW a \in {Net, Kernel}, NEW i \in Ins, DeleteNotifier(a, i)
    PROVE  UseHolds'
  <1>0. a \in Actor \ {Exit} /\ Net \in Actor
    BY ActorsDiffer DEF Kernel, Exit, Net
  <1>1. /\ UNCHANGED <<chain, cFactoryRefs, factories, module>> /\ modRefs' = modRefs - 1
        /\ pc[a] = "del_notifier" /\ it[a] = i /\ ins[i].mem = "used" /\ Goto(a, "unlink")
    BY DEF DeleteNotifier, At, globals, supdrv
  <1>2. SameMem
    BY FieldsUntouched, CoreMem DEF DeleteNotifier
  <1>3. Moves(a) /\ pc'[a] = "unlink" /\ it'[a] = it[a] /\ ret'[a] = ret[a]
    BY <1>0, <1>1, GotoMoves
  <1>4. NoEntry(a)
    BY <1>1, <1>3 DEF NoEntry, DestroyAt
  <1>5. Bound(i)
    <2>1. ins[i].enmState # "Initializing"
      BY <1>0, <1>1 DEF Inv, DestroyerHolds, DestroyAt
    <2>2. ASSUME NEW b \in Actor, it[b] = i, pc[b] = "unlink" PROVE FALSE
      <3>1. a = b
        BY <1>0, <1>1, <2>2 DEF UseHolds, DestroysAlone, Destroys, DestroyAt
      <3>. QED BY <1>1, <2>2, <3>1
    <2>. QED BY <1>1, <2>1, <2>2 DEF Bound
  <1>6. BoundSet' = BoundSet \ {i} /\ i \in BoundSet
    <2>1. ~Bound(i)'
      BY <1>0, <1>1, <1>3 DEF Bound
    <2>2. \A j \in Ins \ {i} : Bound(j)' <=> Bound(j)
      BY <1>0, <1>1, <1>2, <1>3 DEF Bound, SameMem, Moves
    <2>. QED BY <1>5, <2>1, <2>2 DEF BoundSet
  <1>7. IsFiniteSet(BoundSet') /\ Cardinality(BoundSet') = Cardinality(BoundSet) - 1
    BY <1>6, FS_RemoveElement DEF UseHolds, LoadedHolds
  <1>8. Cardinality(BoundSet) \in Nat /\ One(pc[Net] = "connect") \in {0, 1}
    BY FS_CardinalityType DEF UseHolds, LoadedHolds, One
  <1>9. One(pc[Net] = "connect")' = One(pc[Net] = "connect")
    BY <1>0, <1>1, <1>3 DEF One, Moves
  <1>10. modRefs' = Cardinality(BoundSet') + One(pc[Net] = "connect")'
    BY <1>1, <1>7, <1>8, <1>9 DEF UseHolds, LoadedHolds
  <1>11. module = "live"
    <2>1. Cardinality(BoundSet) # 0
      BY <1>6, FS_EmptySet DEF UseHolds, LoadedHolds
    <2>2. modRefs # 0
      BY <1>8, <2>1 DEF UseHolds, LoadedHolds
    <2>. QED BY <2>2 DEF UseHolds, LoadedHolds
  <1>12. LoadedHolds'
    BY <1>1, <1>7, <1>10, <1>11 DEF LoadedHolds
  <1>13. CASE a = Net
    <2>1. ~HasFactory /\ ~HasFactory' /\ pc[Net] # "insert"
      BY <1>1, <1>3, <1>13 DEF HasFactory, Creating, CreateAt, AttachAt
    <2>2. NetAlive'
      BY <1>1, <1>2, <1>3, <1>13 DEF UseHolds, NetAlive, NetAt, DestroyAt, SameMem
    <2>. QED BY <1>0, <1>1, <1>2, <1>3, <1>4, <1>12, <1>13, <2>1, <2>2, RestKeeps DEF SameMem
  <1>. QED BY <1>0, <1>1, <1>2, <1>3, <1>4, <1>12, <1>13, RestKeeps DEF SameMem

LEMMA BusyUse ==
    ASSUME Inv, UseHolds, NEW a \in Actor \ {Exit}, NEW i \in Ins, ReleaseBusy(a, i)
    PROVE  UseHolds'
  <1>1. /\ UNCHANGED <<chain, cFactoryRefs, factories, module, modRefs>> /\ pc[a] = "busy" /\ Goto(a, "release")
        /\ it[a] = i /\ i \in Ins /\ ins[i].mem = "used"
    BY DEF ReleaseBusy, At, globals, supdrv, kernel
  <1>2. SameMem
    BY CountMem DEF ReleaseBusy
  <1>3. Moves(a) /\ pc'[a] = "release" /\ it'[a] = it[a] /\ ret'[a] = ret[a]
    BY <1>1, GotoMoves
  <1>4. NoEntry(a)
    BY <1>3 DEF NoEntry, DestroyAt
  <1>5. CASE a = Net
    <2>1. ret[Net] = "registered"
      BY <1>1, <1>5 DEF Inv, NetHolds
    <2>2. HasFactory /\ HasFactory' /\ pc[Net] # "insert"
      BY <2>1, <1>1, <1>3, <1>5 DEF HasFactory, Creating
    <2>3. NetAlive'
      BY <1>1, <1>2, <1>3, <1>5 DEF UseHolds, NetAlive, NetAt, SameMem
    <2>. QED BY <1>1, <1>2, <1>3, <1>4, <1>5, <2>2, <2>3, FrameKeeps
  <1>. QED BY <1>1, <1>2, <1>3, <1>4, <1>5, FrameKeeps

(* Dropping a reference: who drops the last one is alone with the instance. *)
LEMMA ReleaseUse ==
    ASSUME Inv, Inv', UseHolds, NEW a \in Actor \ {Exit}, NEW i \in Ins, vboxNetFltRelease(a, i)
    PROVE  UseHolds'
  <1>1. /\ UNCHANGED <<chain, cFactoryRefs, factories, module, modRefs>> /\ pc[a] = "release"
        /\ it[a] = i /\ i \in Ins /\ ins[i].mem = "used"
    BY DEF vboxNetFltRelease, At, globals, supdrv, kernel
  <1>2. PICK l : /\ Goto(a, l) /\ l \in {"destroy", ret[a]}
                 /\ l # ret[a] => ins[i].cRefs = 1
    BY DEF vboxNetFltRelease
  <1>3. SameMem
    BY CountMem DEF vboxNetFltRelease
  <1>4. ret[a] \in ReturnTo
    BY DEF Inv, Types, CtlTypes
  <1>5. /\ Moves(a) /\ pc'[a] = l
        /\ l # "idle" => it'[a] = it[a] /\ ret'[a] = ret[a]
        /\ l = "idle" => ret'[a] = "idle"
    BY <1>2, <1>4, GotoMoves DEF ReturnTo
  <1>6. CASE l = ret[a]
    <2>1. NoEntry(a) /\ pc[a] \notin {"unlink", "connect"} /\ pc'[a] \notin {"unlink", "connect"}
      BY <1>1, <1>4, <1>5, <1>6 DEF NoEntry, ReturnTo, DestroyAt
    <2>2. CASE a = Net
      <3>1. pc[Net] # "insert" /\ pc'[Net] = ret[Net] /\ ret[Net] \in {"idle", "registered", "is_idle"}
        BY <1>1, <1>5, <1>6, <2>2 DEF UseHolds, NetAlive
      <3>2. HasFactory' <=> HasFactory
        BY <1>1, <3>1, <2>2 DEF HasFactory, Creating, CreateAt, AttachAt
      <3>3. NetAlive'
        BY <1>5, <1>6, <3>1, <2>2 DEF NetAlive, NetAt, CreateAt, DestroyAt
      <3>. QED BY <1>1, <1>3, <1>5, <2>1, <2>2, <3>1, <3>2, <3>3, FrameKeeps
    <2>. QED BY <1>1, <1>3, <1>5, <2>1, <2>2, FrameKeeps
  <1>7. CASE l # ret[a]
    <2>1. l = "destroy" /\ ins[i].cRefs = 1 /\ pc'[a] = "destroy" /\ it'[a] = i /\ ret'[a] = ret[a]
      BY <1>1, <1>2, <1>5, <1>7
    <2>2. \A b \in Actor : ~Destroys(b, i)
      <3>1. \A b \in Actor : Destroys(b, i) => ins[i].cRefs = 0
        BY <1>1 DEF Inv, DestroyerHolds, Destroys
      <3>. QED BY <2>1, <3>1
    <2>3. DestroysAlone'
      <3> SUFFICES ASSUME NEW j \in Ins, NEW b \in Actor, NEW c \in Actor,
                          ins'[j].mem = "used", Destroys(b, j)', Destroys(c, j)'
                   PROVE  b = c
        BY DEF DestroysAlone
      <3>1. CASE j = i
        BY <2>2, <3>1, <1>5 DEF Destroys, Moves
      <3>2. CASE j # i
        <4>1. b # a /\ c # a
          BY <2>1, <3>2 DEF Destroys
        <4>2. Destroys(b, j) /\ Destroys(c, j) /\ ins[j].mem = "used"
          BY <4>1, <1>3, <1>5 DEF Destroys, Moves, SameMem
        <4>. QED BY <4>2 DEF UseHolds, DestroysAlone
      <3>. QED BY <3>1, <3>2
    <2>4. Net \in Actor /\ Exit \in Actor /\ a # Exit /\ Net # Exit
      BY ActorsDiffer
    <2>5. HasFactory' <=> HasFactory
      <3>1. CASE a = Net
        <4>1. ret[Net] # "registered"
          BY <2>1, <3>1 DEF Inv, NetHolds, DestroyAt
        <4>. QED BY <1>1, <2>1, <3>1, <4>1 DEF HasFactory, Creating, CreateAt, AttachAt
      <3>2. CASE a # Net
        BY <1>5, <2>4, <3>2 DEF HasFactory, Creating, Moves
      <3>. QED BY <3>1, <3>2
    <2>6. cFactoryRefs' = One(HasFactory)'
      BY <1>1, <2>5 DEF UseHolds, One
    <2>7. ExitHolds'
      BY <1>1, <1>5, <2>4 DEF UseHolds, ExitHolds, Moves
    <2>8. NetAlive'
      <3>1. CASE a = Net
        BY <1>1, <1>3, <2>1, <3>1 DEF UseHolds, NetAlive, NetAt, DestroyAt, SameMem
      <3>2. CASE a # Net
        BY <1>3, <1>5, <2>4, <3>2 DEF UseHolds, NetAlive, SameMem, Moves
      <3>. QED BY <3>1, <3>2
    <2>9. ASSUME NEW j \in Ins PROVE Listed(j)'
      <3>1. pc[Net] = "insert" => a # Net
        BY <1>1
      <3>. QED BY <1>1, <1>3, <1>5, <2>4, <3>1 DEF UseHolds, Listed, SameMem, Moves
    <2>10. LoadedHolds'
      <3>1. \A j \in Ins : Bound(j)' <=> Bound(j)
        BY <1>1, <1>3, <1>5, <2>1, BoundStays
      <3>2. pc'[Net] = "connect" <=> pc[Net] = "connect"
        BY <1>1, <1>5, <2>1, <2>4 DEF Moves
      <3>. QED BY <1>1, <3>1, <3>2, LoadedStays DEF UseHolds
    <2>. QED BY <2>3, <2>6, <2>7, <2>8, <2>9, <2>10 DEF UseHolds
  <1>. QED BY <1>6, <1>7

(* Who frees an instance leaves nobody behind in it. *)
LEMMA UnlinkUse ==
    ASSUME Inv, Inv', UseHolds, NEW a \in {Net, Kernel}, NEW i \in Ins, Unlink(a, i)
    PROVE  UseHolds'
  <1>0. a \in Actor /\ Net \in Actor /\ Exit \in Actor /\ a # Exit /\ Net # Exit
    BY ActorsDiffer DEF Kernel, Exit, Net
  <1>1. /\ UNCHANGED <<cFactoryRefs, factories, module, modRefs>> /\ pc[a] = "unlink" /\ Goto(a, ret[a])
        /\ it[a] = i /\ ins[i].mem = "used" /\ chain' = chain \ {i}
    BY DEF Unlink, vboxNetFltUnlinkLocked, At, supdrv, kernel
  <1>2. ins'[i].mem = "free" /\ \A j \in Ins \ {i} : ins'[j] = ins[j]
    BY DEF Unlink, Inv, Types, InsType
  <1>3. ret[a] \in ReturnTo
    BY <1>0 DEF Inv, Types, CtlTypes
  <1>4. Moves(a) /\ pc'[a] = ret[a] /\ (ret[a] = "idle" => ret'[a] = "idle") /\ (ret[a] # "idle" => ret'[a] = ret[a])
    BY <1>0, <1>1, GotoMoves
  <1>5. a = Net => ret[Net] = "idle"
    BY <1>1 DEF Inv, NetHolds, UseHolds, NetAlive, DestroyAt
  <1>6. HasFactory' <=> HasFactory
    <2>1. CASE a = Net
      BY <1>1, <1>4, <1>5, <2>1 DEF HasFactory, Creating, CreateAt, AttachAt
    <2>2. CASE a # Net
      BY <1>0, <1>4, <2>2 DEF HasFactory, Creating, Moves
    <2>. QED BY <2>1, <2>2
  <1>7. cFactoryRefs' = One(HasFactory)'
    BY <1>1, <1>6 DEF UseHolds, One
  <1>8. ExitHolds'
    BY <1>0, <1>1, <1>4 DEF UseHolds, ExitHolds, Moves
  <1>9. DestroysAlone'
    <2>1. NoEntry(a)
      BY <1>3, <1>4 DEF NoEntry, ReturnTo, DestroyAt
    <2>2. \A j \in Ins : ins'[j].mem = "used" => ins[j].mem = "used"
      BY <1>1, <1>2
    <2>. QED BY <1>0, <1>4, <2>1, <2>2, AloneStays DEF UseHolds
  <1>10. NetAlive'
    <2>1. CASE a = Net
      BY <1>4, <1>5, <2>1 DEF NetAlive, NetAt, CreateAt, DestroyAt
    <2>2. CASE a # Net
      <3>1. UNCHANGED <<pc[Net], it[Net], ret[Net]>>
        BY <1>0, <1>4, <2>2 DEF Moves
      <3>2. ASSUME it[Net] = i, pc[Net] = "release" PROVE FALSE
        <4>1. ins[i].cRefs = 0 /\ ins[i].enmState = "Disconnecting"
          BY <1>0, <1>1 DEF Inv, DestroyerHolds, DestroyAt
        <4>2. Balanced(i)
          BY <1>1 DEF Inv, InsHolds
        <4>3. IsFiniteSet(Holders(i, CountedAt)) /\ Cardinality(Holders(i, CountedAt)) = 0
          <5>1. Own(i) = 0
            BY <4>1 DEF Own
          <5>2. Cardinality(Holders(i, CountedAt)) \in Nat
            BY <4>2, FS_CardinalityType DEF Balanced
          <5>. QED BY <4>1, <4>2, <5>1, <5>2 DEF Balanced
        <4>4. Holders(i, CountedAt) = {}
          BY <4>3, FS_EmptySet
        <4>. QED BY <1>0, <3>2, <4>4 DEF Holders, CountedAt
      <3>3. ~(it[Net] = i /\ pc[Net] \in DestroyAt)
        BY <1>0, <1>1, <2>2 DEF UseHolds, DestroysAlone, Destroys, DestroyAt
      <3>. QED BY <1>2, <3>1, <3>2, <3>3 DEF UseHolds, NetAlive
    <2>. QED BY <2>1, <2>2
  <1>11. ASSUME NEW j \in Ins PROVE Listed(j)'
    <2>1. CASE j = i
      BY <1>2, <2>1 DEF Listed
    <2>2. CASE j # i
      <3>1. ins'[j] = ins[j] /\ Listed(j) /\ (j \in chain => j \in chain')
        BY <1>1, <1>2, <2>2 DEF UseHolds
      <3>2. pc[Net] = "insert" => UNCHANGED <<pc[Net], it[Net]>>
        BY <1>0, <1>1, <1>4 DEF Moves
      <3>. QED BY <3>1, <3>2 DEF Listed
    <2>. QED BY <2>1, <2>2
  <1>12. LoadedHolds'
    <2>1. \A j \in Ins : Bound(j)' <=> Bound(j)
      BY <1>0, <1>1, <1>2, <1>3, <1>4 DEF Bound, Moves, ReturnTo
    <2>2. pc'[Net] = "connect" <=> pc[Net] = "connect"
      BY <1>0, <1>1, <1>3, <1>4 DEF Moves, ReturnTo
    <2>. QED BY <1>1, <2>1, <2>2, LoadedStays DEF UseHolds
  <1>. QED BY <1>7, <1>8, <1>9, <1>10, <1>11, <1>12 DEF UseHolds

(* The internal network gets the factory while it is registered. *)
LEMMA OpenUse ==
    ASSUME Inv, UseHolds, Open
    PROVE  UseHolds'
  <1>0. Net \in Actor /\ Exit \in Actor /\ Net # Exit
    BY ActorsDiffer
  <1>1. /\ UNCHANGED <<ins, chain, factories, module, modRefs>> /\ pc[Net] = "idle" /\ factories
        /\ cFactoryRefs' = cFactoryRefs + 1 /\ Goto(Net, "create")
    BY DEF Open, SUPR0ComponentQueryFactory, supdrv, kernel
  <1>2. Moves(Net) /\ pc'[Net] = "create" /\ it'[Net] = it[Net] /\ ret'[Net] = ret[Net]
    BY <1>0, <1>1, GotoMoves
  <1>3. ~HasFactory /\ HasFactory'
    BY <1>1, <1>2 DEF HasFactory, Creating, CreateAt, AttachAt
  <1>4. cFactoryRefs' = One(HasFactory)'
    BY <1>1, <1>3 DEF UseHolds, One
  <1>5. ExitHolds'
    BY <1>0, <1>1, <1>2 DEF UseHolds, ExitHolds, Moves
  <1>6. DestroysAlone'
    <2>1. NoEntry(Net)
      BY <1>2 DEF NoEntry, DestroyAt
    <2>. QED BY <1>0, <1>1, <1>2, <2>1, AloneStays DEF UseHolds
  <1>7. NetAlive'
    BY <1>2 DEF UseHolds, NetAlive, NetAt, DestroyAt
  <1>8. ASSUME NEW j \in Ins PROVE Listed(j)'
    BY <1>1 DEF UseHolds, Listed
  <1>9. LoadedHolds'
    BY <1>0, <1>1, <1>2, BoundStays, LoadedStays DEF UseHolds, SameMem
  <1>. QED BY <1>4, <1>5, <1>6, <1>7, <1>8, <1>9 DEF UseHolds

LEMMA FactoryReleaseUse ==
    ASSUME Inv, UseHolds, vboxNetFltFactoryRelease
    PROVE  UseHolds'
  <1>0. Net \in Actor /\ Exit \in Actor /\ Net # Exit
    BY ActorsDiffer
  <1>1. /\ UNCHANGED <<ins, chain, factories, module, modRefs>> /\ pc[Net] = "fac_release"
        /\ cFactoryRefs' = cFactoryRefs - 1 /\ Goto(Net, "idle")
    BY DEF vboxNetFltFactoryRelease, supdrv, kernel
  <1>2. Moves(Net) /\ pc'[Net] = "idle" /\ ret'[Net] = "idle"
    BY <1>0, <1>1, GotoMoves
  <1>3. HasFactory /\ ~HasFactory'
    BY <1>1, <1>2 DEF HasFactory, Creating, CreateAt, AttachAt
  <1>4. cFactoryRefs = 1 /\ cFactoryRefs' = One(HasFactory)'
    BY <1>1, <1>3 DEF UseHolds, One
  <1>5. ExitHolds'
    BY <1>0, <1>1, <1>2, <1>4 DEF UseHolds, ExitHolds, Moves
  <1>6. DestroysAlone'
    <2>1. NoEntry(Net)
      BY <1>2 DEF NoEntry, DestroyAt
    <2>. QED BY <1>0, <1>1, <1>2, <2>1, AloneStays DEF UseHolds
  <1>7. NetAlive'
    BY <1>2 DEF NetAlive, NetAt, DestroyAt
  <1>8. ASSUME NEW j \in Ins PROVE Listed(j)'
    BY <1>1 DEF UseHolds, Listed
  <1>9. LoadedHolds'
    BY <1>0, <1>1, <1>2, BoundStays, LoadedStays DEF UseHolds, SameMem
  <1>. QED BY <1>4, <1>5, <1>6, <1>7, <1>8, <1>9 DEF UseHolds

(* A step of the creation other than at the list.  *)
LEMMA CreatorFrame ==
    ASSUME UseHolds, Moves(Net), SameMem, UNCHANGED <<chain, cFactoryRefs, factories, module, modRefs>>,
           HasFactory, pc[Net] # "insert",
           pc'[Net] = "connect" <=> pc[Net] = "connect",
           pc'[Net] \in {"create", "fac_release"} \cup CreateAt,
           ret'[Net] \in {"idle", "registered", "is_idle"}
    PROVE  UseHolds'
  <1>1. Net \in Actor \ {Exit}
    BY ActorsDiffer
  <1>2. HasFactory'
    BY DEF HasFactory, Creating
  <1>3. NoEntry(Net)
    BY DEF NoEntry, DestroyAt, CreateAt, AttachAt
  <1>4. NetAlive'
    BY DEF NetAlive, NetAt, CreateAt, AttachAt, DestroyAt
  <1>5. pc[Net] # "unlink" /\ pc'[Net] # "unlink"
    BY DEF HasFactory, Creating, CreateAt, AttachAt
  <1>. QED BY <1>1, <1>2, <1>3, <1>4, <1>5, FrameKeeps

LEMMA InitInstanceUse ==
    ASSUME Inv, UseHolds, NEW i \in Ins,
           \/ vboxNetFltOsInitInstance(i) \/ NotifierRegistered(i) \/ CheckRegistered(i)
           \/ TakeBackNotifier(i) \/ (try_module_get(i) /\ UNCHANGED modRefs)
    PROVE  UseHolds'
  <1>0. Net \in Actor /\ ret[Net] \in {"idle", "registered", "is_idle"}
    BY ActorsDiffer DEF UseHolds, NetAlive
  <1>1. /\ UNCHANGED <<chain, cFactoryRefs, factories, module, modRefs>>
        /\ pc[Net] \in {"init", "registered", "check", "take_back", "get_module"}
    BY DEF vboxNetFltOsInitInstance, NotifierRegistered, CheckRegistered, TakeBackNotifier, try_module_get,
           At, globals, supdrv, kernel
  <1>2. SameMem
    <2>1. CASE UNCHANGED ins
      BY <2>1 DEF SameMem
    <2>2. CASE ~UNCHANGED ins
      BY <2>2, FieldsUntouched, CoreMem
         DEF vboxNetFltOsInitInstance, NotifierRegistered, CheckRegistered, TakeBackNotifier, try_module_get
    <2>. QED BY <2>1, <2>2
  <1>3. HasFactory /\ pc[Net] # "insert"
    BY <1>1 DEF HasFactory, Creating, CreateAt, AttachAt
  <1>4. CASE vboxNetFltOsInitInstance(i) /\ ~Goto(Net, "bail")
    <2>1. Moves(Net) /\ pc'[Net] \in {"attach", "registered"} /\ ret'[Net] = "registered"
      BY <1>0, <1>4 DEF vboxNetFltOsInitInstance, Inv, Types, CtlTypes, Moves
    <2>. QED BY <1>1, <1>2, <1>3, <2>1, CreatorFrame DEF CreateAt, AttachAt
  <1>5. CASE ~vboxNetFltOsInitInstance(i) \/ Goto(Net, "bail")
    <2>1. PICK l \in {"check", "take_back", "get_module", "bail"} : Goto(Net, l)
      <3>1. CASE try_module_get(i) /\ UNCHANGED modRefs
        <4>1. modRefs + 1 # modRefs
          BY FS_CardinalityType DEF UseHolds, LoadedHolds, One
        <4>. QED BY <3>1, <4>1 DEF try_module_get
      <3>. QED BY <1>5, <3>1 DEF NotifierRegistered, CheckRegistered, TakeBackNotifier
    <2>2. Moves(Net) /\ pc'[Net] = l /\ ret'[Net] = ret[Net]
      BY <1>0, <2>1, GotoMoves
    <2>. QED BY <1>0, <1>1, <1>2, <1>3, <2>1, <2>2, CreatorFrame DEF CreateAt, AttachAt
  <1>. QED BY <1>4, <1>5

(* The module is there to be referenced, and the instance connected next   *)
(* takes that reference over.                                              *)
LEMMA ConnectUse ==
    ASSUME Inv, UseHolds, NEW i \in Ins,
           vboxNetFltConnectIt(i) \/ (try_module_get(i) /\ ~UNCHANGED modRefs)
    PROVE  UseHolds'
  <1>0. Net \in Actor \ {Exit} /\ ret[Net] \in {"idle", "registered", "is_idle"}
    BY ActorsDiffer DEF UseHolds, NetAlive
  <1>1. /\ UNCHANGED <<chain, cFactoryRefs, factories, module>>
        /\ pc[Net] \in {"get_module", "connect"} /\ it[Net] = i /\ ins[i].mem = "used"
    BY DEF vboxNetFltConnectIt, try_module_get, At, globals, supdrv, kernel
  <1>2. PICK l \in {"connect", "fac_release"} : Goto(Net, l)
    BY DEF vboxNetFltConnectIt, try_module_get
  <1>3. Moves(Net) /\ pc'[Net] = l /\ ret'[Net] = ret[Net]
    BY <1>0, <1>2, GotoMoves
  <1>4. HasFactory /\ HasFactory' /\ pc[Net] # "insert"
    BY <1>1, <1>2, <1>3 DEF HasFactory, Creating, CreateAt
  <1>5. NoEntry(Net) /\ NetAlive'
    BY <1>0, <1>2, <1>3 DEF NoEntry, NetAlive, NetAt, DestroyAt, CreateAt
  <1>6. Cardinality(BoundSet) \in Nat /\ LoadedHolds
    BY FS_CardinalityType DEF UseHolds, LoadedHolds
  <1>7. ins[i].enmState = "Initializing"
    BY <1>1 DEF Inv, NetHolds, NewIsBlank, Creating, CreateAt
  <1>8. CASE try_module_get(i) /\ ~UNCHANGED modRefs
    <2>1. /\ pc[Net] = "get_module" /\ l = "connect" /\ modRefs' = modRefs + 1 /\ UNCHANGED ins
          /\ module # "going" /\ module # "gone"
      <3>1. /\ pc[Net] = "get_module" /\ Goto(Net, "connect") /\ modRefs' = modRefs + 1
            /\ UNCHANGED ins /\ module # "going" /\ module # "gone"
        BY <1>8 DEF try_module_get, At
      <3>2. pc'[Net] = "connect"
        BY <1>0, <3>1, GotoMoves
      <3>. QED BY <1>3, <3>1, <3>2
    <2>2. BoundSet' = BoundSet
      BY <1>0, <1>1, <1>3, <2>1, BoundStays DEF BoundSet, SameMem
    <2>3. One(pc[Net] = "connect") = 0 /\ One(pc[Net] = "connect")' = 1
      BY <1>3, <2>1 DEF One
    <2>4. LoadedHolds'
      BY <1>1, <1>6, <2>1, <2>2, <2>3 DEF LoadedHolds
    <2>. QED BY <1>0, <1>1, <1>3, <1>4, <1>5, <2>1, <2>4, RestKeeps
  <1>9. CASE vboxNetFltConnectIt(i)
    <2>1. /\ pc[Net] = "connect" /\ l = "fac_release" /\ modRefs' = modRefs
      <3>1. pc[Net] = "connect" /\ Goto(Net, "fac_release") /\ modRefs' = modRefs
        BY <1>9 DEF vboxNetFltConnectIt, At, kernel
      <3>2. pc'[Net] = "fac_release"
        BY <1>0, <3>1, GotoMoves
      <3>. QED BY <1>3, <3>1, <3>2
    <2>2. /\ \A j \in Ins \ {i} : ins'[j] = ins[j]
          /\ ins'[i].mem = "used" /\ ins'[i].enmState = "Connected"
      BY <1>1, <1>9 DEF vboxNetFltConnectIt, Inv, Types, InsType
    <2>3. ~Bound(i)
      BY <1>7 DEF Bound
    <2>4. Bound(i)'
      <3>1. \A a \in Actor : ~(it[a] = i /\ pc[a] = "unlink")
        BY <1>1, <1>7 DEF Inv, DestroyerHolds, DestroyAt
      <3>2. \A a \in Actor : ~(it'[a] = i /\ pc'[a] = "unlink")
        BY <1>3, <2>1, <3>1 DEF Moves
      <3>. QED BY <2>2, <3>2 DEF Bound
    <2>5. \A j \in Ins \ {i} : Bound(j)' <=> Bound(j)
      BY <1>1, <1>3, <2>1, <2>2 DEF Bound, Moves
    <2>6. BoundSet' = BoundSet \cup {i} /\ i \notin BoundSet
      BY <2>3, <2>4, <2>5 DEF BoundSet
    <2>7. IsFiniteSet(BoundSet') /\ Cardinality(BoundSet') = Cardinality(BoundSet) + 1
      BY <1>6, <2>6, FS_AddElement DEF LoadedHolds
    <2>8. One(pc[Net] = "connect") = 1 /\ One(pc[Net] = "connect")' = 0
      BY <1>3, <2>1 DEF One
    <2>9. LoadedHolds'
      BY <1>1, <1>6, <2>1, <2>7, <2>8 DEF LoadedHolds
    <2>. QED BY <1>0, <1>1, <1>3, <1>4, <1>5, <2>2, <2>9, RestKeeps
  <1>. QED BY <1>8, <1>9

(* The search of the list and the memory for a new instance. *)
LEMMA CreateUse ==
    ASSUME Inv, UseHolds, vboxNetFltFactoryCreateAndConnect
    PROVE  UseHolds'
  <1>0. Net \in Actor /\ Exit \in Actor /\ Net # Exit /\ ret[Net] \in {"idle", "registered", "is_idle"}
    BY ActorsDiffer DEF UseHolds, NetAlive
  <1>1. UNCHANGED <<chain, cFactoryRefs, factories, module, modRefs>> /\ pc[Net] = "create"
    BY DEF vboxNetFltFactoryCreateAndConnect, globals, supdrv, kernel
  <1>2. HasFactory
    BY <1>1 DEF HasFactory
  <1>3. CASE Goto(Net, "fac_release") /\ UNCHANGED ins
    <2>1. Moves(Net) /\ pc'[Net] = "fac_release" /\ ret'[Net] = ret[Net] /\ SameMem
      BY <1>0, <1>3, GotoMoves DEF SameMem
    <2>. QED BY <1>0, <1>1, <1>2, <2>1, CreatorFrame
  <1>4. CASE ~(Goto(Net, "fac_release") /\ UNCHANGED ins)
    <2>1. PICK i \in Ins :
              /\ ins[i].mem = "free" /\ \A a \in Actor : it[a] # i
              /\ ins' = [ins EXCEPT ![i] = [Blank EXCEPT !.mem = "used", !.cRefs = 1, !.pSwitchPort = TRUE]]
              /\ pc' = [pc EXCEPT ![Net] = "insert"] /\ it' = [it EXCEPT ![Net] = i] /\ UNCHANGED ret
      BY <1>4 DEF vboxNetFltFactoryCreateAndConnect
    <2>2. Moves(Net) /\ pc'[Net] = "insert" /\ it'[Net] = i
      BY <1>0, <2>1 DEF Inv, Types, CtlTypes, Moves
    <2>3. \A j \in Ins \ {i} : ins'[j] = ins[j]
      BY <2>1 DEF Inv, Types
    <2>4. HasFactory'
      BY <2>2 DEF HasFactory, Creating, CreateAt
    <2>5. cFactoryRefs' = One(HasFactory)'
      BY <1>1, <1>2, <2>4 DEF UseHolds, One
    <2>6. ExitHolds'
      BY <1>0, <1>1, <2>2 DEF UseHolds, ExitHolds, Moves
    <2>7. DestroysAlone'
      <3>1. NoEntry(Net)
        BY <2>2 DEF NoEntry, DestroyAt
      <3>2. ASSUME NEW j \in Ins
            PROVE  \/ ins'[j].mem = "used" => ins[j].mem = "used"
                   \/ \A b \in Actor \ {Net} : it[b] # j
        BY <2>1, <2>3
      <3>. QED BY <1>0, <2>2, <3>1, <3>2, AloneStays DEF UseHolds
    <2>8. NetAlive'
      BY <1>0, <2>1, <2>2 DEF NetAlive, NetAt, CreateAt, DestroyAt
    <2>9. ASSUME NEW j \in Ins PROVE Listed(j)'
      BY <1>1, <2>2, <2>3 DEF UseHolds, Listed
    <2>10. LoadedHolds'
      <3>1. ins'[i].enmState = "Initializing" /\ ~Bound(i)
        BY <2>1 DEF Blank, Bound, Inv, Types
      <3>2. \A j \in Ins : Bound(j)' <=> Bound(j)
        BY <1>0, <1>1, <2>2, <2>3, <3>1 DEF Bound, Moves
      <3>. QED BY <1>1, <2>2, <3>2, LoadedStays DEF UseHolds
    <2>. QED BY <2>5, <2>6, <2>7, <2>8, <2>9, <2>10 DEF UseHolds
  <1>. QED BY <1>3, <1>4

(* A new instance gets into the list, or an instance is given up: the      *)
(* internal network has a reference to the factory all the while.          *)
LEMMA InsertUse ==
    ASSUME Inv, UseHolds, NEW i \in Ins, vboxNetFltNewInstance(i) \/ BailOut(i)
    PROVE  UseHolds'
  <1>0. Net \in Actor /\ Exit \in Actor /\ Net # Exit /\ ret[Net] \in {"idle", "registered", "is_idle"}
    BY ActorsDiffer DEF UseHolds, NetAlive
  <1>1. /\ UNCHANGED <<cFactoryRefs, factories, module, modRefs>> /\ pc[Net] \in {"insert", "bail"}
        /\ it[Net] = i /\ ins[i].mem = "used"
    BY DEF vboxNetFltNewInstance, BailOut, At, supdrv, kernel
  <1>2. PICK l \in {"init", "fac_release"} : Goto(Net, l)
    BY DEF vboxNetFltNewInstance, BailOut
  <1>3. Moves(Net) /\ pc'[Net] = l /\ ret'[Net] = ret[Net]
    BY <1>0, <1>2, GotoMoves
  <1>4. /\ \A j \in Ins \ {i} : ins'[j] = ins[j]
        /\ \A j \in Ins \ {i} : j \in chain => j \in chain'
        /\ ins'[i].mem = "free" \/ (ins' = ins /\ i \in chain')
    BY DEF vboxNetFltNewInstance, BailOut, vboxNetFltUnlinkLocked, Inv, Types, InsType
  <1>5. HasFactory /\ HasFactory'
    BY <1>1, <1>2, <1>3 DEF HasFactory, Creating, CreateAt
  <1>6. cFactoryRefs = 1 /\ cFactoryRefs' = One(HasFactory)'
    BY <1>1, <1>5 DEF UseHolds, One
  <1>7. ExitHolds'
    BY <1>0, <1>1, <1>3, <1>6 DEF UseHolds, ExitHolds, Moves
  <1>8. DestroysAlone'
    <2>1. NoEntry(Net)
      BY <1>2, <1>3 DEF NoEntry, DestroyAt
    <2>2. \A j \in Ins : ins'[j].mem = "used" => ins[j].mem = "used"
      BY <1>1, <1>4
    <2>. QED BY <1>0, <1>3, <2>1, <2>2, AloneStays DEF UseHolds
  <1>9. NetAlive'
    BY <1>0, <1>2, <1>3 DEF NetAlive, NetAt, CreateAt, DestroyAt
  <1>10. ASSUME NEW j \in Ins PROVE Listed(j)'
    BY <1>1, <1>4 DEF UseHolds, Listed
  <1>11. LoadedHolds'
    <2>1. ins[i].enmState = "Initializing"
      BY <1>1 DEF Inv, NetHolds, NewIsBlank, Creating, CreateAt
    <2>2. ~Bound(i) /\ ~Bound(i)'
      BY <1>4, <2>1 DEF Bound
    <2>3. \A j \in Ins : Bound(j)' <=> Bound(j)
      BY <1>0, <1>1, <1>2, <1>3, <1>4, <2>2 DEF Bound, Moves
    <2>. QED BY <1>1, <1>2, <1>3, <2>3, LoadedStays DEF UseHolds
  <1>. QED BY <1>6, <1>7, <1>8, <1>9, <1>10, <1>11 DEF UseHolds

(* Using the trunk and closing it. *)
LEMMA PortUse ==
    ASSUME Inv, UseHolds, Use \/ CloseStep \/ Timeout
    PROVE  UseHolds'
  <1>0. Net \in Actor \ {Exit}
    BY ActorsDiffer
  <1>1. UNCHANGED <<chain, cFactoryRefs, factories, module, modRefs>>
    BY DEF Use, CloseStep, Timeout, PortCall, vboxNetFltPortSetState, vboxNetFltPortWaitForIdle, CheckBusy,
           RTSemEventWait, WaitTimesOut, WaitAgain, vboxNetFltPortDisconnectAndRelease, globals, supdrv, kernel
  <1>2. plugged # NIL => plugged \in Ins /\ ins[plugged].mem = "used"
    BY DEF Inv, NetHolds, Types
  <1>3. ASSUME SameMem, Moves(Net), pc[Net] \in {"idle", "wait", "waiting", "asleep", "is_idle"},
               pc'[Net] \in {"idle", "wait", "waiting", "asleep", "release"},
               pc'[Net] = "release" => ret'[Net] \in {"idle", "is_idle"} /\ it'[Net] \in Ins
                                       /\ ins[it'[Net]].mem = "used",
               ret'[Net] \in {ret[Net], "idle", "is_idle"}
        PROVE  UseHolds'
    <2>1. ~HasFactory /\ ~HasFactory' /\ pc[Net] # "insert"
      BY <1>3 DEF HasFactory, Creating, CreateAt, AttachAt
    <2>2. NoEntry(Net)
      BY <1>3 DEF NoEntry, DestroyAt
    <2>3. NetAlive'
      BY <1>3 DEF UseHolds, NetAlive, NetAt, DestroyAt, SameMem
    <2>. QED BY <1>0, <1>1, <1>3, <2>1, <2>2, <2>3, FrameKeeps
  <1>4. CASE PortCall
    <2>1. SameMem /\ plugged # NIL
      BY <1>2, <1>4, CountMem DEF PortCall, vboxNetFltRetain, Connected
    <2>2. Moves(Net) /\ pc[Net] = "idle" /\ pc'[Net] = "release" /\ it'[Net] = plugged /\ ret'[Net] = "idle"
      BY <1>0, <1>4 DEF PortCall, Inv, Types, CtlTypes, Moves
    <2>. QED BY <1>2, <1>3, <2>1, <2>2
  <1>5. ASSUME NEW s, vboxNetFltPortSetState(s) PROVE UseHolds'
    <2>1. SameMem
      BY <1>2, <1>5, CountMem DEF vboxNetFltPortSetState, Connected
    <2>2. Moves(Net) /\ pc[Net] = "idle" /\ pc'[Net] \in {"idle", "wait"} /\ ret'[Net] = ret[Net]
      BY <1>0, <1>5 DEF vboxNetFltPortSetState, Inv, Types, CtlTypes, Moves
    <2>. QED BY <1>3, <2>1, <2>2
  <1>6. ASSUME NEW i \in Ins, vboxNetFltPortWaitForIdle(i) \/ RTSemEventWait(i) PROVE UseHolds'
    <2>1. SameMem
      BY <1>6, CountMem, FieldsUntouched, CoreMem
         DEF vboxNetFltPortWaitForIdle, vboxNetFltRetain, RTSemEventWait
    <2>2. pc[Net] \in {"wait", "asleep"} /\ Goto(Net, "waiting")
      BY <1>6 DEF vboxNetFltPortWaitForIdle, RTSemEventWait, At
    <2>3. Moves(Net) /\ pc'[Net] = "waiting" /\ ret'[Net] = ret[Net]
      BY <1>0, <2>2, GotoMoves
    <2>. QED BY <1>3, <2>1, <2>2, <2>3
  <1>7. ASSUME NEW i \in Ins, CheckBusy(i) PROVE UseHolds'
    <2>1. SameMem /\ pc[Net] = "waiting" /\ it[Net] = i /\ ins[i].mem = "used"
      BY <1>7 DEF CheckBusy, At, SameMem
    <2>2. Moves(Net) /\ pc'[Net] \in {"release", "asleep"} /\ it'[Net] = i /\ ret'[Net] = "is_idle"
      BY <1>0, <1>7, <2>1 DEF CheckBusy, Inv, Types, CtlTypes, Moves
    <2>. QED BY <1>3, <2>1, <2>2
  <1>8. ASSUME NEW i \in Ins, vboxNetFltPortDisconnectAndRelease(i) PROVE UseHolds'
    <2>0. pc[Net] = "is_idle" /\ it[Net] = i /\ ins[i].mem = "used"
      BY <1>8 DEF vboxNetFltPortDisconnectAndRelease, At
    <2>1. SameMem
      <3>1. ins[i].enmState # "Initializing"
        BY <2>0 DEF Inv, NetHolds, OldIsDown, Waits, FoundIdle
      <3>. QED BY <1>8, <3>1, CountMem DEF vboxNetFltPortDisconnectAndRelease
    <2>2. Moves(Net) /\ pc'[Net] = "release" /\ it'[Net] = i /\ ret'[Net] = "idle"
      BY <1>0, <1>8, <2>0 DEF vboxNetFltPortDisconnectAndRelease, Inv, Types, CtlTypes, Moves
    <2>. QED BY <1>3, <2>0, <2>1, <2>2
  <1>9. ASSUME NEW i \in Ins, WaitTimesOut(i) PROVE UseHolds'
    <2>1. SameMem /\ pc[Net] = "asleep" /\ it[Net] = i /\ ins[i].mem = "used"
      BY <1>9 DEF WaitTimesOut, At, SameMem
    <2>2. Moves(Net) /\ pc'[Net] = "release" /\ it'[Net] = i /\ ret'[Net] = "idle"
      BY <1>0, <1>9, <2>1 DEF WaitTimesOut, Inv, Types, CtlTypes, Moves
    <2>. QED BY <1>3, <2>1, <2>2
  <1>10. CASE WaitAgain
    <2>1. SameMem /\ pc[Net] = "idle"
      BY <1>10 DEF WaitAgain, SameMem
    <2>2. Moves(Net) /\ pc'[Net] = "wait" /\ ret'[Net] = ret[Net]
      BY <1>0, <1>10 DEF WaitAgain, Inv, Types, CtlTypes, Moves
    <2>. QED BY <1>3, <2>1, <2>2
  <1>. QED BY <1>4, <1>5, <1>6, <1>7, <1>8, <1>9, <1>10 DEF Use, CloseStep, Timeout

(* Unloading: once the factory is deregistered nobody gets a reference to  *)
(* it, and without one nobody gets an instance into the list.              *)
LEMMA ExitUse ==
    ASSUME Inv, UseHolds, VBoxNetFltLinuxUnload \/ ExitStep \/ VBoxNetFltLinuxInit
    PROVE  UseHolds'
  <1>0. Exit \in Actor /\ Net \in Actor /\ Net # Exit
    BY ActorsDiffer
  <1>1. UNCHANGED <<ins, chain, cFactoryRefs, modRefs, it, ret>>
    BY DEF VBoxNetFltLinuxUnload, ExitStep, VBoxNetFltLinuxInit, vboxNetFltTryDeleteIdc,
           SUPR0ComponentDeregisterFactory, Recheck, SUPR0ComponentRegisterFactory, SUPR0IdcClose, Gone,
           ExitTo, globals, kernel, ctl
  <1>2. /\ UNCHANGED pc \/ \E l \in {"try", "dereg", "term", "recheck", "close", "rereg", "gone", "idle"} :
              pc' = [pc EXCEPT ![Exit] = l]
        /\ pc[Exit] \in {"try", "dereg", "term", "recheck", "close", "rereg", "gone", "idle"}
    BY DEF VBoxNetFltLinuxUnload, ExitStep, VBoxNetFltLinuxInit, vboxNetFltTryDeleteIdc,
           SUPR0ComponentDeregisterFactory, Recheck, SUPR0ComponentRegisterFactory, SUPR0IdcClose, Gone,
           ExitTo, ctl
  <1>3. /\ Moves(Exit) /\ UNCHANGED pc[Net]
        /\ pc'[Exit] \in {"try", "dereg", "term", "recheck", "close", "rereg", "gone", "idle"}
    BY <1>0, <1>1, <1>2 DEF Inv, Types, CtlTypes, Moves
  <1>4. ExitHolds'
    <2>0. ExitHolds /\ pc = [a \in Actor |-> pc[a]]
      BY DEF UseHolds, Inv, Types, CtlTypes
    <2>1. CASE Recheck
      <3>1. /\ pc[Exit] = "recheck" /\ UNCHANGED <<factories, module>> /\ pc'[Exit] \in {"close", "rereg"}
            /\ pc'[Exit] = "close" => chain = {} /\ cFactoryRefs = 0
        BY <1>0, <2>0, <2>1 DEF Recheck, vboxNetFltCanUnload, ExitTo, supdrv, kernel
      <3>. QED BY <1>1, <2>0, <3>1 DEF ExitHolds
    <2>2. CASE SUPR0ComponentDeregisterFactory
      <3>1. ~factories' /\ pc[Exit] = "dereg" /\ pc'[Exit] = "recheck" /\ UNCHANGED module
        BY <1>0, <2>0, <2>2 DEF SUPR0ComponentDeregisterFactory, ExitTo, kernel
      <3>. QED BY <2>0, <3>1 DEF ExitHolds
    <2>3. CASE VBoxNetFltLinuxUnload \/ Gone
      <3>1. module' # "live" /\ pc'[Exit] \in {"try", "gone"}
        BY <1>0, <2>0, <2>3 DEF VBoxNetFltLinuxUnload, Gone, ExitTo
      <3>. QED BY <3>1 DEF ExitHolds
    <2>4. CASE VBoxNetFltLinuxInit
      <3>1. \/ pc'[Exit] = "idle"
            \/ UNCHANGED <<pc, module>> /\ pc[Exit] = "gone"
        BY <1>0, <2>0, <2>4 DEF VBoxNetFltLinuxInit, ExitTo, ctl
      <3>. QED BY <2>0, <3>1 DEF ExitHolds
    <2>5. CASE vboxNetFltTryDeleteIdc \/ SUPR0ComponentRegisterFactory \/ SUPR0IdcClose
      <3>1. pc[Exit] \in {"try", "rereg", "close"} /\ pc'[Exit] \in {"dereg", "term"} /\ UNCHANGED module
        BY <1>0, <2>0, <2>5
           DEF vboxNetFltTryDeleteIdc, SUPR0ComponentRegisterFactory, SUPR0IdcClose, ExitTo, kernel
      <3>. QED BY <2>0, <3>1 DEF ExitHolds
    <2>. QED BY <2>1, <2>2, <2>3, <2>4, <2>5 DEF ExitStep
  <1>5. HasFactory' <=> HasFactory
    BY <1>1, <1>3 DEF HasFactory, Creating
  <1>6. cFactoryRefs' = One(HasFactory)'
    BY <1>1, <1>5 DEF UseHolds, One
  <1>7. DestroysAlone'
    <2>1. NoEntry(Exit)
      BY <1>3 DEF NoEntry, DestroyAt
    <2>. QED BY <1>0, <1>1, <1>3, <2>1, AloneStays DEF UseHolds
  <1>8. NetAlive' /\ \A i \in Ins : Listed(i)'
    BY <1>1, <1>3 DEF UseHolds, NetAlive, Listed
  <1>9. LoadedHolds'
    <2>1. BoundSet' = BoundSet
      <3>1. SameMem
        BY <1>1 DEF SameMem
      <3>2. pc[Exit] # "unlink" /\ pc'[Exit] # "unlink"
        BY <1>2, <1>3
      <3>3. \A i \in Ins : Bound(i)' <=> Bound(i)
        BY <1>0, <1>3, <3>1, <3>2, BoundStays
      <3>. QED BY <3>3 DEF BoundSet
    <2>2. One(pc[Net] = "connect")' = One(pc[Net] = "connect")
      BY <1>3 DEF One
    <2>3. module' \in {"live", "going", "gone"} /\ (modRefs # 0 => module' = "live")
      <3>1. LoadedHolds /\ ExitHolds
        BY DEF UseHolds
      <3>2. CASE VBoxNetFltLinuxUnload
        BY <3>2 DEF VBoxNetFltLinuxUnload
      <3>3. CASE Gone
        BY <3>1, <3>3 DEF Gone, LoadedHolds, ExitHolds
      <3>4. CASE VBoxNetFltLinuxInit
        BY <3>1, <3>4 DEF VBoxNetFltLinuxInit, LoadedHolds
      <3>5. CASE ExitStep /\ ~Gone
        BY <3>1, <3>5
           DEF ExitStep, vboxNetFltTryDeleteIdc, SUPR0ComponentDeregisterFactory, Recheck,
               SUPR0ComponentRegisterFactory, SUPR0IdcClose, kernel, LoadedHolds
      <3>. QED BY <3>2, <3>3, <3>4, <3>5
    <2>. QED BY <1>1, <2>1, <2>2, <2>3 DEF UseHolds, LoadedHolds
  <1>. QED BY <1>4, <1>6, <1>7, <1>8, <1>9 DEF UseHolds

LEMMA InitUse == Init => UseHolds
  <1> SUFFICES ASSUME Init PROVE UseHolds
    OBVIOUS
  <1>1. pc[Net] = "idle" /\ pc[Exit] = "idle" /\ ret[Net] = "idle" /\ cFactoryRefs = 0
    BY ActorsDiffer DEF Init
  <1>2. \A a \in Actor : pc[a] = "idle"
    BY DEF Init
  <1>3. \A i \in Ins : ins[i].mem = "free"
    BY DEF Init, Blank
  <1>4. ~HasFactory
    BY <1>1 DEF HasFactory, Creating, CreateAt, AttachAt
  <1>5. LoadedHolds
    <2>1. BoundSet = {}
      BY <1>3 DEF BoundSet, Bound
    <2>2. modRefs = 0 /\ module = "live" /\ One(pc[Net] = "connect") = 0
      BY <1>1 DEF Init, One
    <2>. QED BY <2>1, <2>2, FS_EmptySet DEF LoadedHolds
  <1>. QED BY <1>1, <1>2, <1>3, <1>4, <1>5
         DEF UseHolds, One, ExitHolds, DestroysAlone, Destroys, DestroyAt, NetAlive, NetAt, Listed

LEMMA NextUse == Inv /\ UseHolds /\ [Next]_vars => UseHolds'
  <1> SUFFICES ASSUME Inv, UseHolds, [Next]_vars PROVE UseHolds'
    OBVIOUS
  <1>0. /\ Inv' /\ {Net, Kernel} \subseteq Actor \ {Exit} /\ Vm \subseteq Actor \ {Exit}
    BY NextHolds, ActorsDiffer DEF Net, Kernel, Exit
  <1>1. CASE UNCHANGED vars
    <2>1. UNCHANGED <<ins, chain, cFactoryRefs, factories, module, modRefs, pc, it, ret>>
      BY <1>1 DEF vars, globals, supdrv, kernel, ctl
    <2>2. LoadedHolds'
      BY <2>1, LoadedStays DEF UseHolds, Bound
    <2>. QED BY <2>1, <2>2
           DEF UseHolds, HasFactory, Creating, ExitHolds, DestroysAlone, Destroys, NetAlive, Listed
  <1>2. CASE DeviceEvent \/ Receive \/ Received \/ VBoxNetFltLinuxUnload \/ ExitStep \/ VBoxNetFltLinuxInit
    BY <1>2, DeviceUse, ReceiveUse, ExitUse
  <1>3. ASSUME NEW a \in Actor \ {Exit}, ReleaseStep(a) PROVE UseHolds'
    BY <1>0, <1>3, BusyUse, ReleaseUse DEF ReleaseStep
  <1>4. ASSUME NEW a \in {Net, Kernel}, AttachStep(a) \/ DestroyStep(a) PROVE UseHolds'
    BY <1>0, <1>4, AttachUse, DestroyerUse, NotifierUse, UnlinkUse DEF DestroyStep
  <1>5. CASE KernelStep
    BY <1>0, <1>3, <1>4, <1>5, DeviceUse DEF KernelStep
  <1>6. CASE CreateStep
    BY <1>6, CreateUse, FactoryReleaseUse, InsertUse, InitInstanceUse, ConnectUse DEF CreateStep
  <1>7. CASE NetStep
    BY <1>0, <1>3, <1>4, <1>6, <1>7, PortUse DEF NetStep
  <1>8. CASE Open \/ Use \/ Timeout
    BY <1>8, OpenUse, PortUse
  <1>9. ASSUME NEW v \in Vm, vboxNetFltPortXmit(v) \/ VmStep(v) PROVE UseHolds'
    BY <1>0, <1>3, <1>9, SenderUse DEF VmStep
  <1>. QED BY <1>1, <1>2, <1>5, <1>7, <1>8, <1>9 DEF Next

LEMMA AlwaysUsed == Spec => [](Inv /\ UseHolds)
  <1>1. Init => Inv /\ UseHolds
    BY InitHolds, InitUse
  <1>2. Inv /\ UseHolds /\ [Next]_vars => (Inv /\ UseHolds)'
    BY NextHolds, NextUse
  <1>. QED BY <1>1, <1>2, PTL DEF Spec

(* The connection to the support driver is closed only when no instance    *)
(* exists, the trunk is unplugged and the internal network is in no call:  *)
(* the second look of vboxNetFltTryDeleteIdc, after the factory has been   *)
(* deregistered, cannot be overtaken by a creation or a late release.      *)
THEOREM ClosesWhenUnused == Spec => ClosedWhenUnused
  <1>1. Inv /\ UseHolds /\ [Next]_vars
           => [idc /\ ~idc' => chain = {} /\ plugged = NIL /\ pc[Net] = "idle"]_vars
    <2> SUFFICES ASSUME Inv, UseHolds, Next, idc, ~idc'
                 PROVE  chain = {} /\ plugged = NIL /\ pc[Net] = "idle"
      OBVIOUS
    <2>1. SUPR0IdcClose
      <3>1. ASSUME DeviceEvent \/ KernelStep \/ Receive \/ Received PROVE idc' = idc
        BY <3>1
           DEF DeviceEvent, Unheard, vboxNetFltLinuxNotifierCallback, vboxNetFltLinuxUnregisterDevice,
               KernelStep, AttachStep, vboxNetFltLinuxAttachToInterface, dev_add_pack, SetIndicators,
               Report, ReleaseStep, ReleaseBusy, vboxNetFltRelease, DestroyStep,
               vboxNetFltDestroyInstance, vboxNetFltOsDeleteInstance, DeleteNotifier, Unlink, Notified,
               RemovePack, Receive, vboxNetFltLinuxPacketHandler, Received,
               vboxNetFltLinuxForwardSegment, supdrv
      <3>2. ASSUME Open \/ CreateStep \/ Use \/ CloseStep \/ Timeout PROVE idc' = idc
        BY <3>2
           DEF Open, SUPR0ComponentQueryFactory, CreateStep, vboxNetFltFactoryCreateAndConnect,
               vboxNetFltFactoryRelease, vboxNetFltNewInstance, vboxNetFltOsInitInstance,
               NotifierRegistered, CheckRegistered, TakeBackNotifier, try_module_get, vboxNetFltConnectIt,
               BailOut, Use, PortCall, vboxNetFltPortSetState, CloseStep, vboxNetFltPortWaitForIdle,
               CheckBusy, Timeout, WaitTimesOut, WaitAgain, RTSemEventWait, vboxNetFltPortDisconnectAndRelease, supdrv
      <3>3. ASSUME NEW a, AttachStep(a) \/ ReleaseStep(a) \/ DestroyStep(a) PROVE idc' = idc
        BY <3>3
           DEF AttachStep, vboxNetFltLinuxAttachToInterface, dev_add_pack, SetIndicators, Report,
               ReleaseStep, ReleaseBusy, vboxNetFltRelease, DestroyStep, vboxNetFltDestroyInstance,
               vboxNetFltOsDeleteInstance, DeleteNotifier, Unlink, supdrv
      <3>4. ASSUME NEW v \in Vm, vboxNetFltPortXmit(v) \/ VmStep(v) PROVE idc' = idc
        BY <3>3, <3>4
           DEF vboxNetFltPortXmit, VmStep, XmitRetain, vboxNetFltPortOsXmit,
               vboxNetFltMaybeRediscovered, supdrv
      <3>5. ASSUME VBoxNetFltLinuxUnload \/ VBoxNetFltLinuxInit \/ (ExitStep /\ ~SUPR0IdcClose)
            PROVE  idc'
        BY <3>5
           DEF VBoxNetFltLinuxUnload, VBoxNetFltLinuxInit, ExitStep, vboxNetFltTryDeleteIdc,
               SUPR0ComponentDeregisterFactory, Recheck, SUPR0ComponentRegisterFactory, Gone, supdrv
      <3>. QED BY <3>1, <3>2, <3>3, <3>4, <3>5 DEF Next, NetStep
    <2>2. pc[Exit] = "close"
      BY <2>1 DEF SUPR0IdcClose
    <2>3. chain = {} /\ cFactoryRefs = 0
      BY <2>2 DEF UseHolds, ExitHolds
    <2>4. ~HasFactory
      BY <2>3 DEF UseHolds, One
    <2>5. \A i \in Ins : ins[i].mem # "used"
      BY <2>3, <2>4 DEF UseHolds, Listed, HasFactory, Creating, CreateAt
    <2>6. plugged = NIL
      BY <2>5 DEF Inv, NetHolds, Types
    <2>7. pc[Net] = "idle"
      <3>1. ~Waits
        BY <2>6 DEF Inv, NetHolds, OldIsDown
      <3>2. pc[Net] \notin {"release"} \cup DestroyAt
        BY <2>5 DEF UseHolds, NetAlive
      <3>3. pc[Net] # "busy"
        BY <2>4 DEF Inv, NetHolds, HasFactory, Creating
      <3>. QED BY <3>1, <3>2, <3>3, <2>4
             DEF UseHolds, NetAlive, NetAt, HasFactory, Creating, Waits, FoundIdle
    <2>. QED BY <2>3, <2>6, <2>7
  <1>. QED BY <1>1, AlwaysUsed, PTL DEF Spec, ClosedWhenUnused

(* As long as the trunk is plugged in, and until who destroys the instance *)
(* has taken back its notifier, the module is neither unloaded nor on its  *)
(* way out: the reference try_module_get takes before the instance is      *)
(* connected lasts until vboxNetFltOsDeleteInstance puts it back.  From    *)
(* there to the end of vboxNetFltDestroyInstance nothing keeps the module. *)
ConnectedKeepsModule ==
    /\ plugged # NIL => module = "live"
    /\ \A i \in Ins :
          ins[i].mem = "used" /\ ins[i].enmState # "Initializing" /\ module # "live"
              => \E a \in Actor : it[a] = i /\ pc[a] = "unlink"

THEOREM ModuleStaysLoaded == Spec => []ConnectedKeepsModule
  <1>1. Inv /\ UseHolds => ConnectedKeepsModule
    <2> SUFFICES ASSUME Inv, UseHolds PROVE ConnectedKeepsModule
      OBVIOUS
    <2>1. ASSUME NEW i \in Ins, Bound(i) PROVE module = "live"
      <3>1. i \in BoundSet
        BY <2>1 DEF BoundSet
      <3>2. IsFiniteSet(BoundSet) /\ Cardinality(BoundSet) \in Nat /\ Cardinality(BoundSet) # 0
        BY <3>1, FS_CardinalityType, FS_EmptySet DEF UseHolds, LoadedHolds
      <3>3. modRefs # 0
        BY <3>2 DEF UseHolds, LoadedHolds, One
      <3>. QED BY <3>3 DEF UseHolds, LoadedHolds
    <2>2. plugged # NIL => plugged \in Ins /\ Bound(plugged)
      BY DEF Inv, Types, NetHolds, DestroyerHolds, DestroyAt, Bound
    <2>. QED BY <2>1, <2>2 DEF ConnectedKeepsModule, Bound
  <1>. QED BY <1>1, AlwaysUsed, PTL

-----------------------------------------------------------------------------
(* Callers have an instance.                                               *)

(* A thread that sends does so through the trunk that is plugged in: the   *)
(* internal network unplugs it only when no thread sends.                  *)
SendHolds == \A v \in Vm : ret[v] = "idle" /\ (pc[v] # "idle" => it[v] = plugged /\ plugged # NIL)

(* A sender that goes on or ends its call keeps this. *)
LEMMA SenderSends ==
    ASSUME SendHolds, NEW v \in Vm, Moves(v), UNCHANGED plugged, ret'[v] = "idle",
           pc'[v] # "idle" => it'[v] = plugged /\ plugged # NIL
    PROVE  SendHolds'
  BY DEF SendHolds, Moves, Actor

LEMMA ActorGoes ==
    ASSUME Inv, NEW a \in Actor, NEW l, Goto(a, l)
    PROVE  /\ Moves(a) /\ pc'[a] = l /\ ret'[a] = (IF l = "idle" THEN "idle" ELSE ret[a])
           /\ it'[a] = (IF l \in {"idle", "fac_release"} THEN NIL ELSE it[a])
  BY DEF Inv, Types, CtlTypes, Goto, Moves

LEMMA SenderStep ==
    ASSUME Inv, SendHolds, NEW v \in Vm, vboxNetFltPortXmit(v) \/ VmStep(v)
    PROVE  SendHolds'
  <1>0. v \in Actor /\ ret[v] = "idle"
    BY DEF Actor, SendHolds
  <1>1. CASE vboxNetFltPortXmit(v)
    <2>1. /\ Moves(v) /\ ret'[v] = "idle" /\ it'[v] = plugged /\ plugged # NIL /\ UNCHANGED plugged
      BY <1>0, <1>1 DEF vboxNetFltPortXmit, Connected, Moves, Inv, Types, CtlTypes
    <2>. QED BY <2>1, SenderSends
  <1>2. CASE VmStep(v)
    <2>1. /\ pc[v] # "idle" /\ UNCHANGED plugged
          /\ \E l : l # "fac_release" /\ Goto(v, l)
      <3>1. pc[v] # "idle" /\ UNCHANGED plugged
        BY <1>2 DEF VmStep, ReleaseStep, ReleaseBusy, vboxNetFltRelease, XmitRetain, vboxNetFltPortOsXmit,
               vboxNetFltMaybeRediscovered, At
      <3>2. \E l : l \in {"release", "destroy", ret[v], "xmit", "idle", "busy", "rediscover"} /\ Goto(v, l)
        BY <1>2 DEF VmStep, ReleaseStep, ReleaseBusy, vboxNetFltRelease, XmitRetain, vboxNetFltPortOsXmit,
               vboxNetFltMaybeRediscovered
      <3>. QED BY <1>0, <3>1, <3>2
    <2>2. PICK l : l # "fac_release" /\ Goto(v, l)
      BY <2>1
    <2>3. /\ Moves(v) /\ ret'[v] = "idle" /\ pc'[v] = l
          /\ l # "idle" => it'[v] = it[v]
      BY <1>0, <2>2, ActorGoes
    <2>4. it[v] = plugged /\ plugged # NIL
      BY <2>1 DEF SendHolds
    <2>. QED BY <2>1, <2>3, <2>4, SenderSends
  <1>. QED BY <1>1, <1>2

(* The trunk is plugged in and out by the internal network only. *)
LEMMA PluggedStays ==
    ASSUME Inv, SendHolds, Next
    PROVE  UNCHANGED plugged \/ \A v \in Vm : pc[v] = "idle"
  <1>1. ASSUME NEW i \in Ins, vboxNetFltConnectIt(i) PROVE \A v \in Vm : pc[v] = "idle"
    <2>1. plugged = NIL
      BY <1>1 DEF vboxNetFltConnectIt, At, Inv, NetHolds, Creating, CreateAt, NewIsBlank
    <2>. QED BY <2>1 DEF SendHolds
  <1>2. ASSUME NEW i \in Ins, vboxNetFltPortDisconnectAndRelease(i) PROVE \A v \in Vm : pc[v] = "idle"
    BY <1>2 DEF vboxNetFltPortDisconnectAndRelease
  <1>3. CASE CreateStep \/ CloseStep
    BY <1>1, <1>2, <1>3
       DEF CreateStep, CloseStep, vboxNetFltFactoryCreateAndConnect, vboxNetFltFactoryRelease,
           vboxNetFltNewInstance, vboxNetFltOsInitInstance, NotifierRegistered, CheckRegistered,
           TakeBackNotifier, try_module_get, BailOut, WaitAgain, vboxNetFltPortWaitForIdle, CheckBusy,
           RTSemEventWait
  <1>4. ASSUME NEW a, AttachStep(a) \/ ReleaseStep(a) \/ DestroyStep(a) PROVE UNCHANGED plugged
    BY <1>4 DEF AttachStep, ReleaseStep, DestroyStep, vboxNetFltLinuxAttachToInterface, dev_add_pack,
                SetIndicators, Report, ReleaseBusy, vboxNetFltRelease, vboxNetFltDestroyInstance,
                vboxNetFltOsDeleteInstance, DeleteNotifier, Unlink
  <1>5. CASE DeviceEvent \/ Receive \/ Received \/ Open \/ Use \/ Timeout \/ Notified \/ \E i \in Ins : RemovePack(i)
    BY <1>5 DEF DeviceEvent, Unheard, vboxNetFltLinuxNotifierCallback, vboxNetFltLinuxUnregisterDevice,
                Receive, Received, vboxNetFltLinuxPacketHandler, vboxNetFltLinuxForwardSegment, Open,
                SUPR0ComponentQueryFactory, Use, Timeout, WaitTimesOut, PortCall, vboxNetFltPortSetState,
                Notified, RemovePack
  <1>6. ASSUME NEW v \in Vm, vboxNetFltPortXmit(v) \/ VmStep(v) PROVE UNCHANGED plugged
    BY <1>4, <1>6 DEF vboxNetFltPortXmit, VmStep, XmitRetain, vboxNetFltPortOsXmit, vboxNetFltMaybeRediscovered
  <1>7. CASE VBoxNetFltLinuxUnload \/ ExitStep \/ VBoxNetFltLinuxInit
    BY <1>7 DEF VBoxNetFltLinuxUnload, ExitStep, VBoxNetFltLinuxInit, vboxNetFltTryDeleteIdc,
                SUPR0ComponentDeregisterFactory, Recheck, SUPR0ComponentRegisterFactory, SUPR0IdcClose, Gone
  <1>. QED BY <1>3, <1>4, <1>5, <1>6, <1>7 DEF Next, KernelStep, NetStep

(* Nobody but a sender moves a sender. *)
LEMMA OthersMove ==
    ASSUME Inv, Next, NEW v \in Vm
    PROVE  vboxNetFltPortXmit(v) \/ VmStep(v) \/ UNCHANGED <<pc[v], it[v], ret[v]>>
  <1>. DEFINE Same == UNCHANGED <<pc[v], it[v], ret[v]>>
  <1>0. v \in Actor /\ v \notin {Net, Kernel, Rx, Exit}
    BY VmAssumption DEF Actor
  <1>1. ASSUME NEW a \in Actor, a # v, NEW l, Goto(a, l) PROVE Same
    BY <1>0, <1>1, ActorGoes DEF Moves
  <1>2. {Net, Kernel, Rx, Exit} \subseteq Actor /\ CtlTypes
    BY DEF Actor, Inv, Types
  <1>3. ASSUME NEW a \in Actor, a # v, AttachStep(a) \/ ReleaseStep(a) \/ DestroyStep(a) PROVE Same
    <2>1. \E l : Goto(a, l)
      BY <1>3 DEF AttachStep, ReleaseStep, DestroyStep, vboxNetFltLinuxAttachToInterface, dev_add_pack,
                  SetIndicators, Report, ReleaseBusy, vboxNetFltRelease, vboxNetFltDestroyInstance,
                  vboxNetFltOsDeleteInstance, DeleteNotifier, Unlink
    <2>. QED BY <1>1, <1>3, <2>1
  <1>4. CASE DeviceEvent
    BY <1>0, <1>2, <1>4 DEF DeviceEvent, Unheard, vboxNetFltLinuxNotifierCallback,
       vboxNetFltLinuxUnregisterDevice, CtlTypes, ctl
  <1>5. CASE Receive
    BY <1>0, <1>2, <1>5 DEF Receive, vboxNetFltLinuxPacketHandler, CtlTypes
  <1>6. CASE Received \/ Notified \/ Open \/ \E i \in Ins : RemovePack(i)
    <2>1. \E a \in {Rx, Kernel, Net}, l \in {"idle", "create", "notified"} : Goto(a, l)
      BY <1>6 DEF Received, vboxNetFltLinuxForwardSegment, Notified, Open, SUPR0ComponentQueryFactory, RemovePack
    <2>. QED BY <1>0, <1>1, <1>2, <2>1
  <1>7. CASE Use \/ Timeout
    BY <1>0, <1>2, <1>7 DEF Use, Timeout, WaitTimesOut, PortCall, vboxNetFltPortSetState, CtlTypes
  <1>8. CASE CloseStep
    <2>1. ASSUME NEW i \in Ins, CheckBusy(i) \/ vboxNetFltPortDisconnectAndRelease(i) PROVE Same
      BY <1>0, <1>2, <2>1 DEF CheckBusy, vboxNetFltPortDisconnectAndRelease, CtlTypes
    <2>2. ASSUME NEW i \in Ins, vboxNetFltPortWaitForIdle(i) \/ RTSemEventWait(i) PROVE Same
      BY <1>0, <1>1, <1>2, <2>2 DEF vboxNetFltPortWaitForIdle, RTSemEventWait
    <2>3. CASE WaitAgain
      BY <1>0, <1>2, <2>3 DEF WaitAgain, CtlTypes
    <2>. QED BY <1>8, <2>1, <2>2, <2>3 DEF CloseStep
  <1>9. CASE CreateStep
    <2>1. CASE \E l : Goto(Net, l)
      BY <1>0, <1>1, <1>2, <2>1
    <2>2. CASE ~\E l : Goto(Net, l)
      <3>1. vboxNetFltFactoryCreateAndConnect \/ \E i \in Ins : vboxNetFltOsInitInstance(i)
        BY <1>9, <2>2 DEF CreateStep, vboxNetFltFactoryRelease, vboxNetFltNewInstance, NotifierRegistered,
           CheckRegistered, TakeBackNotifier, try_module_get, vboxNetFltConnectIt, BailOut
      <3>. QED BY <1>0, <1>2, <2>2, <3>1
               DEF vboxNetFltFactoryCreateAndConnect, vboxNetFltOsInitInstance, CtlTypes
    <2>. QED BY <2>1, <2>2
  <1>10. CASE VBoxNetFltLinuxUnload \/ ExitStep \/ VBoxNetFltLinuxInit
    BY <1>0, <1>2, <1>10
       DEF VBoxNetFltLinuxUnload, ExitStep, VBoxNetFltLinuxInit, vboxNetFltTryDeleteIdc,
           SUPR0ComponentDeregisterFactory, Recheck, SUPR0ComponentRegisterFactory, SUPR0IdcClose, Gone,
           ExitTo, CtlTypes, ctl
  <1>11. ASSUME NEW w \in Vm, w # v, vboxNetFltPortXmit(w) \/ VmStep(w) PROVE Same
    <2>1. CASE vboxNetFltPortXmit(w)
      BY <1>0, <1>2, <1>11, <2>1 DEF vboxNetFltPortXmit, CtlTypes
    <2>2. CASE VmStep(w)
      <3>1. \E l : Goto(w, l)
        BY <2>2 DEF VmStep, ReleaseStep, ReleaseBusy, vboxNetFltRelease, XmitRetain,
                    vboxNetFltPortOsXmit, vboxNetFltMaybeRediscovered
      <3>. QED BY <1>1, <1>11, <3>1 DEF Actor
    <2>. QED BY <1>11, <2>1, <2>2
  <1>12. CASE KernelStep
    BY <1>0, <1>2, <1>3, <1>6, <1>12 DEF KernelStep
  <1>13. CASE NetStep
    BY <1>0, <1>2, <1>3, <1>8, <1>9, <1>13 DEF NetStep
  <1>. QED BY <1>4, <1>5, <1>6, <1>7, <1>10, <1>11, <1>12, <1>13 DEF Next

LEMMA NextSends == Inv /\ SendHolds /\ [Next]_vars => SendHolds'
  <1>. SUFFICES ASSUME Inv, SendHolds, [Next]_vars PROVE SendHolds'
    OBVIOUS
  <1>1. CASE UNCHANGED vars
    BY <1>1 DEF vars, ctl, SendHolds
  <1>2. CASE \E v \in Vm : vboxNetFltPortXmit(v) \/ VmStep(v)
    BY <1>2, SenderStep
  <1>3. CASE Next /\ ~\E v \in Vm : vboxNetFltPortXmit(v) \/ VmStep(v)
    <2>1. \A v \in Vm : UNCHANGED <<pc[v], it[v], ret[v]>>
      BY <1>3, OthersMove
    <2>. QED BY <1>3, <2>1, PluggedStays DEF SendHolds
  <1>. QED BY <1>1, <1>2, <1>3

LEMMA InitSends == Init => SendHolds
  BY DEF Init, SendHolds, Actor

(* No call works on an instance that was freed, whoever disconnects and    *)
(* destroys it meanwhile: a thread that sends works on the instance that   *)
(* is plugged in, for the internal network unplugs it only when no thread  *)
(* sends, and so it never drops the last reference; and the internal       *)
(* network knows the one it creates, waits for or destroys.  Only the      *)
(* kernel's notifier may be left with an instance that creating gave up.   *)
CallersHaveInstance ==
    /\ \A a \in Vm \cup {Net} :
          pc[a] \notin {"idle", "create", "fac_release"} => it[a] \in Ins /\ ins[it[a]].mem = "used"
    /\ \A v \in Vm : pc[v] \notin DestroyAt

(* Callers have an instance, for any number of threads and instances.      *)
THEOREM InstanceIsThere == Spec => []CallersHaveInstance
  <1>1. Inv /\ UseHolds /\ SendHolds => CallersHaveInstance
    <2>. SUFFICES ASSUME Inv, UseHolds, SendHolds PROVE CallersHaveInstance
      OBVIOUS
    <2>1. plugged # NIL => plugged \in Ins /\ ins[plugged].mem = "used" /\ ins[plugged].enmState = "Connected"
      BY DEF Inv, Types, NetHolds
    <2>2. ASSUME NEW v \in Vm, pc[v] # "idle"
          PROVE  it[v] \in Ins /\ ins[it[v]].mem = "used" /\ pc[v] \notin DestroyAt
      <3>1. it[v] = plugged /\ plugged # NIL
        BY <2>2 DEF SendHolds
      <3>2. v \in Actor
        BY DEF Actor
      <3>. QED BY <2>1, <3>1, <3>2 DEF Inv, DestroyerHolds
    <2>3. ASSUME pc[Net] \notin {"idle", "create", "fac_release"}
          PROVE  it[Net] \in Ins /\ ins[it[Net]].mem = "used"
      <3>1. CASE pc[Net] \in {"release"} \cup DestroyAt
        BY <3>1 DEF UseHolds, NetAlive
      <3>2. CASE Creating \/ Waits
        BY <2>1, <3>2 DEF Inv, NetHolds, NewIsBlank, OldIsDown
      <3>3. pc[Net] = "busy" => Creating
        BY DEF Inv, NetHolds, Creating
      <3>4. pc[Net] \in NetAt
        BY DEF UseHolds, NetAlive
      <3>5. pc[Net] \in {"release"} \cup DestroyAt \/ Creating \/ Waits
        BY <2>3, <3>3, <3>4 DEF NetAt, Creating, Waits, FoundIdle
      <3>. QED BY <3>1, <3>2, <3>5
    <2>4. "idle" \notin DestroyAt
      BY DEF DestroyAt
    <2>. QED BY <2>2, <2>3, <2>4 DEF CallersHaveInstance
  <1>. QED BY <1>1, AlwaysUsed, InitSends, NextSends, PTL DEF Spec
=============================================================================
