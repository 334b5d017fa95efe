-------------------------- MODULE SUPDrvMem_proofs --------------------------
(***************************************************************************)
(* Proofs about SUPDrvMem, for any number of threads, memory objects,      *)
(* addresses, entries and bundles.                                         *)
(***************************************************************************)
EXTENDS SUPDrvMem, SequenceTheorems, FiniteSetTheorems, TLAPS

EntryT == [eType : Type \cup {"UNUSED"}, MemObj : Mem \cup {NIL}, MapObjR3 : BOOLEAN]

Bundle == [cUsed : 0..Entries, aMem : [1..Entries -> EntryT]]

Shape == bundles \in Seq(Bundle) /\ Len(bundles) \in 1..MaxBundle

(* The entries of a bundle that are in use. *)
UsedSlots(b) == {i \in 1..Entries : bundles[b].aMem[i].MemObj # NIL}

-----------------------------------------------------------------------------
(* What the operations on the list of bundles do to its entries.           *)

LEMMA ShapeFacts ==
    ASSUME Shape
    PROVE  /\ DOMAIN bundles = 1 .. Len(bundles)
           /\ Len(bundles) \in Nat \ {0}
           /\ \A b \in DOMAIN bundles : bundles[b] \in Bundle
           /\ \A s \in Places : /\ s[1] \in DOMAIN bundles /\ s[2] \in 1..Entries
                                /\ s = <<s[1], s[2]>> /\ Entry(s) \in EntryT
  <1>1. /\ DOMAIN bundles = 1 .. Len(bundles) /\ Len(bundles) \in Nat \ {0}
        /\ \A b \in DOMAIN bundles : bundles[b] \in Bundle
    BY MemAssumption, LenProperties, ElementOfSeq DEF Shape
  <1>2. ASSUME NEW s \in Places
        PROVE  /\ s[1] \in DOMAIN bundles /\ s[2] \in 1..Entries
               /\ s = <<s[1], s[2]>> /\ Entry(s) \in EntryT
    <2>1. PICK b \in DOMAIN bundles, i \in 1..Entries : s = <<b, i>>
      BY <1>2 DEF Places
    <2>2. bundles[b].aMem[i] \in EntryT
      BY <1>1, <2>1 DEF Bundle
    <2>. QED BY <2>1, <2>2 DEF Entry
  <1>. QED BY <1>1, <1>2

(* One bundle becomes x, the others stay. *)
LEMMA BundleSet ==
    ASSUME Shape, NEW b \in DOMAIN bundles, NEW x \in Bundle,
           bundles' = [bundles EXCEPT ![b] = x]
    PROVE  /\ Shape' /\ DOMAIN bundles' = DOMAIN bundles /\ Places' = Places
           /\ \A c \in DOMAIN bundles : bundles'[c] = IF c = b THEN x ELSE bundles[c]
  <1>1. bundles' \in Seq(Bundle) /\ Len(bundles') = Len(bundles)
    BY ShapeFacts, ExceptSeq DEF Shape
  <1>2. DOMAIN bundles' = DOMAIN bundles
    OBVIOUS
  <1>. QED BY <1>1, <1>2 DEF Shape, Places

(* A free entry is taken, and counted. *)
LEMMA EntryTaken ==
    ASSUME Shape, NEW s \in Places, NEW e \in EntryT, HasRoom(s[1]),
           bundles' = [bundles EXCEPT ![s[1]].cUsed = @ + 1, ![s[1]].aMem[s[2]] = e]
    PROVE  /\ Shape' /\ DOMAIN bundles' = DOMAIN bundles /\ Places' = Places
           /\ \A r \in Places : Entry(r)' = IF r = s THEN e ELSE Entry(r)
           /\ \A c \in DOMAIN bundles : bundles'[c].cUsed =
                IF c = s[1] THEN bundles[c].cUsed + 1 ELSE bundles[c].cUsed
  <1>. DEFINE b == s[1]
              i == s[2]
              x == [cUsed |-> bundles[b].cUsed + 1, aMem |-> [bundles[b].aMem EXCEPT ![i] = e]]
  <1>1. b \in DOMAIN bundles /\ i \in 1..Entries /\ s = <<b, i>> /\ bundles[b] \in Bundle
    BY ShapeFacts
  <1>2. x \in Bundle
    BY <1>1, MemAssumption DEF Bundle, HasRoom
  <1>3. bundles' = [bundles EXCEPT ![b] = x]
    <2>. DEFINE r == [bundles[b] EXCEPT !.cUsed = bundles[b].cUsed + 1]
                y == [r EXCEPT !.aMem = [r.aMem EXCEPT ![i] = e]]
                g == [bundles EXCEPT ![b] = r]
    <2>1. y = x
      <3>1. r = [cUsed |-> bundles[b].cUsed + 1, aMem |-> bundles[b].aMem]
        BY <1>1 DEF Bundle
      <3>. HIDE DEF r
      <3>. QED BY <3>1
    <2>2. bundles' = [g EXCEPT ![b].aMem[i] = e] /\ g[b] = r /\ b \in DOMAIN g
      BY <1>1
    <2>3. [g EXCEPT ![b].aMem[i] = e] = [g EXCEPT ![b] = y]
      <3>. HIDE DEF r, g
      <3>. QED BY <2>2
    <2>4. [g EXCEPT ![b] = y] = [bundles EXCEPT ![b] = y]
      <3>. HIDE DEF r, y, b
      <3>. QED BY <1>1
    <2>. HIDE DEF x, y, g
    <2>. QED BY <2>1, <2>2, <2>3, <2>4
  <1>4. /\ Shape' /\ DOMAIN bundles' = DOMAIN bundles /\ Places' = Places
        /\ \A c \in DOMAIN bundles : bundles'[c] = IF c = b THEN x ELSE bundles[c]
    <2>. HIDE DEF x, b
    <2>. QED BY <1>1, <1>2, <1>3, BundleSet
  <1>5. ASSUME NEW r \in Places PROVE Entry(r)' = IF r = s THEN e ELSE Entry(r)
    <2>1. r[1] \in DOMAIN bundles /\ r[2] \in 1..Entries /\ r = <<r[1], r[2]>>
      BY ShapeFacts
    <2>. QED BY <1>1, <1>4, <2>1 DEF Entry, Bundle
  <1>. QED BY <1>4, <1>5

(* An entry is cleared, and still counted. *)
LEMMA EntryCleared ==
    ASSUME Shape, NEW s \in Places, bundles' = [bundles EXCEPT ![s[1]].aMem[s[2]] = Unused]
    PROVE  /\ Shape' /\ DOMAIN bundles' = DOMAIN bundles /\ Places' = Places
           /\ \A r \in Places : Entry(r)' = IF r = s THEN Unused ELSE Entry(r)
           /\ \A c \in DOMAIN bundles : bundles'[c].cUsed = bundles[c].cUsed
  <1>. DEFINE b == s[1]
              i == s[2]
              x == [cUsed |-> bundles[b].cUsed, aMem |-> [bundles[b].aMem EXCEPT ![i] = Unused]]
  <1>1. b \in DOMAIN bundles /\ i \in 1..Entries /\ s = <<b, i>> /\ bundles[b] \in Bundle
    BY ShapeFacts
  <1>2. x \in Bundle
    BY <1>1 DEF Bundle, EntryT, Unused
  <1>3. bundles' = [bundles EXCEPT ![b] = x]
    <2>. DEFINE y == [bundles[b] EXCEPT !.aMem = [bundles[b].aMem EXCEPT ![i] = Unused]]
    <2>1. y = x
      BY <1>1 DEF Bundle
    <2>2. bundles' = [bundles EXCEPT ![b] = y]
      BY <1>1
    <2>. HIDE DEF x, y
    <2>. QED BY <2>1, <2>2
  <1>4. /\ Shape' /\ DOMAIN bundles' = DOMAIN bundles /\ Places' = Places
        /\ \A c \in DOMAIN bundles : bundles'[c] = IF c = b THEN x ELSE bundles[c]
    <2>. HIDE DEF x, b
    <2>. QED BY <1>1, <1>2, <1>3, BundleSet
  <1>5. ASSUME NEW r \in Places PROVE Entry(r)' = IF r = s THEN Unused ELSE Entry(r)
    <2>1. r[1] \in DOMAIN bundles /\ r[2] \in 1..Entries /\ r = <<r[1], r[2]>>
      BY ShapeFacts
    <2>. QED BY <1>1, <1>4, <2>1 DEF Entry, Bundle
  <1>. QED BY <1>4, <1>5

(* A bundle is linked in behind the first: places move by one bundle.      *)
Moved(s) == IF s[1] = 1 THEN s ELSE <<s[1] + 1, s[2]>>

LEMMA BundleLinked ==
    ASSUME Shape, Len(bundles) < MaxBundle, NEW new \in Bundle,
           bundles' = <<Head(bundles), new>> \o Tail(bundles)
    PROVE  /\ Shape'
           /\ \A b \in DOMAIN bundles' :
                bundles'[b] = IF b = 2 THEN new
                              ELSE IF b = 1 THEN bundles[1] ELSE bundles[b - 1]
           /\ \A s \in Places : Moved(s) \in Places' /\ Entry(Moved(s))' = Entry(s)
           /\ \A i \in 1..Entries : <<2, i>> \in Places' /\ Entry(<<2, i>>)' = new.aMem[i]
           /\ \A r \in Places' : (\E s \in Places : r = Moved(s)) \/ \E i \in 1..Entries : r = <<2, i>>
  <1>. DEFINE n == Len(bundles)
              p == <<Head(bundles), new>>
              q == Tail(bundles)
  <1>1. n \in Nat \ {0} /\ bundles # <<>> /\ DOMAIN bundles = 1..n /\ bundles \in Seq(Bundle)
    BY ShapeFacts DEF Shape
  <1>2. /\ Head(bundles) \in Bundle /\ q \in Seq(Bundle) /\ Len(q) = n - 1
        /\ \A i \in 1 .. n - 1 : q[i] = bundles[i + 1]
        /\ Head(bundles) = bundles[1]
    BY <1>1, HeadTailProperties
  <1>3. p \in Seq(Bundle) /\ Len(p) = 2 /\ p[1] = bundles[1] /\ p[2] = new
    BY <1>2
  <1>4. /\ bundles' \in Seq(Bundle) /\ Len(bundles') = n + 1
        /\ \A i \in 1 .. n + 1 : bundles'[i] = IF i <= 2 THEN p[i] ELSE q[i - 2]
    <2>. HIDE DEF p, q
    <2>1. /\ p \o q \in Seq(Bundle) /\ Len(p \o q) = 2 + (n - 1)
          /\ \A i \in 1 .. 2 + (n - 1) : (p \o q)[i] = IF i <= 2 THEN p[i] ELSE q[i - 2]
      <3>1. /\ p \o q \in Seq(Bundle) /\ Len(p \o q) = Len(p) + Len(q)
            /\ \A i \in 1 .. Len(p) + Len(q) :
                  (p \o q)[i] = IF i <= Len(p) THEN p[i] ELSE q[i - Len(p)]
        BY <1>2, <1>3, ConcatProperties, Zenon
      <3>2. Len(p) = 2 /\ Len(q) = n - 1
        BY <1>2, <1>3
      <3>. QED BY <3>1, <3>2
    <2>2. 2 + (n - 1) = n + 1
      BY <1>1
    <2>. QED BY <2>1, <2>2 DEF p, q
  <1>5. Shape' /\ DOMAIN bundles' = 1 .. n + 1
    <2>1. n + 1 \in 1..MaxBundle
      BY <1>1, MemAssumption DEF Shape
    <2>2. DOMAIN bundles' = 1 .. n + 1
      BY <1>4, LenProperties
    <2>. QED BY <1>4, <2>1, <2>2 DEF Shape
  <1>6. ASSUME NEW b \in 1 .. n + 1
        PROVE  bundles'[b] = IF b = 2 THEN new ELSE IF b = 1 THEN bundles[1] ELSE bundles[b - 1]
    <2>1. CASE b > 2
      <3>1. b - 2 \in 1 .. n - 1 /\ (b - 2) + 1 = b - 1
        BY <1>1, <2>1
      <3>. QED BY <1>2, <1>4, <2>1, <3>1
    <2>2. CASE b <= 2
      BY <1>1, <1>3, <1>4, <2>2
    <2>. QED BY <1>1, <2>1, <2>2
  <1>. HIDE DEF p, q
  <1>7. ASSUME NEW s \in Places
        PROVE  Moved(s) \in Places' /\ Entry(Moved(s))' = Entry(s)
    <2>1. s[1] \in 1..n /\ s[2] \in 1..Entries /\ s = <<s[1], s[2]>>
      BY <1>1, ShapeFacts
    <2>2. CASE s[1] = 1
      BY <1>1, <1>5, <1>6, <2>1, <2>2 DEF Moved, Places, Entry
    <2>3. CASE s[1] # 1
      <3>1. /\ s[1] + 1 \in 1 .. n + 1 /\ s[1] + 1 > 2 /\ (s[1] + 1) - 1 = s[1]
        BY <1>1, <2>1, <2>3
      <3>2. bundles'[s[1] + 1] = bundles[s[1]]
        BY SMTT(30), <1>6, <3>1
      <3>. QED BY <1>5, <2>1, <2>3, <3>1, <3>2 DEF Moved, Places, Entry
    <2>. QED BY <2>2, <2>3
  <1>8. ASSUME NEW i \in 1..Entries PROVE <<2, i>> \in Places' /\ Entry(<<2, i>>)' = new.aMem[i]
    BY <1>1, <1>5, <1>6 DEF Places, Entry
  <1>9. ASSUME NEW r \in Places'
        PROVE  (\E s \in Places : r = Moved(s)) \/ \E i \in 1..Entries : r = <<2, i>>
    <2>1. PICK b \in 1 .. n + 1, i \in 1..Entries : r = <<b, i>>
      BY <1>5 DEF Places
    <2>2. CASE b = 1
      <3>1. <<1, i>> \in Places /\ Moved(<<1, i>>) = <<1, i>>
        BY <1>1 DEF Places, Moved
      <3>. QED BY <2>1, <2>2, <3>1
    <2>3. CASE b > 2
      <3>1. b - 1 \in 1..n /\ b - 1 # 1 /\ (b - 1) + 1 = b
        BY <1>1, <2>3
      <3>2. <<b - 1, i>> \in Places /\ Moved(<<b - 1, i>>) = <<b, i>>
        BY <1>1, <3>1 DEF Places, Moved
      <3>. QED BY <2>1, <3>2
    <2>. QED BY <1>1, <2>1, <2>2, <2>3
  <1>. QED BY <1>5, <1>6, <1>7, <1>8, <1>9

LEMMA MovedInjective ==
    ASSUME Shape, NEW r \in Places, NEW s \in Places
    PROVE  /\ Moved(r) = Moved(s) => r = s
           /\ \A i : Moved(r) # <<2, i>>
  <1>1. /\ r[1] \in Nat \ {0} /\ s[1] \in Nat \ {0}
        /\ r = <<r[1], r[2]>> /\ s = <<s[1], s[2]>>
    BY ShapeFacts
  <1>. QED BY <1>1 DEF Moved

-----------------------------------------------------------------------------
(* The inductive invariant, in named parts.                                *)

(* The call of thread t is responsible for its object. *)
Owns(t) == pc[t] \in {"add", "bundle", "undo", "free", "object"}

(* An entry names an object that exists, and no other entry names it.      *)
EntriesOwn ==
    /\ \A s \in Places : Entry(s).MemObj # NIL => Alive(Entry(s).MemObj)
    /\ \A r, s \in Places : Entry(r).MemObj = Entry(s).MemObj /\ Entry(r).MemObj # NIL => r = s

(* A call that owns an object shares it with no entry and no other call.   *)
CallsOwn ==
    \A t \in Thread : Owns(t) =>
        /\ ob[t] \in Mem /\ Alive(ob[t])
        /\ \A s \in Places : Entry(s).MemObj # ob[t]
        /\ \A u \in Thread : Owns(u) /\ ob[u] = ob[t] => u = t

(* Every object but those lost has an owner. *)
NothingLost ==
    \A m \in Mem : Alive(m) /\ m \notin lost =>
        \/ \E s \in Places : Entry(s).MemObj = m
        \/ \E t \in Thread : Owns(t) /\ ob[t] = m

(* What was lost exists, and nobody will ever free it. *)
LostIsNobodys ==
    \A m \in lost :
        /\ m \in Mem /\ Alive(m)
        /\ \A s \in Places : Entry(s).MemObj # m
        /\ \A t \in Thread : Owns(t) => ob[t] # m

DeadIsNothing == \A m \in Mem : ~Alive(m) => mem[m] = NoMem

(* What an entry says of its object is so. *)
EntriesMatch ==
    \A s \in Places :
        /\ Entry(s).eType # "UNUSED" => Entry(s).MemObj # NIL
        /\ Entry(s).MapObjR3 =>
            /\ Entry(s).MemObj \in Mem
            /\ mem[Entry(s).MemObj].eType # "LOCKED" /\ mem[Entry(s).MemObj].va # NIL

AddressesDiffer ==
    \A m, n \in Mem :
        /\ Alive(m) /\ mem[m].eType # "LOCKED" /\ mem[m].va # NIL
        /\ Alive(n) /\ mem[n].eType # "LOCKED" /\ mem[n].va = mem[m].va
        => m = n

ClosedIsEmpty ==
    ~open => (\A t \in Thread : pc[t] = "idle") /\ \A m \in Mem : Alive(m) => m \in lost

(* cUsed never counts less than what is in use. *)
UsedCounted == \A b \in DOMAIN bundles : Cardinality(UsedSlots(b)) <= bundles[b].cUsed

MemInv ==
    /\ TypeOK /\ EntriesOwn /\ CallsOwn /\ NothingLost /\ LostIsNobodys /\ DeadIsNothing
    /\ EntriesMatch /\ AddressesDiffer /\ ClosedIsEmpty /\ UsedCounted

LEMMA TypeShape == (TypeOK => Shape) /\ (TypeOK' => Shape')
  BY DEF TypeOK, Shape, Bundle, EntryT

-----------------------------------------------------------------------------
(* Entries in use.                                                         *)

LEMMA SlotsFinite ==
    ASSUME NEW S, S \subseteq 1..Entries
    PROVE  IsFiniteSet(S) /\ Cardinality(S) \in Nat
  <1>1. IsFiniteSet(1..Entries)
    BY FS_Interval, MemAssumption
  <1>. QED BY <1>1, FS_Subset, FS_CardinalityType

LEMMA RoomCounted ==
    ASSUME Shape, UsedCounted
    PROVE  RoomIsReal
  <1>. SUFFICES ASSUME NEW b \in DOMAIN bundles, HasRoom(b), FreeSlots(b) = {}
                PROVE  FALSE
    BY DEF RoomIsReal
  <1>1. UsedSlots(b) = 1..Entries
    BY DEF UsedSlots, FreeSlots
  <1>2. Cardinality(1..Entries) = Entries
    BY FS_Interval, MemAssumption
  <1>3. bundles[b].cUsed \in Nat
    BY ShapeFacts, MemAssumption DEF Bundle
  <1>. QED BY <1>1, <1>2, <1>3, MemAssumption DEF UsedCounted, HasRoom

(* Entry s becomes e, and cUsed of its bundle grows by n. *)
Becomes(s, e, n) ==
    /\ Shape' /\ DOMAIN bundles' = DOMAIN bundles /\ Places' = Places
    /\ \A r \in Places : Entry(r)' = IF r = s THEN e ELSE Entry(r)
    /\ \A c \in DOMAIN bundles : bundles'[c].cUsed =
          IF c = s[1] THEN bundles[c].cUsed + n ELSE bundles[c].cUsed

(* Whoever takes an entry counts it; whoever clears one need not.          *)
LEMMA CountedOnTake ==
    ASSUME Shape, UsedCounted, NEW s \in Places, NEW e \in EntryT, NEW n \in {0, 1},
           Becomes(s, e, n), e.MemObj # NIL => n = 1
    PROVE  UsedCounted'
  <1>0. /\ Shape' /\ DOMAIN bundles' = DOMAIN bundles /\ Places' = Places
        /\ \A r \in Places : Entry(r)' = IF r = s THEN e ELSE Entry(r)
        /\ \A c \in DOMAIN bundles : bundles'[c].cUsed =
              IF c = s[1] THEN bundles[c].cUsed + n ELSE bundles[c].cUsed
    BY DEF Becomes
  <1>. SUFFICES ASSUME NEW c \in DOMAIN bundles
                PROVE  Cardinality(UsedSlots(c)') <= bundles'[c].cUsed
    BY <1>0 DEF UsedCounted
  <1>. DEFINE U == UsedSlots(c)
              V == UsedSlots(c)'
  <1>1. /\ bundles[c].cUsed \in Nat /\ s = <<s[1], s[2]>> /\ s[2] \in 1..Entries
        /\ Cardinality(U) <= bundles[c].cUsed
    BY ShapeFacts, MemAssumption DEF Bundle, UsedCounted
  <1>2. \A i \in 1..Entries : bundles'[c].aMem[i] = IF <<c, i>> = s THEN e ELSE bundles[c].aMem[i]
    <2>. TAKE i \in 1..Entries
    <2>1. <<c, i>> \in Places
      BY DEF Places
    <2>. QED BY <1>0, <2>1 DEF Entry
  <1>3. V \subseteq IF c = s[1] /\ e.MemObj # NIL THEN U \cup {s[2]} ELSE U
    BY <1>1, <1>2 DEF UsedSlots
  <1>4. U \subseteq 1..Entries
    BY DEF UsedSlots
  <1>. HIDE DEF U, V
  <1>5. CASE c = s[1] /\ e.MemObj # NIL
    <2>1. /\ IsFiniteSet(U) /\ Cardinality(U) \in Nat
      BY <1>4, SlotsFinite
    <2>2. /\ IsFiniteSet(U \cup {s[2]})
          /\ Cardinality(U \cup {s[2]}) \in {Cardinality(U), Cardinality(U) + 1}
      BY <2>1, FS_AddElement
    <2>3. Cardinality(V) <= Cardinality(U \cup {s[2]})
      BY <1>3, <1>5, <2>2, FS_Subset
    <2>4. Cardinality(V) \in Nat
      BY <1>3, <1>5, <2>2, FS_Subset, FS_CardinalityType
    <2>. QED BY <1>0, <1>1, <1>5, <2>1, <2>2, <2>3, <2>4 DEF V
  <1>6. CASE ~(c = s[1] /\ e.MemObj # NIL)
    <2>1. IsFiniteSet(U) /\ Cardinality(U) \in Nat
      BY <1>4, SlotsFinite
    <2>2. V \subseteq U
      BY <1>3, <1>6
    <2>3. Cardinality(V) <= Cardinality(U) /\ Cardinality(V) \in Nat
      BY <2>1, <2>2, FS_Subset, FS_CardinalityType
    <2>. QED BY <1>0, <1>1, <1>6, <2>1, <2>3 DEF V
  <1>. QED BY <1>5, <1>6

-----------------------------------------------------------------------------
(* The steps.  A call that creates an object: nothing knows it yet.        *)
LEMMA CreateKeeps ==
    ASSUME MemInv, NEW t \in Thread, NEW m \in Mem, NEW k \in Type, NEW pv \in Mem \cup Addr \cup {NIL},
           NEW va \in Addr \cup {NIL}, Create(t, m, k, pv, va),
           k # "LOCKED" => va \notin Occupied \/ va = NIL
    PROVE  MemInv'
  <1>. DEFINE new == [eType |-> k, pv |-> pv, va |-> va, maps |-> 0]
  <1>1. /\ open /\ pc[t] = "idle" /\ ~Alive(m)
        /\ mem' = [mem EXCEPT ![m] = new]
        /\ pc' = [pc EXCEPT ![t] = "add"] /\ ob' = [ob EXCEPT ![t] = m]
        /\ UNCHANGED <<open, bundles, lost>>
    BY DEF Create, CanCall, Goto
  <1>2. /\ new \in [eType : Type \cup {"UNUSED"}, pv : Mem \cup Addr \cup {NIL},
                    va : Addr \cup {NIL}, maps : 0..MaxMap]
        /\ k # "UNUSED" /\ NIL \notin Mem
    BY MemAssumption DEF Type
  <1>3. TypeOK'
    <2>. HIDE DEF new
    <2>. QED BY <1>1, <1>2 DEF MemInv, TypeOK
  <1>4. /\ \A n \in Mem : mem'[n] = IF n = m THEN new ELSE mem[n]
        /\ \A u \in Thread : pc'[u] = IF u = t THEN "add" ELSE pc[u]
        /\ \A u \in Thread : ob'[u] = IF u = t THEN m ELSE ob[u]
        /\ Places' = Places /\ (\A s \in Places : Entry(s)' = Entry(s))
        /\ \A n \in Mem : Alive(n)' <=> (n = m \/ Alive(n))
    BY <1>1, <1>2 DEF MemInv, TypeOK, Places, Entry, Alive
  <1>5. \A s \in Places : Entry(s).MemObj \in Mem \cup {NIL} /\ Entry(s).MemObj # m
    BY <1>1, <1>2, TypeShape, ShapeFacts DEF MemInv, EntriesOwn, EntryT
  <1>6. EntriesOwn'
    BY <1>4, <1>5 DEF MemInv, EntriesOwn
  <1>7. CallsOwn'
    BY <1>1, <1>4, <1>5 DEF MemInv, CallsOwn, Owns
  <1>8. NothingLost'
    BY <1>1, <1>4 DEF MemInv, NothingLost, Owns
  <1>9. LostIsNobodys'
    BY <1>1, <1>4 DEF MemInv, LostIsNobodys, Owns
  <1>10. DeadIsNothing'
    BY <1>4 DEF MemInv, DeadIsNothing
  <1>11. EntriesMatch'
    BY <1>4, <1>5 DEF MemInv, EntriesMatch
  <1>12. AddressesDiffer'
    <2>. SUFFICES ASSUME NEW a \in Mem, NEW b \in Mem,
                         (/\ Alive(a) /\ mem[a].eType # "LOCKED" /\ mem[a].va # NIL
                          /\ Alive(b) /\ mem[b].eType # "LOCKED" /\ mem[b].va = mem[a].va)'
                  PROVE  a = b
      BY DEF AddressesDiffer
    <2>1. CASE a # m /\ b # m
      BY <1>4, <2>1 DEF MemInv, AddressesDiffer
    <2>2. CASE (a = m /\ b # m) \/ (a # m /\ b = m)
      <3>1. \A c \in Mem : Alive(c) /\ mem[c].eType # "LOCKED" => mem[c].va \in Occupied
        BY DEF Occupied
      <3>. QED BY <1>4, <2>2, <3>1
    <2>. QED BY <2>1, <2>2
  <1>13. ClosedIsEmpty' /\ UsedCounted'
    BY <1>1 DEF MemInv, ClosedIsEmpty, UsedCounted, UsedSlots
  <1>. QED BY <1>3, <1>6, <1>7, <1>8, <1>9, <1>10, <1>11, <1>12, <1>13 DEF MemInv

(* A call that only moves on or finds an object, or maps the one it found. *)
LEMMA CallKeeps ==
    ASSUME MemInv, NEW t \in Thread,
           \/ NoSlot(t) \/ Protect(t) \/ MapKernel(t)
           \/ \E l \in {"map", "protect"}, S \in SUBSET Places :
                 /\ \A s \in S : Entry(s).MemObj \in Mem
                 /\ Find(t, l, S)
    PROVE  MemInv'
  <1>1. /\ UNCHANGED <<open, bundles, lost>>
        /\ pc' = [pc EXCEPT ![t] = pc'[t]] /\ ob' = [ob EXCEPT ![t] = ob'[t]]
        /\ \/ pc[t] = "add" /\ pc'[t] = "bundle" /\ ob'[t] = ob[t] /\ UNCHANGED mem
           \/ /\ pc[t] \in {"map", "protect"} /\ pc'[t] = "idle" /\ ob'[t] = NIL
              /\ \/ UNCHANGED mem
                 \/ /\ ob[t] \in Mem /\ Alive(ob[t]) /\ mem[ob[t]].maps < MaxMap
                    /\ mem' = [mem EXCEPT ![ob[t]].maps = @ + 1] /\ pc[t] = "map"
           \/ /\ pc[t] = "idle" /\ pc'[t] \in {"map", "protect"} /\ UNCHANGED mem /\ open
              /\ \E s \in Places : Entry(s).MemObj \in Mem /\ ob'[t] = Entry(s).MemObj
    <2>1. CASE NoSlot(t)
      BY <2>1 DEF NoSlot, Goto, MemInv, TypeOK
    <2>2. CASE Protect(t)
      BY <2>2 DEF Protect, Return, Goto, MemInv, TypeOK
    <2>3. CASE MapKernel(t)
      <3>1. ob[t] \in Mem \/ UNCHANGED mem
        BY <2>3 DEF MapKernel, MemInv, TypeOK, Alive
      <3>. QED BY <2>3, <3>1 DEF MapKernel, Return, Goto, MemInv, TypeOK
    <2>4. CASE \E l \in {"map", "protect"}, S \in SUBSET Places :
                 /\ \A s \in S : Entry(s).MemObj \in Mem
                 /\ Find(t, l, S)
      BY <2>4 DEF Find, CanCall, Goto, MemInv, TypeOK
    <2>. QED BY <2>1, <2>2, <2>3, <2>4
  <1>2. /\ Places' = Places /\ (\A s \in Places : Entry(s)' = Entry(s))
        /\ \A s \in Places : Entry(s).MemObj \in Mem \cup {NIL}
    BY <1>1, TypeShape, ShapeFacts DEF Places, Entry, MemInv, EntryT
  <1>3. /\ pc[t] \in {"idle", "add", "map", "protect"} /\ pc'[t] \in {"idle", "bundle", "map", "protect"}
        /\ \A u \in Thread \ {t} : pc'[u] = pc[u] /\ ob'[u] = ob[u]
        /\ pc' \in [Thread -> {"idle", "add", "bundle", "undo", "free", "object", "map", "protect"}]
        /\ ob' \in [Thread -> Mem \cup {NIL}]
    <2>1. pc[t] \in {"idle", "add", "map", "protect"} /\ pc'[t] \in {"idle", "bundle", "map", "protect"}
      BY <1>1
    <2>0. pc' = [pc EXCEPT ![t] = pc'[t]] /\ ob' = [ob EXCEPT ![t] = ob'[t]]
      BY <1>1
    <2>2. /\ \A u \in Thread \ {t} : pc'[u] = pc[u] /\ ob'[u] = ob[u]
          /\ pc' \in [Thread -> {"idle", "add", "bundle", "undo", "free", "object", "map", "protect"}]
      BY <2>0, <2>1 DEF MemInv, TypeOK
    <2>3. ob'[t] \in Mem \cup {NIL}
      BY <1>1 DEF MemInv, TypeOK
    <2>4. ob' \in [Thread -> Mem \cup {NIL}]
      BY <2>0, <2>3 DEF MemInv, TypeOK
    <2>. QED BY <2>1, <2>2, <2>4
  <1>4. /\ mem' \in [Mem -> [eType : Type \cup {"UNUSED"}, pv : Mem \cup Addr \cup {NIL},
                            va : Addr \cup {NIL}, maps : 0..MaxMap]]
        /\ \A m \in Mem : mem'[m].eType = mem[m].eType /\ mem'[m].pv = mem[m].pv /\ mem'[m].va = mem[m].va
        /\ \A m \in Mem : mem'[m] = mem[m] \/ (m = ob[t] /\ pc[t] = "map" /\ Alive(m))
    <2>1. CASE UNCHANGED mem
      BY <2>1 DEF MemInv, TypeOK
    <2>2. CASE ~UNCHANGED mem
      <3>1. /\ ob[t] \in Mem /\ Alive(ob[t]) /\ pc[t] = "map"
            /\ mem' = [mem EXCEPT ![ob[t]].maps = @ + 1]
            /\ mem[ob[t]].maps + 1 \in 0..MaxMap
        BY <1>1, <2>2, MemAssumption DEF MemInv, TypeOK
      <3>2. mem \in [Mem -> [eType : Type \cup {"UNUSED"}, pv : Mem \cup Addr \cup {NIL},
                            va : Addr \cup {NIL}, maps : 0..MaxMap]]
        BY DEF MemInv, TypeOK
      <3>. QED BY <3>1, <3>2
    <2>. QED BY <2>1, <2>2
  <1>5. \A m \in Mem : Alive(m)' <=> Alive(m)
    BY <1>4 DEF Alive
  <1>6. \A u \in Thread : Owns(u)' <=> Owns(u)
    BY <1>1, <1>3 DEF Owns
  <1>7. \A u \in Thread : Owns(u) => ob'[u] = ob[u]
    BY <1>1, <1>3 DEF Owns
  <1>8. TypeOK'
    BY <1>1, <1>3, <1>4 DEF MemInv, TypeOK
  <1>9. EntriesOwn'
    BY <1>2, <1>5, MemAssumption DEF MemInv, EntriesOwn
  <1>10. CallsOwn'
    BY <1>2, <1>5, <1>6, <1>7 DEF MemInv, CallsOwn
  <1>11. NothingLost'
    <2>1. lost' = lost
      BY <1>1
    <2>. QED BY <1>2, <1>5, <1>6, <1>7, <2>1 DEF MemInv, NothingLost
  <1>12. LostIsNobodys'
    <2>. SUFFICES ASSUME NEW n \in lost
                  PROVE  /\ n \in Mem /\ Alive(n)'
                         /\ \A s \in Places : Entry(s)'.MemObj # n
                         /\ \A u \in Thread : Owns(u)' => ob'[u] # n
      BY <1>1, <1>2 DEF LostIsNobodys
    <2>. QED BY <1>2, <1>5, <1>6, <1>7 DEF MemInv, LostIsNobodys
  <1>13. DeadIsNothing'
    BY <1>4, <1>5 DEF MemInv, DeadIsNothing
  <1>14. EntriesMatch' /\ AddressesDiffer'
    BY <1>2, <1>4, <1>5 DEF MemInv, EntriesMatch, AddressesDiffer
  <1>15. ClosedIsEmpty'
    BY <1>1, <1>3, <1>5 DEF MemInv, ClosedIsEmpty
  <1>16. UsedCounted'
    BY <1>1 DEF MemInv, UsedCounted, UsedSlots
  <1>. QED BY <1>8, <1>9, <1>10, <1>11, <1>12, <1>13, <1>14, <1>15, <1>16 DEF MemInv

(* Entry z tracks an object from now on, the other entries are what they   *)
(* were, in the same or another place, or unused.                          *)
Tracks(z, e) ==
    /\ z \in Places' /\ Entry(z)' = e
    /\ \A r \in Places' : r # z => Entry(r)' = Unused \/ \E q \in Places : Entry(r)' = Entry(q)
    /\ \A r, s \in Places' \ {z} :
          Entry(r)'.MemObj = Entry(s)'.MemObj /\ Entry(r)'.MemObj # NIL => r = s
    /\ \A q \in Places : Entry(q).MemObj # NIL => \E r \in Places' : Entry(r)' = Entry(q)

LEMMA AddKeeps ==
    ASSUME MemInv, NEW t \in Thread, pc[t] \in {"add", "bundle"}, Success(t),
           NEW z, Tracks(z, EntryOf(ob[t])), TypeOK', UsedCounted'
    PROVE  MemInv'
  <1>. DEFINE m == ob[t]
              e == EntryOf(ob[t])
  <1>1. /\ pc' = [pc EXCEPT ![t] = "idle"] /\ ob' = [ob EXCEPT ![t] = NIL]
        /\ UNCHANGED <<open, mem, lost>>
    BY DEF Success, Return, Goto
  <1>2. /\ m \in Mem /\ Alive(m) /\ NIL \notin Mem /\ Owns(t)
        /\ \A s \in Places : Entry(s).MemObj # m
        /\ \A u \in Thread : Owns(u) /\ ob[u] = m => u = t
    BY MemAssumption DEF MemInv, CallsOwn, Owns
  <1>3. /\ e.MemObj = m /\ e.eType # "UNUSED"
        /\ e.MapObjR3 => mem[m].eType # "LOCKED" /\ mem[m].va # NIL
    BY <1>2 DEF EntryOf, Alive
  <1>4. /\ \A u \in Thread : Owns(u)' <=> Owns(u) /\ u # t
        /\ \A u \in Thread : u # t => ob'[u] = ob[u] /\ pc'[u] = pc[u]
        /\ \A n : Alive(n)' <=> Alive(n)
        /\ pc'[t] = "idle" /\ ob'[t] = NIL
    BY <1>1 DEF MemInv, TypeOK, Owns, Alive
  <1>5. /\ z \in Places' /\ Entry(z)' = e
        /\ \A r \in Places' : r # z => Entry(r)' = Unused \/ \E q \in Places : Entry(r)' = Entry(q)
        /\ \A r, s \in Places' \ {z} :
              Entry(r)'.MemObj = Entry(s)'.MemObj /\ Entry(r)'.MemObj # NIL => r = s
        /\ \A q \in Places : Entry(q).MemObj # NIL => \E r \in Places' : Entry(r)' = Entry(q)
    BY DEF Tracks
  <1>6. Unused.MemObj = NIL /\ Unused.MapObjR3 = FALSE /\ Unused.eType = "UNUSED"
    BY DEF Unused
  <1>. HIDE DEF m, e
  <1>7. \A r \in Places' : r # z => Entry(r)'.MemObj # m
    BY <1>2, <1>5, <1>6
  <1>8. EntriesOwn'
    <2>1. \A r \in Places' : Entry(r)'.MemObj # NIL => Alive(Entry(r)'.MemObj)
      BY <1>2, <1>3, <1>5, <1>6 DEF MemInv, EntriesOwn
    <2>2. \A r, s \in Places' : Entry(r)'.MemObj = Entry(s)'.MemObj /\ Entry(r)'.MemObj # NIL => r = s
      BY <1>3, <1>5, <1>7
    <2>. QED BY <1>4, <2>1, <2>2 DEF EntriesOwn
  <1>9. CallsOwn'
    <2>. SUFFICES ASSUME NEW u \in Thread, Owns(u)'
                  PROVE  /\ ob'[u] \in Mem /\ Alive(ob[u])'
                         /\ \A s \in Places' : Entry(s)'.MemObj # ob'[u]
                         /\ \A v \in Thread : Owns(v)' /\ ob'[v] = ob'[u] => v = u
      BY DEF CallsOwn
    <2>1. u # t /\ Owns(u) /\ ob'[u] = ob[u]
      BY <1>4
    <2>2. /\ ob[u] \in Mem /\ Alive(ob[u]) /\ ob[u] # m
          /\ \A s \in Places : Entry(s).MemObj # ob[u]
          /\ \A v \in Thread : Owns(v) /\ ob[v] = ob[u] => v = u
      BY <1>2, <2>1 DEF MemInv, CallsOwn
    <2>3. \A s \in Places' : Entry(s)'.MemObj # ob[u]
      BY <1>2, <1>3, <1>5, <1>6, <2>2
    <2>4. Alive(ob[u])'
      BY <1>1, <2>1, <2>2 DEF Alive
    <2>. QED BY <1>4, <2>1, <2>2, <2>3, <2>4
  <1>10. NothingLost'
    <2>. SUFFICES ASSUME NEW n \in Mem, Alive(n), n \notin lost
                  PROVE  \/ \E s \in Places' : Entry(s)'.MemObj = n
                         \/ \E u \in Thread : Owns(u)' /\ ob'[u] = n
      BY <1>1, <1>4 DEF NothingLost
    <2>1. CASE n = m
      BY <1>3, <1>5, <2>1
    <2>2. CASE n # m /\ \E s \in Places : Entry(s).MemObj = n
      BY <1>2, <1>5, <2>2
    <2>3. CASE n # m /\ \E u \in Thread : Owns(u) /\ ob[u] = n
      BY <1>4, <2>3 DEF m
    <2>. QED BY <2>1, <2>2, <2>3 DEF MemInv, NothingLost
  <1>11. LostIsNobodys'
    <2>. SUFFICES ASSUME NEW n \in lost
                  PROVE  /\ n \in Mem /\ Alive(n)'
                         /\ \A r \in Places' : Entry(r)'.MemObj # n
                         /\ \A u \in Thread : Owns(u)' => ob'[u] # n
      BY <1>1 DEF LostIsNobodys
    <2>1. /\ n \in Mem /\ Alive(n) /\ n # m /\ n # NIL
          /\ \A q \in Places : Entry(q).MemObj # n
          /\ \A u \in Thread : Owns(u) => ob[u] # n
      BY <1>2 DEF MemInv, LostIsNobodys, m
    <2>2. \A r \in Places' : Entry(r)'.MemObj # n
      BY <1>3, <1>5, <1>6, <2>1
    <2>. QED BY <1>4, <2>1, <2>2
  <1>12. DeadIsNothing' /\ AddressesDiffer' /\ ClosedIsEmpty'
    BY <1>1, <1>4 DEF MemInv, DeadIsNothing, AddressesDiffer, ClosedIsEmpty
  <1>13. EntriesMatch'
    <2>. SUFFICES ASSUME NEW r \in Places'
                  PROVE  /\ Entry(r)'.eType # "UNUSED" => Entry(r)'.MemObj # NIL
                         /\ Entry(r)'.MapObjR3 =>
                              /\ Entry(r)'.MemObj \in Mem
                              /\ mem[Entry(r)'.MemObj].eType # "LOCKED" /\ mem[Entry(r)'.MemObj].va # NIL
      BY <1>1 DEF EntriesMatch
    <2>1. CASE r = z
      BY <1>2, <1>3, <1>5, <2>1
    <2>2. CASE r # z
      BY <1>5, <1>6, <2>2 DEF MemInv, EntriesMatch
    <2>. QED BY <2>1, <2>2
  <1>. QED BY <1>8, <1>9, <1>10, <1>11, <1>12, <1>13 DEF MemInv

LEMMA TrackingEntry ==
    ASSUME MemInv, NEW t \in Thread, pc[t] \in {"add", "bundle"}
    PROVE  EntryOf(ob[t]) \in EntryT /\ EntryOf(ob[t]).MemObj # NIL
  <1>1. ob[t] \in Mem /\ ob[t] # NIL /\ mem[ob[t]].eType \in Type \cup {"UNUSED"}
    BY MemAssumption DEF MemInv, CallsOwn, Owns, TypeOK
  <1>. QED BY <1>1 DEF EntryOf, EntryT

(* TypeOK' of a step that changes the list of bundles and one call. *)
LEMMA TypeKept ==
    ASSUME TypeOK, Shape', NEW t \in Thread, open' \in BOOLEAN,
           UNCHANGED <<mem, lost>>,
           NEW l \in {"idle", "add", "bundle", "free", "map", "protect"}, NEW m \in Mem \cup {NIL},
           Goto(t, l, m)
    PROVE  TypeOK'
  BY DEF TypeOK, Shape, Bundle, EntryT, Goto

LEMMA AddToBundleKeeps ==
    ASSUME MemInv, NEW t \in Thread, AddToBundle(t)
    PROVE  MemInv'
  <1>. DEFINE e == EntryOf(ob[t])
  <1>1. PICK z \in Slot :
          bundles' = [bundles EXCEPT ![z[1]].cUsed = @ + 1, ![z[1]].aMem[z[2]] = e]
    BY DEF AddToBundle
  <1>2. pc[t] = "add" /\ Success(t) /\ Shape /\ UsedCounted
    BY TypeShape DEF AddToBundle, MemInv
  <1>3. z \in Places /\ HasRoom(z[1]) /\ Entry(z).MemObj = NIL
    BY <1>1 DEF Slot, FreeSlots, Entry
  <1>4. e \in EntryT /\ e.MemObj # NIL
    BY <1>2, TrackingEntry
  <1>. HIDE DEF e
  <1>5. Becomes(z, e, 1)
    <2>1. /\ Shape' /\ DOMAIN bundles' = DOMAIN bundles /\ Places' = Places
          /\ \A r \in Places : Entry(r)' = IF r = z THEN e ELSE Entry(r)
          /\ \A c \in DOMAIN bundles : bundles'[c].cUsed =
                IF c = z[1] THEN bundles[c].cUsed + 1 ELSE bundles[c].cUsed
      BY <1>1, <1>2, <1>3, <1>4, EntryTaken
    <2>. QED BY <2>1 DEF Becomes
  <1>6. UsedCounted'
    BY <1>2, <1>3, <1>4, <1>5, CountedOnTake
  <1>7. TypeOK'
    BY <1>2, <1>5, TypeKept DEF MemInv, TypeOK, Success, Return, Becomes
  <1>8. Tracks(z, e)
    BY <1>3, <1>5 DEF Becomes, Tracks, MemInv, EntriesOwn
  <1>. QED BY <1>2, <1>6, <1>7, <1>8, AddKeeps DEF e

LEMMA AddBundleKeeps ==
    ASSUME MemInv, NEW t \in Thread, AddBundle(t)
    PROVE  MemInv'
  <1>. DEFINE e == EntryOf(ob[t])
              new == [cUsed |-> 1, aMem |-> [i \in 1..Entries |-> IF i = Entries THEN e ELSE Unused]]
              z == <<2, Entries>>
  <1>1. pc[t] = "bundle" /\ Success(t) /\ Shape /\ UsedCounted /\ Len(bundles) < MaxBundle
    BY TypeShape DEF AddBundle, MemInv
  <1>2. e \in EntryT /\ e.MemObj # NIL /\ Unused \in EntryT /\ Unused.MemObj = NIL
    BY <1>1, TrackingEntry DEF Unused, EntryT
  <1>3. bundles' = <<Head(bundles), new>> \o Tail(bundles)
    <2>1. [EmptyBundle EXCEPT !.cUsed = 1, !.aMem[Entries] = e] = new
      <3>. DEFINE f == [i \in 1..Entries |-> Unused]
                  r == [cUsed |-> 1, aMem |-> f]
      <3>1. [EmptyBundle EXCEPT !.cUsed = 1] = r
        <4>1. EmptyBundle = [cUsed |-> 0, aMem |-> f]
          BY DEF EmptyBundle
        <4>. HIDE DEF f
        <4>. QED BY <4>1
      <3>2. [f EXCEPT ![Entries] = e] = new.aMem
        BY MemAssumption
      <3>3. [r EXCEPT !.aMem = [r.aMem EXCEPT ![Entries] = e]] = [cUsed |-> 1, aMem |-> [f EXCEPT ![Entries] = e]]
        <4>. HIDE DEF f
        <4>. QED OBVIOUS
      <3>. HIDE DEF r, f
      <3>. QED BY <3>1, <3>2, <3>3
    <2>. QED BY <2>1 DEF AddBundle
  <1>4. new \in Bundle /\ new.cUsed = 1 /\ Entries \in 1..Entries
        /\ \A i \in 1..Entries : new.aMem[i] = IF i = Entries THEN e ELSE Unused
    BY <1>2, MemAssumption DEF Bundle
  <1>. HIDE DEF e, new
  <1>5. /\ Shape'
        /\ \A b \in DOMAIN bundles' :
             bundles'[b] = IF b = 2 THEN new
                           ELSE IF b = 1 THEN bundles[1] ELSE bundles[b - 1]
        /\ \A s \in Places : Moved(s) \in Places' /\ Entry(Moved(s))' = Entry(s)
        /\ \A i \in 1..Entries : <<2, i>> \in Places' /\ Entry(<<2, i>>)' = new.aMem[i]
        /\ \A r \in Places' : (\E s \in Places : r = Moved(s)) \/ \E i \in 1..Entries : r = <<2, i>>
    BY <1>1, <1>3, <1>4, BundleLinked
  <1>6. TypeOK'
    BY <1>1, <1>5, TypeKept DEF MemInv, TypeOK, Success, Return
  <1>7. UsedCounted'
    <2>. SUFFICES ASSUME NEW b \in DOMAIN bundles'
                  PROVE  Cardinality(UsedSlots(b)') <= bundles'[b].cUsed
      BY DEF UsedCounted
    <2>1. /\ b \in Nat \ {0} /\ 1 \in DOMAIN bundles /\ (b > 1 => b - 1 \in DOMAIN bundles)
      <3>1. /\ DOMAIN bundles = 1 .. Len(bundles) /\ Len(bundles) \in Nat \ {0}
            /\ DOMAIN bundles' = 1 .. Len(bundles')
        BY <1>1, <1>5, ShapeFacts, LenProperties DEF Shape
      <3>2. Len(bundles') = Len(bundles) + 1
        <4>1. /\ Tail(bundles) \in Seq(Bundle) /\ Len(Tail(bundles)) = Len(bundles) - 1
              /\ Head(bundles) \in Bundle
          BY <1>1, <3>1, HeadTailProperties DEF Shape
        <4>2. <<Head(bundles), new>> \in Seq(Bundle) /\ Len(<<Head(bundles), new>>) = 2
          BY <1>4, <4>1
        <4>3. Len(<<Head(bundles), new>> \o Tail(bundles)) = Len(<<Head(bundles), new>>) + Len(Tail(bundles))
          BY <4>1, <4>2, ConcatProperties, Zenon
        <4>. QED BY <1>3, <3>1, <4>1, <4>2, <4>3
      <3>. QED BY <3>1, <3>2
    <2>2. CASE b = 2
      <3>1. UsedSlots(b)' = {Entries}
        BY <1>2, <1>4, <1>5, <2>2 DEF UsedSlots
      <3>2. Cardinality({Entries}) = 1
        BY FS_Singleton
      <3>3. bundles'[b].cUsed = 1
        BY <1>4, <1>5, <2>2
      <3>. QED BY <3>1, <3>2, <3>3
    <2>3. CASE b = 1
      <3>1. UsedSlots(b)' = UsedSlots(1)
        BY <1>5, <2>3 DEF UsedSlots
      <3>. QED BY <1>1, <1>5, <2>1, <2>3, <3>1 DEF UsedCounted
    <2>4. CASE b > 2
      <3>1. UsedSlots(b)' = UsedSlots(b - 1)
        BY <1>5, <2>1, <2>4 DEF UsedSlots
      <3>. QED BY <1>1, <1>5, <2>1, <2>4, <3>1 DEF UsedCounted
    <2>. QED BY <2>1, <2>2, <2>3, <2>4
  <1>8. Tracks(z, e)
    <2>1. z \in Places' /\ Entry(z)' = e
      BY <1>4, <1>5
    <2>2. \A r \in Places' \ {z} :
             \/ Entry(r)' = Unused
             \/ \E q \in Places : r = Moved(q) /\ Entry(r)' = Entry(q)
      BY <1>4, <1>5
    <2>3. ASSUME NEW r \in Places' \ {z}, NEW s \in Places' \ {z},
                 Entry(r)'.MemObj = Entry(s)'.MemObj, Entry(r)'.MemObj # NIL
          PROVE  r = s
      <3>1. PICK q \in Places : r = Moved(q) /\ Entry(r)' = Entry(q)
        BY <1>2, <2>2, <2>3
      <3>2. PICK p \in Places : s = Moved(p) /\ Entry(s)' = Entry(p)
        BY <1>2, <2>2, <2>3
      <3>. QED BY <2>3, <3>1, <3>2 DEF MemInv, EntriesOwn
    <2>4. \A q \in Places : Entry(q).MemObj # NIL => \E r \in Places' : Entry(r)' = Entry(q)
      BY <1>5
    <2>. QED BY <2>1, <2>2, <2>3, <2>4 DEF Tracks
  <1>. HIDE DEF z
  <1>. QED BY <1>1, <1>6, <1>7, <1>8, AddKeeps DEF e

(* A call that frees the object it owns, because it could not be tracked   *)
(* or is tracked no more.                                                  *)
LEMMA FreeKeeps ==
    ASSUME MemInv, NEW t \in Thread, pc[t] \in {"undo", "object"}, Return(t),
           mem' = [mem EXCEPT ![ob[t]] = NoMem], UNCHANGED <<open, bundles, lost>>
    PROVE  MemInv'
  <1>. DEFINE m == ob[t]
  <1>1. /\ m \in Mem /\ Alive(m) /\ NIL \notin Mem /\ Owns(t)
        /\ \A s \in Places : Entry(s).MemObj # m
        /\ \A u \in Thread : Owns(u) /\ ob[u] = m => u = t
    BY MemAssumption DEF MemInv, CallsOwn, Owns
  <1>2. /\ \A n \in Mem : mem'[n] = IF n = m THEN NoMem ELSE mem[n]
        /\ \A u \in Thread : pc'[u] = IF u = t THEN "idle" ELSE pc[u]
        /\ \A u \in Thread : ob'[u] = IF u = t THEN NIL ELSE ob[u]
        /\ Places' = Places /\ (\A s \in Places : Entry(s)' = Entry(s))
        /\ NoMem.eType = "UNUSED"
    BY <1>1 DEF MemInv, TypeOK, Places, Entry, Return, Goto, NoMem
  <1>3. /\ \A n \in Mem : Alive(n)' <=> Alive(n) /\ n # m
        /\ \A u \in Thread : Owns(u)' <=> Owns(u) /\ u # t
    BY <1>2 DEF Alive, Owns
  <1>4. \A s \in Places : Entry(s).MemObj \in Mem \cup {NIL}
    BY TypeShape, ShapeFacts DEF MemInv, EntryT
  <1>5. TypeOK'
    <2>1. /\ mem \in [Mem -> [eType : Type \cup {"UNUSED"}, pv : Mem \cup Addr \cup {NIL},
                              va : Addr \cup {NIL}, maps : 0..MaxMap]]
          /\ NoMem \in [eType : Type \cup {"UNUSED"}, pv : Mem \cup Addr \cup {NIL},
                        va : Addr \cup {NIL}, maps : 0..MaxMap]
      BY MemAssumption DEF MemInv, TypeOK, NoMem
    <2>2. mem' \in [Mem -> [eType : Type \cup {"UNUSED"}, pv : Mem \cup Addr \cup {NIL},
                              va : Addr \cup {NIL}, maps : 0..MaxMap]]
      BY <2>1
    <2>. QED BY <2>2 DEF MemInv, TypeOK, Return, Goto
  <1>. HIDE DEF m
  <1>6. EntriesOwn'
    BY <1>1, <1>2, <1>3, <1>4 DEF MemInv, EntriesOwn
  <1>7. CallsOwn'
    <2>. SUFFICES ASSUME NEW u \in Thread, Owns(u)'
                  PROVE  /\ ob'[u] \in Mem /\ Alive(ob[u])'
                         /\ \A s \in Places' : Entry(s)'.MemObj # ob'[u]
                         /\ \A v \in Thread : Owns(v)' /\ ob'[v] = ob'[u] => v = u
      BY DEF CallsOwn
    <2>1. u # t /\ Owns(u) /\ ob'[u] = ob[u]
      BY <1>2, <1>3
    <2>2. /\ ob[u] \in Mem /\ Alive(ob[u]) /\ ob[u] # m
          /\ \A s \in Places : Entry(s).MemObj # ob[u]
          /\ \A v \in Thread : Owns(v) /\ ob[v] = ob[u] => v = u
      BY <1>1, <2>1 DEF MemInv, CallsOwn
    <2>3. Alive(ob[u])'
      BY <1>2, <2>1, <2>2 DEF Alive
    <2>. QED BY <1>2, <1>3, <2>1, <2>2, <2>3
  <1>8. NothingLost'
    BY <1>2, <1>3, <1>4 DEF MemInv, NothingLost, m
  <1>9. LostIsNobodys'
    BY <1>1, <1>2, <1>3 DEF MemInv, LostIsNobodys, m
  <1>10. DeadIsNothing' /\ AddressesDiffer'
    BY <1>2, <1>3 DEF MemInv, DeadIsNothing, AddressesDiffer
  <1>11. EntriesMatch'
    BY <1>1, <1>2 DEF MemInv, EntriesMatch
  <1>12. ClosedIsEmpty' /\ UsedCounted'
    BY <1>2, <1>3 DEF MemInv, ClosedIsEmpty, UsedCounted, UsedSlots
  <1>. QED BY <1>5, <1>6, <1>7, <1>8, <1>9, <1>10, <1>11, <1>12 DEF MemInv

(* A call that frees the ring-3 mapping of the object it owns. *)
LEMMA UnmapKeeps ==
    ASSUME MemInv, NEW t \in Thread, AddFails(t) \/ MemUnmap(t)
    PROVE  MemInv'
  <1>. DEFINE m == ob[t]
              T == [eType : Type \cup {"UNUSED"}, pv : Mem \cup Addr \cup {NIL},
                    va : Addr \cup {NIL}, maps : 0..MaxMap]
              va == IF mem[m].eType = "LOCKED" THEN mem[m].va ELSE NIL
  <1>1. /\ pc[t] \in {"bundle", "free"} /\ UNCHANGED <<open, bundles, lost>>
        /\ mem' = [mem EXCEPT ![m].va = va]
        /\ \E l \in {"undo", "object"} : pc' = [pc EXCEPT ![t] = l]
        /\ ob' = ob
    <2>1. Unmap(t) => mem' = [mem EXCEPT ![m].va = va]
      BY DEF Unmap
    <2>2. ASSUME NEW l, Goto(t, l, ob[t])
          PROVE  pc' = [pc EXCEPT ![t] = l] /\ ob' = ob
      BY <2>2 DEF Goto, MemInv, TypeOK
    <2>. HIDE DEF va
    <2>. QED BY <2>1, <2>2 DEF AddFails, MemUnmap
  <1>2. /\ m \in Mem /\ Alive(m) /\ Owns(t)
        /\ \A s \in Places : Entry(s).MemObj # m
    BY <1>1 DEF MemInv, CallsOwn, Owns
  <1>3. mem \in [Mem -> T] /\ va \in Addr \cup {NIL}
    BY <1>2 DEF MemInv, TypeOK
  <1>4. /\ mem' \in [Mem -> T]
        /\ \A n \in Mem : n # m => mem'[n] = mem[n]
        /\ \A n \in Mem : mem'[n].eType = mem[n].eType
        /\ mem'[m].va = va
    <2>. HIDE DEF va
    <2>. QED BY <1>1, <1>2, <1>3
  <1>5. /\ Places' = Places /\ (\A s \in Places : Entry(s)' = Entry(s))
        /\ \A s \in Places : Entry(s).MemObj \in Mem \cup {NIL}
    BY <1>1, TypeShape, ShapeFacts DEF Places, Entry, MemInv, EntryT
  <1>6. /\ \A n \in Mem : Alive(n)' <=> Alive(n)
        /\ \A u \in Thread : Owns(u)' <=> Owns(u)
    BY <1>1, <1>4 DEF Alive, Owns, MemInv, TypeOK
  <1>7. TypeOK'
    BY <1>1, <1>4 DEF MemInv, TypeOK
  <1>. HIDE DEF m
  <1>8. EntriesOwn' /\ CallsOwn' /\ NothingLost' /\ LostIsNobodys'
    <2>1. EntriesOwn'
      BY <1>5, <1>6, MemAssumption DEF MemInv, EntriesOwn
    <2>2. CallsOwn'
      BY <1>1, <1>5, <1>6 DEF MemInv, CallsOwn
    <2>3. NothingLost'
      BY <1>1, <1>5, <1>6 DEF MemInv, NothingLost
    <2>4. LostIsNobodys'
      BY <1>1, <1>5, <1>6 DEF MemInv, LostIsNobodys
    <2>. QED BY <2>1, <2>2, <2>3, <2>4
  <1>9. DeadIsNothing'
    BY <1>2, <1>4, <1>6 DEF MemInv, DeadIsNothing
  <1>10. EntriesMatch'
    BY <1>2, <1>4, <1>5 DEF MemInv, EntriesMatch
  <1>11. AddressesDiffer'
    <2>. SUFFICES ASSUME NEW a \in Mem, NEW b \in Mem,
                         (/\ Alive(a) /\ mem[a].eType # "LOCKED" /\ mem[a].va # NIL
                          /\ Alive(b) /\ mem[b].eType # "LOCKED" /\ mem[b].va = mem[a].va)'
                  PROVE  a = b
      BY DEF AddressesDiffer
    <2>1. a # m /\ b # m
      BY <1>4
    <2>. QED BY <1>4, <1>6, <2>1 DEF MemInv, AddressesDiffer
  <1>12. ClosedIsEmpty' /\ UsedCounted'
    <2>1. open
      BY <1>1 DEF MemInv, ClosedIsEmpty
    <2>. QED BY <1>1, <2>1 DEF MemInv, ClosedIsEmpty, UsedCounted, UsedSlots
  <1>. QED BY <1>7, <1>8, <1>9, <1>10, <1>11, <1>12 DEF MemInv

(* A call that gives up an object it cannot free. *)
LEMMA LoseKeeps ==
    ASSUME MemInv, NEW t \in Thread, pc[t] = "undo", Return(t),
           lost' = lost \cup {ob[t]}, UNCHANGED <<open, bundles, mem>>
    PROVE  MemInv'
  <1>. DEFINE m == ob[t]
  <1>1. /\ m \in Mem /\ Alive(m) /\ Owns(t)
        /\ \A s \in Places : Entry(s).MemObj # m
        /\ \A u \in Thread : Owns(u) /\ ob[u] = m => u = t
    BY DEF MemInv, CallsOwn, Owns
  <1>2. /\ \A u \in Thread : pc'[u] = IF u = t THEN "idle" ELSE pc[u]
        /\ \A u \in Thread : ob'[u] = IF u = t THEN NIL ELSE ob[u]
        /\ Places' = Places /\ (\A s \in Places : Entry(s)' = Entry(s))
        /\ \A n : Alive(n)' <=> Alive(n)
    BY DEF MemInv, TypeOK, Places, Entry, Alive, Return, Goto
  <1>3. \A u \in Thread : Owns(u)' <=> Owns(u) /\ u # t
    BY <1>2 DEF Owns
  <1>4. TypeOK'
    BY <1>1 DEF MemInv, TypeOK, Return, Goto
  <1>. HIDE DEF m
  <1>5. EntriesOwn' /\ EntriesMatch'
    BY <1>2 DEF MemInv, EntriesOwn, EntriesMatch
  <1>6. CallsOwn'
    BY <1>2, <1>3 DEF MemInv, CallsOwn
  <1>7. NothingLost'
    BY <1>2, <1>3 DEF MemInv, NothingLost, m
  <1>8. LostIsNobodys'
    BY <1>1, <1>2, <1>3 DEF MemInv, LostIsNobodys, m
  <1>9. DeadIsNothing' /\ AddressesDiffer' /\ ClosedIsEmpty' /\ UsedCounted'
    BY <1>2 DEF MemInv, DeadIsNothing, AddressesDiffer, ClosedIsEmpty, UsedCounted, UsedSlots
  <1>. QED BY <1>4, <1>5, <1>6, <1>7, <1>8, <1>9 DEF MemInv

(* The matching entry is cleared; the call owns what it named.             *)
LEMMA ReleaseKeeps ==
    ASSUME MemInv, NEW t \in Thread, NEW p, NEW k \in Type, MemRelease(t, p, k)
    PROVE  MemInv'
  <1>1. PICK z \in Places :
          /\ Matches(Entry(z), p, k)
          /\ bundles' = [bundles EXCEPT ![z[1]].aMem[z[2]] = Unused]
          /\ Goto(t, "free", Entry(z).MemObj)
    BY DEF MemRelease
  <1>. DEFINE m == Entry(z).MemObj
  <1>2. open /\ pc[t] = "idle" /\ UNCHANGED <<open, mem, lost>> /\ Shape /\ UsedCounted
    BY TypeShape DEF MemRelease, CanCall, MemInv
  <1>3. m \in Mem /\ NIL \notin Mem /\ Unused \in EntryT /\ Unused.MemObj = NIL /\ Alive(m)
    <2>1. m # NIL /\ m \in Mem \cup {NIL} /\ NIL \notin Mem
      BY <1>1, <1>2, ShapeFacts, MemAssumption DEF Matches, EntryT
    <2>. QED BY <2>1 DEF Unused, EntryT, MemInv, EntriesOwn
  <1>4. Becomes(z, Unused, 0)
    <2>1. /\ Shape' /\ DOMAIN bundles' = DOMAIN bundles /\ Places' = Places
          /\ \A r \in Places : Entry(r)' = IF r = z THEN Unused ELSE Entry(r)
          /\ \A c \in DOMAIN bundles : bundles'[c].cUsed = bundles[c].cUsed
      BY <1>1, <1>2, EntryCleared
    <2>2. \A c \in DOMAIN bundles : bundles[c].cUsed \in Nat
      BY <1>2, ShapeFacts, MemAssumption DEF Bundle
    <2>. QED BY <2>1, <2>2 DEF Becomes
  <1>5. UsedCounted'
    BY <1>2, <1>3, <1>4, CountedOnTake
  <1>6. TypeOK'
    BY <1>1, <1>2, <1>3, <1>4, TypeKept DEF MemInv, TypeOK, Becomes
  <1>7. /\ Places' = Places
        /\ \A r \in Places : Entry(r)' = IF r = z THEN Unused ELSE Entry(r)
        /\ \A r \in Places : r # z => Entry(r).MemObj # m
        /\ \A u \in Thread : pc'[u] = IF u = t THEN "free" ELSE pc[u]
        /\ \A u \in Thread : ob'[u] = IF u = t THEN m ELSE ob[u]
        /\ \A n : Alive(n)' <=> Alive(n)
    BY <1>1, <1>2, <1>3, <1>4 DEF Becomes, MemInv, TypeOK, EntriesOwn, Alive, Goto
  <1>8. \A u \in Thread : Owns(u)' <=> Owns(u) \/ u = t
    BY <1>7 DEF Owns
  <1>9. \A u \in Thread : Owns(u) => ob[u] # m /\ u # t
    BY <1>2 DEF MemInv, CallsOwn, Owns
  <1>10. Unused.MapObjR3 = FALSE /\ Unused.eType = "UNUSED"
    BY DEF Unused
  <1>. HIDE DEF m
  <1>11. EntriesOwn' /\ EntriesMatch'
    BY <1>2, <1>3, <1>7, <1>10 DEF MemInv, EntriesOwn, EntriesMatch
  <1>12. CallsOwn'
    <2>. SUFFICES ASSUME NEW u \in Thread, Owns(u)'
                  PROVE  /\ ob'[u] \in Mem /\ Alive(ob'[u])
                         /\ \A s \in Places : Entry(s)'.MemObj # ob'[u]
                         /\ \A v \in Thread : Owns(v)' /\ ob'[v] = ob'[u] => v = u
      BY <1>2, <1>7 DEF CallsOwn, Alive
    <2>1. CASE u = t
      BY <1>3, <1>7, <1>8, <1>9, <2>1
    <2>2. CASE u # t
      <3>1. /\ Owns(u) /\ ob[u] # m /\ ob[u] \in Mem /\ Alive(ob[u])
            /\ \A s \in Places : Entry(s).MemObj # ob[u]
            /\ \A v \in Thread : Owns(v) /\ ob[v] = ob[u] => v = u
        BY <1>8, <1>9, <2>2 DEF MemInv, CallsOwn
      <3>. QED BY <1>3, <1>7, <1>8, <2>2, <3>1
    <2>. QED BY <2>1, <2>2
  <1>13. NothingLost'
    <2>. SUFFICES ASSUME NEW n \in Mem, Alive(n), n \notin lost
                  PROVE  \/ \E s \in Places : Entry(s)'.MemObj = n
                         \/ \E u \in Thread : Owns(u)' /\ ob'[u] = n
      BY <1>2, <1>7 DEF NothingLost
    <2>1. CASE n = m
      BY <1>7, <1>8, <2>1
    <2>2. CASE n # m
      <3>1. \A s \in Places : Entry(s).MemObj = n => s # z
        BY <2>2 DEF m
      <3>2. \A u \in Thread : Owns(u) /\ ob[u] = n => Owns(u)' /\ ob'[u] = n
        BY <1>7, <1>8, <1>9
      <3>. QED BY <1>7, <3>1, <3>2 DEF MemInv, NothingLost
    <2>. QED BY <2>1, <2>2
  <1>14. LostIsNobodys'
    BY <1>2, <1>3, <1>7, <1>8, <1>9 DEF MemInv, LostIsNobodys, m
  <1>15. DeadIsNothing' /\ AddressesDiffer' /\ ClosedIsEmpty'
    BY <1>2, <1>7 DEF MemInv, DeadIsNothing, AddressesDiffer, ClosedIsEmpty
  <1>. QED BY <1>5, <1>6, <1>11, <1>12, <1>13, <1>14, <1>15 DEF MemInv

-----------------------------------------------------------------------------
(* The session opens and is cleaned up.                                    *)
LEMMA FreshBundles ==
    ASSUME bundles' = <<EmptyBundle>>
    PROVE  Shape' /\ UsedCounted' /\ \A s \in Places' : Entry(s)' = Unused
  <1>1. EmptyBundle \in Bundle /\ EmptyBundle.cUsed = 0
        /\ \A i \in 1..Entries : EmptyBundle.aMem[i] = Unused
    BY MemAssumption DEF EmptyBundle, Bundle, EntryT, Unused
  <1>2. Shape' /\ DOMAIN bundles' = {1} /\ bundles'[1] = EmptyBundle
    BY <1>1, MemAssumption DEF Shape
  <1>3. \A s \in Places' : Entry(s)' = Unused
    BY <1>1, <1>2 DEF Places, Entry
  <1>4. UsedCounted'
    <2>1. UsedSlots(1)' = {}
      BY <1>1, <1>2 DEF UsedSlots, Unused
    <2>2. Cardinality({}) = 0
      BY FS_EmptySet
    <2>. QED BY <1>1, <1>2, <2>1, <2>2 DEF UsedCounted
  <1>. QED BY <1>2, <1>3, <1>4

(* No entry is in use, no call is under way, and no object exists that has *)
(* not been lost.                                                          *)
LEMMA NothingThere ==
    ASSUME TypeOK', \A s \in Places' : Entry(s)' = Unused, UsedCounted',
           \A t \in Thread : pc'[t] = "idle", \A m \in lost' : Alive(m)',
           \A m \in Mem : m \notin lost' => mem'[m] = NoMem, AddressesDiffer'
    PROVE  MemInv'
  <1>1. /\ Unused.MemObj = NIL /\ Unused.eType = "UNUSED" /\ Unused.MapObjR3 = FALSE
        /\ NoMem.eType = "UNUSED"
    BY DEF Unused, NoMem
  <1>2. \A m \in Mem : Alive(m)' => m \in lost'
    BY <1>1 DEF Alive
  <1>3. \A t \in Thread : ~Owns(t)'
    BY DEF Owns
  <1>4. EntriesOwn' /\ EntriesMatch'
    BY <1>1 DEF EntriesOwn, EntriesMatch
  <1>5. CallsOwn' /\ NothingLost' /\ DeadIsNothing' /\ ClosedIsEmpty'
    BY <1>2, <1>3 DEF CallsOwn, NothingLost, DeadIsNothing, ClosedIsEmpty
  <1>6. LostIsNobodys'
    BY <1>1, <1>3, MemAssumption DEF LostIsNobodys, TypeOK
  <1>. QED BY <1>4, <1>5, <1>6 DEF MemInv

LEMMA SessionKeeps ==
    ASSUME MemInv, OpenSession \/ CleanupSession
    PROVE  MemInv'
  <1>1. bundles' = <<EmptyBundle>> /\ UNCHANGED <<lost, pc, ob>> /\ open' \in BOOLEAN
    BY DEF OpenSession, CleanupSession
  <1>2. Shape' /\ UsedCounted' /\ \A s \in Places' : Entry(s)' = Unused
    BY <1>1, FreshBundles
  <1>3. \A t \in Thread : pc'[t] = "idle"
    BY <1>1 DEF OpenSession, CleanupSession, MemInv, ClosedIsEmpty
  <1>4. /\ \A m \in Mem : m \notin lost => mem'[m] = NoMem
        /\ \A m \in lost : mem'[m] = mem[m]
        /\ \A m \in Mem : mem'[m] \in {NoMem, mem[m]}
        /\ mem' = [m \in Mem |-> mem'[m]]
    <2>1. CASE OpenSession
      BY <2>1 DEF OpenSession, MemInv, TypeOK, ClosedIsEmpty, DeadIsNothing
    <2>2. CASE CleanupSession
      <3>1. \A m \in Mem : Alive(m) /\ m \notin lost => m \in Released
        BY <2>2, MemAssumption DEF CleanupSession, Released, MemInv, NothingLost, Owns
      <3>2. \A m \in lost : m \in Mem /\ m \notin Released
        BY DEF MemInv, LostIsNobodys, Released
      <3>. QED BY <2>2, <3>1, <3>2 DEF CleanupSession, MemInv, DeadIsNothing
    <2>. QED BY <2>1, <2>2
  <1>5. TypeOK'
    <2>. DEFINE T == [eType : Type \cup {"UNUSED"}, pv : Mem \cup Addr \cup {NIL},
                      va : Addr \cup {NIL}, maps : 0..MaxMap]
    <2>1. NoMem \in T
      BY MemAssumption DEF NoMem
    <2>2. \A m \in Mem : mem[m] \in T
      BY DEF MemInv, TypeOK
    <2>3. mem' \in [Mem -> T]
      <3>. HIDE DEF T
      <3>. QED BY <1>4, <2>1, <2>2
    <2>. QED BY <1>1, <1>2, <2>3 DEF MemInv, TypeOK, Shape, Bundle, EntryT
  <1>6. \A m \in lost : Alive(m)'
    BY <1>4 DEF MemInv, LostIsNobodys, Alive
  <1>7. AddressesDiffer'
    <2>1. \A m \in Mem : Alive(m)' => mem'[m] = mem[m] /\ Alive(m)
      BY <1>4 DEF Alive, NoMem
    <2>. QED BY <2>1 DEF MemInv, AddressesDiffer
  <1>. QED BY <1>1, <1>2, <1>3, <1>4, <1>5, <1>6, <1>7, NothingThere

LEMMA InitMem == Init => MemInv
  <1>. SUFFICES ASSUME Init PROVE MemInv
    OBVIOUS
  <1>1. EmptyBundle \in Bundle /\ EmptyBundle.cUsed = 0
        /\ \A i \in 1..Entries : EmptyBundle.aMem[i] = Unused
    BY MemAssumption DEF EmptyBundle, Bundle, EntryT, Unused
  <1>2. DOMAIN bundles = {1} /\ bundles[1] = EmptyBundle
    BY DEF Init
  <1>3. \A s \in Places : Entry(s) = Unused
    BY <1>1, <1>2 DEF Places, Entry
  <1>4. TypeOK
    <2>1. NoMem \in [eType : Type \cup {"UNUSED"}, pv : Mem \cup Addr \cup {NIL},
                    va : Addr \cup {NIL}, maps : 0..MaxMap]
      BY MemAssumption DEF NoMem
    <2>2. bundles \in Seq(Bundle) /\ Len(bundles) \in 1..MaxBundle
      BY <1>1, MemAssumption DEF Init
    <2>. QED BY <2>1, <2>2 DEF Init, TypeOK, Bundle, EntryT
  <1>5. UsedCounted
    <2>1. UsedSlots(1) = {}
      BY <1>1, <1>2 DEF UsedSlots, Unused
    <2>2. Cardinality({}) = 0
      BY FS_EmptySet
    <2>. QED BY <1>1, <1>2, <2>1, <2>2 DEF UsedCounted
  <1>6. /\ Unused.MemObj = NIL /\ Unused.eType = "UNUSED" /\ Unused.MapObjR3 = FALSE
        /\ \A m \in Mem : mem[m] = NoMem /\ ~Alive(m)
        /\ \A t \in Thread : ~Owns(t) /\ pc[t] = "idle"
        /\ lost = {}
    BY DEF Unused, Init, NoMem, Alive, Owns
  <1>. QED BY <1>3, <1>4, <1>5, <1>6
    DEF MemInv, EntriesOwn, CallsOwn, NothingLost, LostIsNobodys, DeadIsNothing, EntriesMatch,
        AddressesDiffer, ClosedIsEmpty

LEMMA NextMem == MemInv /\ [Next]_vars => MemInv'
  <1>. SUFFICES ASSUME MemInv, [Next]_vars PROVE MemInv'
    OBVIOUS
  <1>1. CASE UNCHANGED vars
    <2>1. TypeOK'
      BY <1>1 DEF vars, MemInv, TypeOK
    <2>0. /\ Places' = Places /\ \A s \in Places : Entry(s)' = Entry(s)
          /\ \A m : Alive(m)' = Alive(m)
          /\ ob' = ob /\ \A t \in Thread : Owns(t)' = Owns(t)
      BY <1>1 DEF vars, Places, Entry, Alive, Owns
    <2>2a. EntriesOwn'
      BY <2>0 DEF MemInv, EntriesOwn
    <2>2b. CallsOwn'
      BY <2>0 DEF MemInv, CallsOwn
    <2>2c. NothingLost' /\ LostIsNobodys'
      BY <1>1, <2>0 DEF vars, MemInv, NothingLost, LostIsNobodys
    <2>2. EntriesOwn' /\ CallsOwn' /\ NothingLost' /\ LostIsNobodys'
      BY <2>2a, <2>2b, <2>2c
    <2>3. DeadIsNothing' /\ EntriesMatch'
      BY <1>1 DEF vars, MemInv, DeadIsNothing, EntriesMatch, Places, Entry, Alive
    <2>4. AddressesDiffer' /\ ClosedIsEmpty'
      BY <1>1 DEF vars, MemInv, AddressesDiffer, ClosedIsEmpty, Alive
    <2>5. UsedCounted'
      BY <1>1 DEF vars, MemInv, UsedCounted, UsedSlots
    <2>. QED BY <2>1, <2>2, <2>3, <2>4, <2>5 DEF MemInv
  <1>2. ASSUME NEW t \in Thread, NEW m \in Mem, NEW p \in Addr,
               \/ LockMem(t, m, p) \/ ContAlloc(t, m, p) \/ LowAlloc(t, m, p) \/ MemAlloc(t, m, p)
               \/ \E r0, r3 \in BOOLEAN : PageAllocEx(t, m, r0, r3, p)
        PROVE  MemInv'
    <2>1. \E k \in Type, pv \in Mem \cup Addr \cup {NIL}, va \in Addr \cup {NIL} :
             Create(t, m, k, pv, va) /\ (k # "LOCKED" => va \notin Occupied \/ va = NIL)
      BY <1>2 DEF LockMem, ContAlloc, LowAlloc, MemAlloc, AllocMapped, PageAllocEx, Type
    <2>. QED BY <2>1, CreateKeeps
  <1>3. ASSUME NEW t \in Thread, NEW p \in Addr \cup Mem,
               \/ SUPR0UnlockMem(t, p) \/ SUPR0PageFree(t, p)
               \/ SUPR0ContFree(t, p) \/ SUPR0LowFree(t, p) \/ SUPR0MemFree(t, p)
        PROVE  MemInv'
    <2>1. \E k \in Type : MemRelease(t, p, k)
      BY <1>3 DEF SUPR0UnlockMem, SUPR0ContFree, SUPR0LowFree, SUPR0MemFree, SUPR0PageFree, Type
    <2>. QED BY <2>1, ReleaseKeeps
  <1>4. ASSUME NEW t \in Thread, AddFails(t) \/ AddUndone(t) \/ MemUnmap(t) \/ MemFree(t)
        PROVE  MemInv'
    <2>1. CASE MemFree(t)
      BY <2>1, FreeKeeps DEF MemFree
    <2>2. CASE AddUndone(t)
      <3>1. CASE mem[ob[t]].maps = 0
        BY <2>2, <3>1, FreeKeeps DEF AddUndone
      <3>2. CASE mem[ob[t]].maps # 0
        BY <2>2, <3>2, LoseKeeps DEF AddUndone
      <3>. QED BY <3>1, <3>2
    <2>3. CASE AddFails(t) \/ MemUnmap(t)
      BY <2>3, UnmapKeeps
    <2>. QED BY <1>4, <2>1, <2>2, <2>3
  <1>5. ASSUME NEW t \in Thread, \E p \in Addr : PageMapKernel(t, p)
        PROVE  MemInv'
    <2>1. PICK p \in Addr : PageMapKernel(t, p)
      BY <1>5
    <2>. DEFINE S == {s \in Places :
                       \/ Entry(s).eType = "PAGE" /\ Entry(s).MapObjR3 /\ mem[Entry(s).MemObj].va = p
                       \/ Entry(s).eType = "LOCKED" /\ mem[Entry(s).MemObj].va = p}
    <2>2. Find(t, "map", S)
      BY <2>1 DEF PageMapKernel
    <2>3. \A s \in S : Entry(s).MemObj \in Mem
      BY TypeShape, ShapeFacts DEF MemInv, EntriesMatch, EntryT
    <2>4. S \in SUBSET Places
      OBVIOUS
    <2>. HIDE DEF S
    <2>. QED BY <2>2, <2>3, <2>4, CallKeeps
  <1>6. ASSUME NEW t \in Thread, \E r3 \in Addr \cup {NIL}, r0 \in Mem \cup {NIL} : PageProtect(t, r3, r0)
        PROVE  MemInv'
    <2>1. PICK r3 \in Addr \cup {NIL}, r0 \in Mem \cup {NIL} : PageProtect(t, r3, r0)
      BY <1>6
    <2>. DEFINE match(e) == /\ e.eType = "PAGE"
                            /\ e.MapObjR3 \/ r3 = NIL
                            /\ r0 = NIL \/ mem[e.MemObj].pv = r0
                            /\ r3 = NIL \/ mem[e.MemObj].va = r3
                S == {s \in Places : match(Entry(s))}
    <2>2. Find(t, "protect", S)
      BY <2>1, Zenon DEF PageProtect
    <2>3. \A s \in S : Entry(s).MemObj \in Mem
      <3>1. \A s \in Places : Entry(s).eType = "PAGE" => Entry(s).MemObj \in Mem
        BY TypeShape, ShapeFacts DEF MemInv, EntriesMatch, EntryT
      <3>. QED BY <3>1
    <2>4. S \in SUBSET Places
      OBVIOUS
    <2>. HIDE DEF S
    <2>. QED BY <2>2, <2>3, <2>4, CallKeeps
  <1>7. ASSUME NEW t \in Thread, NoSlot(t) \/ Protect(t) \/ MapKernel(t)
        PROVE  MemInv'
    BY <1>7, CallKeeps
  <1>. QED BY <1>1, <1>2, <1>3, <1>4, <1>5, <1>6, <1>7, SessionKeeps, AddToBundleKeeps, AddBundleKeeps
    DEF Next

LEMMA MemInvariant == Spec => []MemInv
  BY InitMem, NextMem, PTL DEF Spec

-----------------------------------------------------------------------------
(* The number of owners follows from who they are. *)
LEMMA OwnersCounted ==
    ASSUME MemInv
    PROVE  OneOwner
  <1>. SUFFICES ASSUME NEW m \in Mem
                PROVE  Cardinality(Tracking(m))
                       + Cardinality(CallsOf(m))
                       = IF Alive(m) /\ m \notin lost THEN 1 ELSE 0
    BY DEF OneOwner
  <1>. DEFINE E == Tracking(m)
              C == CallsOf(m)
  <1>1. /\ \A s \in E : s \in Places /\ Entry(s).MemObj = m
        /\ \A s \in Places : Entry(s).MemObj = m => s \in E
        /\ \A t \in C : t \in Thread /\ Owns(t) /\ ob[t] = m
        /\ \A t \in Thread : Owns(t) /\ ob[t] = m => t \in C
    BY DEF Tracking, CallsOf, Owns
  <1>2. m # NIL
    BY MemAssumption
  <1>3. /\ \A s \in E : Alive(m) /\ m \notin lost /\ C = {} /\ E = {s}
        /\ \A t \in C : Alive(m) /\ m \notin lost /\ E = {} /\ C = {t}
    <2>. HIDE DEF E, C
    <2>. QED BY <1>1, <1>2 DEF MemInv, EntriesOwn, CallsOwn, LostIsNobodys
  <1>4. Alive(m) /\ m \notin lost => E # {} \/ C # {}
    <2>. HIDE DEF E, C
    <2>. QED BY <1>1 DEF MemInv, NothingLost
  <1>5. Cardinality({}) = 0 /\ \A x : Cardinality({x}) = 1
    BY FS_EmptySet, FS_Singleton
  <1>. SUFFICES Cardinality(E) + Cardinality(C) = IF Alive(m) /\ m \notin lost THEN 1 ELSE 0
    OBVIOUS
  <1>. HIDE DEF E, C
  <1>6. ASSUME NEW s \in E
        PROVE  Cardinality(E) = 1 /\ Cardinality(C) = 0 /\ Alive(m) /\ m \notin lost
    BY <1>3, <1>5
  <1>7. ASSUME NEW t \in C
        PROVE  Cardinality(E) = 0 /\ Cardinality(C) = 1 /\ Alive(m) /\ m \notin lost
    BY <1>3, <1>5
  <1>8. CASE E = {} /\ C = {}
    BY <1>4, <1>5, <1>8
  <1>. QED BY <1>6, <1>7, <1>8

LEMMA AddressesUnique ==
    ASSUME MemInv
    PROVE  AddressIsUnique
  <1>. SUFFICES ASSUME NEW r \in Places, NEW s \in Places, Entry(r).MapObjR3, Entry(s).MapObjR3,
                       mem[Entry(r).MemObj].va = mem[Entry(s).MemObj].va
                PROVE  r = s
    BY DEF AddressIsUnique
  <1>1. /\ Entry(r).MemObj \in Mem /\ Entry(s).MemObj \in Mem /\ NIL \notin Mem
        /\ mem[Entry(r).MemObj].eType # "LOCKED" /\ mem[Entry(r).MemObj].va # NIL
        /\ mem[Entry(s).MemObj].eType # "LOCKED"
    BY MemAssumption DEF MemInv, EntriesMatch
  <1>2. Alive(Entry(r).MemObj) /\ Alive(Entry(s).MemObj)
    BY <1>1 DEF MemInv, EntriesOwn
  <1>3. Entry(r).MemObj = Entry(s).MemObj
    BY <1>1, <1>2 DEF MemInv, AddressesDiffer
  <1>. QED BY <1>1, <1>3 DEF MemInv, EntriesOwn

(* The bundles, the entries, the memory objects and the locals of the      *)
(* calls keep their types, whichever allocation fails.                     *)
THEOREM TypeCorrect == Spec => []TypeOK
  <1>1. MemInv => TypeOK
    BY DEF MemInv
  <1>. QED BY <1>1, MemInvariant, PTL

(* No object is freed twice, and none is lost but those that a call about  *)
(* their predecessor mapped before they were tracked, for any number of    *)
(* threads, objects, entries and bundles, whichever allocation fails.      *)
THEOREM OneOwnerAlways == Spec => []OneOwner
  BY MemInvariant, OwnersCounted, PTL

(* cUsed may count entries that are free again, and never fewer than are   *)
(* in use, so a bundle said to have room has a free entry.                 *)
THEOREM RoomAlwaysReal == Spec => []RoomIsReal
  <1>1. MemInv => RoomIsReal
    BY TypeShape, RoomCounted DEF MemInv
  <1>. QED BY <1>1, MemInvariant, PTL

(* A call that frees by a ring-3 address can only mean one allocation.     *)
THEOREM AddressAlwaysUnique == Spec => []AddressIsUnique
  BY MemInvariant, AddressesUnique, PTL

(* A session that has been cleaned up leaves no memory object that it had  *)
(* not lost before.                                                        *)
THEOREM NothingOutlivesSession == Spec => []SessionLeavesNothing
  <1>1. MemInv => SessionLeavesNothing
    BY DEF MemInv, ClosedIsEmpty, DeadIsNothing, SessionLeavesNothing
  <1>. QED BY <1>1, MemInvariant, PTL
=============================================================================
