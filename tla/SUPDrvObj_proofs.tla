-------------------------- MODULE SUPDrvObj_proofs --------------------------
(***************************************************************************)
(* Proofs about SUPDrvObj, for any number of sessions, threads, objects    *)
(* and records.  The inductive invariant is IndInv; the last part shows    *)
(* that the directory implements ObjRegistry.                              *)
(***************************************************************************)
EXTENDS SUPDrvObj, FiniteSetTheorems, TLAPS

(***************************************************************************)
(* Counting references through records.  A set L of records, each with an  *)
(* object ro[r] and a count ru[r], holds Refs(L, ro, ru, o) references to  *)
(* object o.  The lemmas say how their number changes with one record.     *)
(***************************************************************************)

Refs(L, ro, ru, o) == UNION {{r} \X (1 .. ru[r]) : r \in {q \in L : ro[q] = o}}

(* Record e counts one more or one less, or is set to something new. *)
Inc(ru, e)    == [ru EXCEPT ![e] = @ + 1]
Dec(ru, e)    == [ru EXCEPT ![e] = @ - 1]
Put(f, e, v)  == [f EXCEPT ![e] = v]

(* A reference is a listed record of o together with one of its counts. *)
LEMMA RefsElement ==
    ASSUME NEW L, NEW ro, NEW ru, NEW o, NEW x
    PROVE  x \in Refs(L, ro, ru, o) <=>
             \E r \in L : ro[r] = o /\ \E i \in 1 .. ru[r] : x = <<r, i>>
  BY DEF Refs

(* One element more adds one to the cardinality. *)
LEMMA CardinalityAdd ==
    ASSUME NEW S, IsFiniteSet(S), NEW x, x \notin S
    PROVE  /\ IsFiniteSet(S \cup {x})
           /\ Cardinality(S \cup {x}) = Cardinality(S) + 1
  BY FS_AddElement, FS_CardinalityType

(* A listed record of o counts one reference more: one element more. *)
LEMMA RefsStep ==
    ASSUME NEW R, NEW L \in SUBSET R, NEW ro, NEW ru \in [R -> Nat], NEW o,
           NEW e \in L, ro[e] = o
    PROVE  /\ Refs(L, ro, Inc(ru, e), o) = Refs(L, ro, ru, o) \cup {<<e, ru[e] + 1>>}
           /\ <<e, ru[e] + 1>> \notin Refs(L, ro, ru, o)
  <1>. DEFINE ru2 == Inc(ru, e)
             S == Refs(L, ro, ru, o)
             x == <<e, ru[e] + 1>>
  <1>1. /\ ru[e] \in Nat /\ ru2[e] = ru[e] + 1
        /\ \A r \in L : r # e => ru2[r] = ru[r]
    BY DEF Inc
  <1>2. 1 .. ru2[e] = (1 .. ru[e]) \cup {ru[e] + 1}
    BY <1>1
  <1>. HIDE DEF ru2
  <1>3. ASSUME NEW y, y \in Refs(L, ro, ru2, o) PROVE y \in S \cup {x}
    <2>1. PICK r \in L : ro[r] = o /\ \E i \in 1 .. ru2[r] : y = <<r, i>>
      BY <1>3, RefsElement
    <2>2. PICK i \in 1 .. ru2[r] : y = <<r, i>>
      BY <2>1
    <2>3. CASE r = e
      <3>1. i \in 1 .. ru[e] \/ i = ru[e] + 1
        BY <1>2, <2>2, <2>3
      <3>. QED BY <3>1, <2>1, <2>2, <2>3, RefsElement
    <2>4. CASE r # e
      <3>1. \E j \in 1 .. ru[r] : y = <<r, j>>
        BY <1>1, <2>2, <2>4
      <3>. QED BY <2>1, <3>1, RefsElement
    <2>. QED BY <2>3, <2>4
  <1>4. ASSUME NEW y, y \in S PROVE y \in Refs(L, ro, ru2, o)
    <2>1. PICK r \in L : ro[r] = o /\ \E i \in 1 .. ru[r] : y = <<r, i>>
      BY <1>4, RefsElement
    <2>2. PICK i \in 1 .. ru[r] : y = <<r, i>>
      BY <2>1
    <2>3. i \in 1 .. ru2[r]
      BY <1>1, <1>2, <2>2
    <2>. QED BY <2>1, <2>2, <2>3, RefsElement
  <1>5. x \in Refs(L, ro, ru2, o)
    <2>1. ru[e] + 1 \in 1 .. ru2[e]
      BY <1>2
    <2>. QED BY <2>1, RefsElement
  <1>6. x \notin S
    <2>1. ru[e] + 1 \notin 1 .. ru[e]
      BY <1>1
    <2>. QED BY <2>1, RefsElement
  <1>. QED BY <1>3, <1>4, <1>5, <1>6 DEF ru2

(* So the number of references goes up by one. *)
LEMMA RefsInc ==
    ASSUME NEW R, NEW L \in SUBSET R, NEW ro, NEW ru \in [R -> Nat], NEW o,
           NEW e \in L, ro[e] = o, IsFiniteSet(Refs(L, ro, ru, o))
    PROVE  /\ IsFiniteSet(Refs(L, ro, Inc(ru, e), o))
           /\ Cardinality(Refs(L, ro, Inc(ru, e), o)) = Cardinality(Refs(L, ro, ru, o)) + 1
  <1>. DEFINE new == ru[e] + 1
             S == Refs(L, ro, ru, o)
             T == Refs(L, ro, Inc(ru, e), o)
             x == <<e, new>>
  <1>1. ru \in [R -> Nat] /\ L \in SUBSET R
    OBVIOUS
  <1>2. T = S \cup {x} /\ x \notin S
    <2>1. /\ Refs(L, ro, Inc(ru, e), o) = S \cup {<<e, ru[e] + 1>>}
          /\ <<e, ru[e] + 1>> \notin S
      BY <1>1, RefsStep
    <2>. QED BY <2>1
  <1>3. IsFiniteSet(S)
    OBVIOUS
  <1>. HIDE DEF S, T, x
  <1>4. IsFiniteSet(T) /\ Cardinality(T) = Cardinality(S) + 1
    BY <1>2, <1>3, CardinalityAdd
  <1>. QED BY <1>4 DEF S, T

(* It goes down by one when the record counts one reference less. *)
LEMMA RefsDec ==
    ASSUME NEW R, NEW L \in SUBSET R, NEW ro, NEW ru \in [R -> Nat], NEW o,
           NEW e \in L, ro[e] = o, ru[e] > 0, IsFiniteSet(Refs(L, ro, ru, o))
    PROVE  /\ IsFiniteSet(Refs(L, ro, Dec(ru, e), o))
           /\ Cardinality(Refs(L, ro, ru, o)) = Cardinality(Refs(L, ro, Dec(ru, e), o)) + 1
  <1>. DEFINE ru2 == Dec(ru, e)
             S == Refs(L, ro, ru, o)
             T == Refs(L, ro, ru2, o)
             x == <<e, ru2[e] + 1>>
  <1>1. ru2 \in [R -> Nat] /\ ru[e] = ru2[e] + 1
    <2>1. ru[e] \in Nat /\ ru[e] - 1 \in Nat
      OBVIOUS
    <2>. QED BY <2>1 DEF Dec
  <1>2. ru = Inc(ru2, e)
    <2>1. ASSUME NEW r \in R PROVE ru[r] = Inc(ru2, e)[r]
      BY <1>1 DEF Dec, Inc
    <2>2. Inc(ru2, e) \in [R -> Nat]
      BY <1>1 DEF Inc
    <2>. QED BY <2>1, <2>2
  <1>. HIDE DEF ru2
  <1>3. S = T \cup {x} /\ x \notin T
    <2>1. /\ Refs(L, ro, Inc(ru2, e), o) = T \cup {x}
          /\ x \notin T
      BY <1>1, RefsStep
    <2>. QED BY <1>2, <2>1
  <1>4. IsFiniteSet(S)
    OBVIOUS
  <1>. HIDE DEF S, T, x
  <1>5. IsFiniteSet(T)
    BY <1>3, <1>4, FS_Subset
  <1>6. Cardinality(S) = Cardinality(T) + 1
    BY <1>3, <1>5, CardinalityAdd
  <1>. QED BY <1>5, <1>6 DEF S, T, ru2

(* A record that counts n references contributes n elements. *)
LEMMA RecordReferences ==
    ASSUME NEW r, NEW n \in Nat
    PROVE  IsFiniteSet({r} \X (1 .. n)) /\ Cardinality({r} \X (1 .. n)) = n
  <1>1. IsFiniteSet({r}) /\ Cardinality({r}) = 1
    BY FS_Singleton
  <1>2. IsFiniteSet(1 .. n) /\ Cardinality(1 .. n) = n
    BY FS_Interval
  <1>3. /\ IsFiniteSet({r} \X (1 .. n))
        /\ Cardinality({r} \X (1 .. n)) = Cardinality({r}) * Cardinality(1 .. n)
    BY <1>1, <1>2, FS_Product
  <1>4. 1 * n = n
    OBVIOUS
  <1>. QED BY <1>1, <1>2, <1>3, <1>4

(* Taking a record off the list takes its references away, no others. *)
LEMMA RefsDrop ==
    ASSUME NEW R, NEW L \in SUBSET R, NEW ro, NEW ru \in [R -> Nat], NEW o,
           NEW e \in L, ro[e] = o, IsFiniteSet(Refs(L, ro, ru, o))
    PROVE  /\ IsFiniteSet(Refs(L \ {e}, ro, ru, o))
           /\ Cardinality(Refs(L, ro, ru, o))
                = Cardinality(Refs(L \ {e}, ro, ru, o)) + ru[e]
  <1>. DEFINE S == Refs(L, ro, ru, o)
             T == Refs(L \ {e}, ro, ru, o)
             E == {e} \X (1 .. ru[e])
  <1>1. S = T \cup E
    <2>1. ASSUME NEW y, y \in S PROVE y \in T \cup E
      <3>1. PICK r \in L : ro[r] = o /\ \E i \in 1 .. ru[r] : y = <<r, i>>
        BY <2>1, RefsElement
      <3>2. CASE r = e
        BY <3>1, <3>2
      <3>3. CASE r # e
        BY <3>1, <3>3, RefsElement
      <3>. QED BY <3>2, <3>3
    <2>2. ASSUME NEW y, y \in T PROVE y \in S
      BY <2>2, RefsElement
    <2>3. ASSUME NEW y, y \in E PROVE y \in S
      BY <2>3, RefsElement
    <2>. QED BY <2>1, <2>2, <2>3
  <1>2. T \cap E = {}
    <2>1. ASSUME NEW y, y \in T, y \in E PROVE FALSE
      BY <2>1, RefsElement
    <2>. QED BY <2>1
  <1>3. IsFiniteSet(S) /\ ru[e] \in Nat
    OBVIOUS
  <1>4. IsFiniteSet(E) /\ Cardinality(E) = ru[e]
    BY <1>3, RecordReferences
  <1>. HIDE DEF S, T, E
  <1>5. IsFiniteSet(T) /\ Cardinality(T) \in Nat
    BY <1>1, <1>3, FS_Subset, FS_CardinalityType
  <1>6. Cardinality(T \cup E) = Cardinality(T) + Cardinality(E) - Cardinality(T \cap E)
    BY <1>4, <1>5, FS_Union
  <1>7. Cardinality(T \cap E) = 0
    BY <1>2, FS_EmptySet
  <1>8. Cardinality(S) = Cardinality(T) + ru[e]
    BY <1>1, <1>3, <1>4, <1>5, <1>6, <1>7
  <1>. QED BY <1>5, <1>8 DEF S, T

(* A new record that counts one reference adds that one. *)
LEMMA RefsNew ==
    ASSUME NEW R, NEW L \in SUBSET R, NEW V, NEW ro \in [R -> V],
           NEW ru \in [R -> Nat], NEW o, NEW e \in R, e \notin L,
           IsFiniteSet(Refs(L, ro, ru, o))
    PROVE  /\ IsFiniteSet(Refs(L \cup {e}, Put(ro, e, o), Put(ru, e, 1), o))
           /\ Cardinality(Refs(L \cup {e}, Put(ro, e, o), Put(ru, e, 1), o))
                = Cardinality(Refs(L, ro, ru, o)) + 1
  <1>. DEFINE ro2 == Put(ro, e, o)
             ru2 == Put(ru, e, 1)
             S == Refs(L, ro, ru, o)
             T == Refs(L \cup {e}, ro2, ru2, o)
             x == <<e, 1>>
  <1>1. /\ ro2[e] = o /\ ru2[e] = 1
        /\ \A r \in L : ro2[r] = ro[r] /\ ru2[r] = ru[r]
    BY DEF Put
  <1>. HIDE DEF ro2, ru2
  <1>2. ASSUME NEW y, y \in T PROVE y \in S \cup {x}
    <2>1. PICK r \in L \cup {e} : ro2[r] = o /\ \E i \in 1 .. ru2[r] : y = <<r, i>>
      BY <1>2, RefsElement
    <2>2. CASE r = e
      BY <1>1, <2>1, <2>2
    <2>3. CASE r # e
      <3>1. r \in L /\ ro[r] = o /\ \E i \in 1 .. ru[r] : y = <<r, i>>
        BY <1>1, <2>1, <2>3
      <3>. QED BY <3>1, RefsElement
    <2>. QED BY <2>2, <2>3
  <1>3. ASSUME NEW y, y \in S PROVE y \in T
    <2>1. PICK r \in L : ro[r] = o /\ \E i \in 1 .. ru[r] : y = <<r, i>>
      BY <1>3, RefsElement
    <2>2. r \in L \cup {e} /\ ro2[r] = o /\ \E i \in 1 .. ru2[r] : y = <<r, i>>
      BY <1>1, <2>1
    <2>. QED BY <2>2, RefsElement
  <1>4. x \in T
    <2>1. 1 \in 1 .. ru2[e]
      BY <1>1
    <2>. QED BY <1>1, <2>1, RefsElement
  <1>5. x \notin S
    BY RefsElement
  <1>6. IsFiniteSet(S) /\ T = S \cup {x} /\ x \notin S
    BY <1>2, <1>3, <1>4, <1>5
  <1>. HIDE DEF S, T, x
  <1>7. IsFiniteSet(T) /\ Cardinality(T) = Cardinality(S) + 1
    BY <1>6, CardinalityAdd
  <1>. QED BY <1>7 DEF S, T, ro2, ru2

(* None of these changes touches the references to another object p. *)
LEMMA RefsIncOther ==
    ASSUME NEW R, NEW L \in SUBSET R, NEW ro, NEW ru \in [R -> Nat], NEW e, NEW p,
           ro[e] # p
    PROVE  Refs(L, ro, Inc(ru, e), p) = Refs(L, ro, ru, p)
  <1>1. \A r \in L : r # e => Inc(ru, e)[r] = ru[r]
    BY DEF Inc
  <1>. QED BY <1>1 DEF Refs

LEMMA RefsDecOther ==
    ASSUME NEW R, NEW L \in SUBSET R, NEW ro, NEW ru \in [R -> Nat], NEW e, NEW p,
           ro[e] # p
    PROVE  Refs(L, ro, Dec(ru, e), p) = Refs(L, ro, ru, p)
  <1>1. \A r \in L : r # e => Dec(ru, e)[r] = ru[r]
    BY DEF Dec
  <1>. QED BY <1>1 DEF Refs

LEMMA RefsDropOther ==
    ASSUME NEW L, NEW ro, NEW ru, NEW e, NEW p, ro[e] # p
    PROVE  Refs(L \ {e}, ro, ru, p) = Refs(L, ro, ru, p)
  BY DEF Refs

LEMMA RefsNewOther ==
    ASSUME NEW R, NEW L \in SUBSET R, NEW V, NEW ro \in [R -> V],
           NEW ru \in [R -> Nat], NEW e \in R, e \notin L, NEW p, NEW o, o # p
    PROVE  Refs(L \cup {e}, Put(ro, e, o), Put(ru, e, 1), p) = Refs(L, ro, ru, p)
  <1>. DEFINE ro2 == Put(ro, e, o)
             ru2 == Put(ru, e, 1)
  <1>1. ro2[e] = o /\ \A r \in L : ro2[r] = ro[r] /\ ru2[r] = ru[r]
    BY DEF Put
  <1>. HIDE DEF ro2, ru2
  <1>2. Refs(L \cup {e}, ro2, ru2, p) = Refs(L, ro, ru, p)
    BY <1>1 DEF Refs
  <1>. QED BY <1>2 DEF ro2, ru2

-----------------------------------------------------------------------------
(* The references of a state are counted with these. *)
LEMMA ReferencesAreRefs ==
    /\ \A o : References(o) = Refs(ListedRecords, recObj, recUse, o)
    /\ \A o : References(o)' = Refs(ListedRecords', recObj', recUse', o)
  BY DEF References, Refs

LEMMA ListedAreRecords ==
    ASSUME TypeOK
    PROVE  /\ ListedRecords \in SUBSET Rec
           /\ \A s \in Session : pUsage[s] \subseteq ListedRecords
  BY DEF TypeOK, ListedRecords

(* A listed record has a registered object, finitely referenced.  Without  *)
(* the record, the object has that many references less.                   *)
LEMMA RecordWithin ==
    ASSUME IndInv, NEW r \in ListedRecords, NEW o, recObj[r] = o
    PROVE  /\ o \in Obj /\ mem[o] \in {"alloc", "freed"}
           /\ recUse[r] \in Nat \ {0}
           /\ IsFiniteSet(Refs(ListedRecords \ {r}, recObj, recUse, o))
           /\ Cardinality(Refs(ListedRecords, recObj, recUse, o))
                = Cardinality(Refs(ListedRecords \ {r}, recObj, recUse, o)) + recUse[r]
  <1>1. /\ ListedRecords \in SUBSET Rec /\ recUse \in [Rec -> Nat]
        /\ o \in Obj /\ recUse[r] >= 1 /\ mem[o] \in {"alloc", "freed"}
    BY ListedAreRecords DEF IndInv, TypeOK, RecordsCount
  <1>2. IsFiniteSet(Refs(ListedRecords, recObj, recUse, o))
    BY <1>1, ReferencesAreRefs DEF IndInv, CountsAgree
  <1>3. recUse[r] \in Nat \ {0}
    BY <1>1
  <1>. DEFINE L == ListedRecords
  <1>4. /\ L \in SUBSET Rec /\ r \in L /\ recUse \in [Rec -> Nat] /\ recObj[r] = o
        /\ IsFiniteSet(Refs(L, recObj, recUse, o))
    BY <1>1, <1>2
  <1>. HIDE DEF L
  <1>5. /\ IsFiniteSet(Refs(L \ {r}, recObj, recUse, o))
        /\ Cardinality(Refs(L, recObj, recUse, o))
             = Cardinality(Refs(L \ {r}, recObj, recUse, o)) + recUse[r]
    BY SMTT(60), <1>4, RefsDrop
  <1>. QED BY <1>1, <1>3, <1>5 DEF L

(* So the object's count includes the record's references, and if these    *)
(* are all it has then the object is linked.                               *)
LEMMA CountedTwice ==
    ASSUME IndInv, NEW r \in ListedRecords, NEW o, recObj[r] = o
    PROVE  /\ o \in Obj /\ cUsage[o] \in Nat /\ recUse[r] \in Nat \ {0}
           /\ cUsage[o] >= recUse[r]
           /\ AreLast(o, recUse[r]) => o \in pObjs
  <1>. DEFINE c == Cardinality(Refs(ListedRecords, recObj, recUse, o))
             d == Cardinality(Refs(ListedRecords \ {r}, recObj, recUse, o))
  <1>1. /\ o \in Obj /\ mem[o] \in {"alloc", "freed"} /\ cUsage[o] \in Nat
        /\ recUse[r] \in Nat \ {0} /\ d \in Nat /\ c = d + recUse[r]
    BY RecordWithin, FS_CardinalityType DEF IndInv, TypeOK
  <1>2. (o \in pObjs => cUsage[o] = c) /\ (o \notin pObjs => cUsage[o] > c)
    BY <1>1, ReferencesAreRefs DEF IndInv, CountsAgree
  <1>. HIDE DEF c, d
  <1>. QED BY <1>1, <1>2 DEF AreLast

(* And no other record refers to the object.                               *)
LEMMA LastReferences ==
    ASSUME IndInv, NEW r \in ListedRecords, NEW o, recObj[r] = o, AreLast(o, recUse[r]),
           NEW q \in ListedRecords, q # r
    PROVE  recObj[q] # o
  <1>. DEFINE c == Cardinality(Refs(ListedRecords, recObj, recUse, o))
             D == Refs(ListedRecords \ {r}, recObj, recUse, o)
             d == Cardinality(D)
  <1>1. SUFFICES ASSUME recObj[q] = o PROVE FALSE
    OBVIOUS
  <1>2. o \in Obj /\ cUsage[o] \in Nat /\ o \in pObjs /\ recUse[r] \in Nat /\ recUse[q] \in Nat \ {0}
    BY <1>1, CountedTwice DEF IndInv, TypeOK
  <1>3. c = d + recUse[r] /\ cUsage[o] = c /\ d \in Nat /\ IsFiniteSet(D)
    BY <1>2, RecordWithin, ReferencesAreRefs, FS_CardinalityType DEF IndInv, CountsAgree
  <1>4. <<q, 1>> \in D
    <2>1. q \in ListedRecords \ {r} /\ 1 \in 1 .. recUse[q]
      BY <1>2
    <2>. QED BY <1>1, <2>1, RefsElement
  <1>. HIDE DEF c, D
  <1>5. d # 0
    BY <1>3, <1>4, FS_EmptySet
  <1>. HIDE DEF d
  <1>. QED BY <1>2, <1>3, <1>5 DEF AreLast

(* With a new record for it, the object has one reference more.            *)
LEMMA WithNewRecord ==
    ASSUME IndInv, NEW o \in Obj, NEW r \in Rec, r \notin ListedRecords
    PROVE  LET new(p) == Refs(ListedRecords \cup {r}, Put(recObj, r, o), Put(recUse, r, 1), p)
           IN  /\ IsFiniteSet(new(o))
               /\ Cardinality(new(o))
                    = Cardinality(Refs(ListedRecords, recObj, recUse, o)) + 1
               /\ \A p \in Obj \ {o} : new(p) = Refs(ListedRecords, recObj, recUse, p)
  <1>. DEFINE L == ListedRecords
             V == Obj \cup {NONE}
  <1>1. /\ L \in SUBSET Rec /\ r \in Rec /\ r \notin L /\ recUse \in [Rec -> Nat]
        /\ recObj \in [Rec -> V] /\ IsFiniteSet(Refs(L, recObj, recUse, o))
    BY ListedAreRecords, ReferencesAreRefs DEF IndInv, TypeOK, CountsAgree
  <1>. HIDE DEF L, V
  <1>2. /\ IsFiniteSet(Refs(L \cup {r}, Put(recObj, r, o), Put(recUse, r, 1), o))
        /\ Cardinality(Refs(L \cup {r}, Put(recObj, r, o), Put(recUse, r, 1), o))
             = Cardinality(Refs(L, recObj, recUse, o)) + 1
    BY <1>1, RefsNew
  <1>3. ASSUME NEW p \in Obj \ {o}
        PROVE  Refs(L \cup {r}, Put(recObj, r, o), Put(recUse, r, 1), p)
                 = Refs(L, recObj, recUse, p)
    <2>1. o # p
      OBVIOUS
    <2>. QED BY <1>1, <2>1, RefsNewOther
  <1>. QED BY <1>2, <1>3 DEF L

-----------------------------------------------------------------------------
(* What the four ways of changing a record do to the references. *)

LEMMA RecordsUnchanged ==
    ASSUME UNCHANGED <<pUsage, recObj, recUse>>
    PROVE  ListedRecords' = ListedRecords /\ \A o : References(o)' = References(o)
  BY DEF ListedRecords, References

LEMMA RecordAdded ==
    ASSUME TypeOK, NEW s \in Session, NEW r,
           pUsage' = [pUsage EXCEPT ![s] = @ \cup {r}]
    PROVE  ListedRecords' = ListedRecords \cup {r}
  <1>1. /\ pUsage'[s] = pUsage[s] \cup {r}
        /\ \A q \in Session \ {s} : pUsage'[q] = pUsage[q]
    BY DEF TypeOK
  <1>. QED BY <1>1 DEF ListedRecords

LEMMA RecordTaken ==
    ASSUME TypeOK, RecordsOnOneList, NEW s \in Session, NEW r \in pUsage[s],
           pUsage' = [pUsage EXCEPT ![s] = @ \ {r}]
    PROVE  ListedRecords' = ListedRecords \ {r}
  <1>1. /\ pUsage'[s] = pUsage[s] \ {r}
        /\ \A q \in Session \ {s} : pUsage'[q] = pUsage[q] /\ r \notin pUsage[q]
    BY DEF TypeOK, RecordsOnOneList
  <1>2. ASSUME NEW x \in ListedRecords' PROVE x \in ListedRecords \ {r}
    <2>1. PICK q \in Session : x \in pUsage'[q]
      BY <1>2 DEF ListedRecords
    <2>. QED BY <1>1, <2>1 DEF ListedRecords
  <1>3. ASSUME NEW x \in ListedRecords \ {r} PROVE x \in ListedRecords'
    <2>1. PICK q \in Session : x \in pUsage[q]
      BY <1>3 DEF ListedRecords
    <2>2. x \in pUsage'[q]
      BY <1>1, <1>3, <2>1
    <2>. QED BY <2>2 DEF ListedRecords
  <1>. QED BY <1>2, <1>3

-----------------------------------------------------------------------------
(* What each change of a record means for the invariants on records. *)

(* Most steps leave the records and the counts alone; memory is only set   *)
(* aside for an object that is not registered, or freed.                   *)
RecordFrame ==
    /\ cUsage' = cUsage /\ pObjs' = pObjs
    /\ pUsage' = pUsage /\ pUsageFree' = pUsageFree
    /\ recObj' = recObj /\ recUse' = recUse
    /\ usageMem \subseteq usageMem'
    /\ \A o \in Obj :
         \/ mem'[o] = mem[o]
         \/ mem[o] = "alloc" /\ mem'[o] = "freed"
         \/ mem[o] \in {"none", "init"} /\ mem'[o] \in {"none", "init"}

LEMMA RecordsStay ==
    ASSUME IndInv, RecordFrame
    PROVE  RecordsOnOneList' /\ OneRecordPerObject' /\ RecordsCount' /\ CountsAgree'
  <1>1. ListedRecords' = ListedRecords /\ \A o : References(o)' = References(o)
    BY RecordsUnchanged DEF RecordFrame
  <1>2. RecordsOnOneList' /\ OneRecordPerObject' /\ RecordsCount'
    BY <1>1 DEF IndInv, RecordFrame, RecordsOnOneList, OneRecordPerObject, RecordsCount
  <1>3. CountsAgree'
    BY <1>1 DEF IndInv, RecordFrame, CountsAgree
  <1>. QED BY <1>2, <1>3

(* The session's record and the object count one reference more. *)
LEMMA CountUp ==
    ASSUME IndInv, NEW s \in Session, NEW e \in pUsage[s], NEW o, recObj[e] = o,
           recUse' = [recUse EXCEPT ![e] = @ + 1],
           cUsage' = [cUsage EXCEPT ![o] = @ + 1],
           UNCHANGED <<pUsage, recObj, mem, pObjs>>
    PROVE  OneRecordPerObject' /\ RecordsCount' /\ CountsAgree'
  <1>. DEFINE L == ListedRecords
  <1>1. /\ L' = L /\ L \in SUBSET Rec /\ e \in L /\ o \in Obj
        /\ recUse \in [Rec -> Nat] /\ cUsage \in [Obj -> Nat]
    BY ListedAreRecords, CountedTwice DEF IndInv, TypeOK, ListedRecords
  <1>2. OneRecordPerObject'
    BY DEF IndInv, OneRecordPerObject
  <1>3. RecordsCount'
    BY <1>1 DEF IndInv, RecordsCount
  <1>4. recUse' = Inc(recUse, e)
    BY DEF Inc
  <1>. HIDE DEF L
  <1>5. /\ IsFiniteSet(Refs(L, recObj, recUse, o))
        /\ o \in pObjs => cUsage[o] = Cardinality(Refs(L, recObj, recUse, o))
        /\ mem[o] \in {"alloc", "freed"} /\ o \notin pObjs =>
             cUsage[o] > Cardinality(Refs(L, recObj, recUse, o))
        /\ Cardinality(Refs(L, recObj, recUse, o)) \in Nat
    BY <1>1, ReferencesAreRefs, FS_CardinalityType DEF IndInv, CountsAgree, L
  <1>6. /\ IsFiniteSet(Refs(L, recObj, recUse', o))
        /\ Cardinality(Refs(L, recObj, recUse', o))
             = Cardinality(Refs(L, recObj, recUse, o)) + 1
    <2>1. L \in SUBSET Rec /\ e \in L /\ recUse \in [Rec -> Nat] /\ recObj[e] = o
      BY <1>1
    <2>2. IsFiniteSet(Refs(L, recObj, recUse, o))
      BY <1>5
    <2>3. /\ IsFiniteSet(Refs(L, recObj, Inc(recUse, e), o))
          /\ Cardinality(Refs(L, recObj, Inc(recUse, e), o))
               = Cardinality(Refs(L, recObj, recUse, o)) + 1
      BY <2>1, <2>2, RefsInc
    <2>. QED BY <1>4, <2>3
  <1>7. /\ IsFiniteSet(References(o)')
        /\ o \in pObjs' => cUsage'[o] = Cardinality(References(o)')
        /\ mem'[o] \in {"alloc", "freed"} /\ o \notin pObjs' =>
             cUsage'[o] > Cardinality(References(o)')
    <2>1. References(o)' = Refs(L, recObj, recUse', o)
      BY <1>1, ReferencesAreRefs DEF L
    <2>2. cUsage[o] \in Nat /\ cUsage'[o] = cUsage[o] + 1
      BY <1>1
    <2>. QED BY <1>5, <1>6, <2>1, <2>2
  <1>8. ASSUME NEW p \in Obj, p # o
        PROVE  References(p)' = References(p) /\ cUsage'[p] = cUsage[p]
    <2>1. recObj[e] # p /\ L \in SUBSET Rec /\ recUse \in [Rec -> Nat]
      BY <1>1, <1>8
    <2>2. Refs(L, recObj, Inc(recUse, e), p) = Refs(L, recObj, recUse, p)
      BY <2>1, RefsIncOther
    <2>. QED BY <1>1, <1>4, <1>8, <2>2, ReferencesAreRefs DEF L
  <1>9. CountsAgree'
    BY <1>7, <1>8 DEF IndInv, CountsAgree
  <1>. QED BY <1>2, <1>3, <1>9

(* Both count one less, the record keeps some. *)
LEMMA CountDown ==
    ASSUME IndInv, NEW s \in Session, NEW e \in pUsage[s], NEW o, recObj[e] = o,
           recUse[e] > 1,
           recUse' = [recUse EXCEPT ![e] = @ - 1],
           cUsage' = [cUsage EXCEPT ![o] = @ - 1],
           UNCHANGED <<pUsage, recObj, mem, pObjs>>
    PROVE  OneRecordPerObject' /\ RecordsCount' /\ CountsAgree'
  <1>. DEFINE L == ListedRecords
  <1>1. /\ L' = L /\ L \in SUBSET Rec /\ e \in L /\ o \in Obj
        /\ recUse \in [Rec -> Nat] /\ cUsage \in [Obj -> Nat]
    BY ListedAreRecords, CountedTwice DEF IndInv, TypeOK, ListedRecords
  <1>2. OneRecordPerObject'
    BY DEF IndInv, OneRecordPerObject
  <1>3. RecordsCount'
    BY <1>1 DEF IndInv, RecordsCount
  <1>4. recUse' = Dec(recUse, e) /\ recUse[e] > 0
    BY <1>1 DEF Dec
  <1>. HIDE DEF L
  <1>5. /\ IsFiniteSet(Refs(L, recObj, recUse, o))
        /\ o \in pObjs => cUsage[o] = Cardinality(Refs(L, recObj, recUse, o))
        /\ mem[o] \in {"alloc", "freed"} /\ o \notin pObjs =>
             cUsage[o] > Cardinality(Refs(L, recObj, recUse, o))
        /\ Cardinality(Refs(L, recObj, recUse, o)) \in Nat
    BY <1>1, ReferencesAreRefs, FS_CardinalityType DEF IndInv, CountsAgree, L
  <1>6. /\ IsFiniteSet(Refs(L, recObj, recUse', o))
        /\ Cardinality(Refs(L, recObj, recUse, o))
             = Cardinality(Refs(L, recObj, recUse', o)) + 1
    <2>1. /\ L \in SUBSET Rec /\ e \in L /\ recUse \in [Rec -> Nat]
          /\ recObj[e] = o /\ recUse[e] > 0
      BY <1>1, <1>4
    <2>2. /\ IsFiniteSet(Refs(L, recObj, Dec(recUse, e), o))
          /\ Cardinality(Refs(L, recObj, recUse, o))
               = Cardinality(Refs(L, recObj, Dec(recUse, e), o)) + 1
      BY <1>5, <2>1, RefsDec
    <2>. QED BY <1>4, <2>2
  <1>7. /\ IsFiniteSet(References(o)')
        /\ o \in pObjs' => cUsage'[o] = Cardinality(References(o)')
        /\ mem'[o] \in {"alloc", "freed"} /\ o \notin pObjs' =>
             cUsage'[o] > Cardinality(References(o)')
    <2>1. References(o)' = Refs(L, recObj, recUse', o)
      BY <1>1, ReferencesAreRefs DEF L
    <2>2. cUsage[o] \in Nat /\ cUsage'[o] = cUsage[o] - 1
      BY <1>1
    <2>3. Cardinality(Refs(L, recObj, recUse', o)) \in Nat
      BY <1>6, FS_CardinalityType
    <2>. QED BY <1>5, <1>6, <2>1, <2>2, <2>3
  <1>8. ASSUME NEW p \in Obj, p # o
        PROVE  References(p)' = References(p) /\ cUsage'[p] = cUsage[p]
    <2>1. recObj[e] # p /\ L \in SUBSET Rec /\ recUse \in [Rec -> Nat]
      BY <1>1, <1>8
    <2>2. Refs(L, recObj, Dec(recUse, e), p) = Refs(L, recObj, recUse, p)
      BY <2>1, RefsDecOther
    <2>. QED BY <1>1, <1>4, <1>8, <2>2, ReferencesAreRefs DEF L
  <1>9. CountsAgree'
    BY <1>7, <1>8 DEF IndInv, CountsAgree
  <1>. QED BY <1>2, <1>3, <1>9

(* A record is taken off its list: either the object counts the record's   *)
(* references no longer, or the object is unlinked as it has no others.    *)
LEMMA RecordDropped ==
    ASSUME IndInv, NEW s \in Session, NEW r \in pUsage[s], NEW o, recObj[r] = o,
           pUsage' = [pUsage EXCEPT ![s] = @ \ {r}],
           UNCHANGED <<recObj, recUse, mem>>,
           \/ /\ ~AreLast(o, recUse[r]) /\ UNCHANGED pObjs
              /\ cUsage' = [cUsage EXCEPT ![o] = @ - recUse[r]]
           \/ AreLast(o, recUse[r]) /\ UNCHANGED cUsage /\ Unlink(o)
    PROVE  OneRecordPerObject' /\ RecordsCount' /\ CountsAgree'
  <1>. DEFINE L == ListedRecords
             n == recUse[r]
  <1>1. /\ L' = L \ {r} /\ L \in SUBSET Rec /\ r \in L /\ o \in Obj
        /\ recUse \in [Rec -> Nat] /\ cUsage \in [Obj -> Nat]
        /\ n \in Nat \ {0} /\ cUsage[o] >= n /\ cUsage[o] \in Nat
    BY ListedAreRecords, CountedTwice, RecordTaken DEF IndInv, TypeOK, ListedRecords
  <1>2. OneRecordPerObject'
    <2>1. \A q \in Session : pUsage'[q] \subseteq pUsage[q]
      BY DEF IndInv, TypeOK
    <2>. QED BY <2>1 DEF IndInv, OneRecordPerObject
  <1>3. RecordsCount'
    BY <1>1 DEF IndInv, RecordsCount
  <1>. HIDE DEF L
  <1>4. /\ IsFiniteSet(Refs(L, recObj, recUse, o))
        /\ o \in pObjs => cUsage[o] = Cardinality(Refs(L, recObj, recUse, o))
        /\ mem[o] \in {"alloc", "freed"} /\ o \notin pObjs =>
             cUsage[o] > Cardinality(Refs(L, recObj, recUse, o))
    BY <1>1, ReferencesAreRefs DEF IndInv, CountsAgree, L
  <1>5. /\ IsFiniteSet(Refs(L \ {r}, recObj, recUse, o))
        /\ Cardinality(Refs(L, recObj, recUse, o))
             = Cardinality(Refs(L \ {r}, recObj, recUse, o)) + n
    BY <1>1, RecordWithin DEF L
  <1>6. Cardinality(Refs(L \ {r}, recObj, recUse, o)) \in Nat
    BY <1>5, FS_CardinalityType
  <1>7. /\ IsFiniteSet(References(o)')
        /\ o \in pObjs' => cUsage'[o] = Cardinality(References(o)')
        /\ mem'[o] \in {"alloc", "freed"} /\ o \notin pObjs' =>
             cUsage'[o] > Cardinality(References(o)')
    <2>1. References(o)' = Refs(L \ {r}, recObj, recUse, o)
      BY <1>1, ReferencesAreRefs DEF L
    <2>2. CASE ~AreLast(o, n)
      <3>1. cUsage'[o] = cUsage[o] - n /\ pObjs' = pObjs
        BY <1>1, <2>2
      <3>. QED BY <1>1, <1>4, <1>5, <1>6, <2>1, <3>1
    <2>3. CASE AreLast(o, n)
      <3>1. cUsage'[o] = cUsage[o] /\ o \notin pObjs' /\ o \in pObjs
        BY <1>1, <2>3, CountedTwice DEF Unlink, L
      <3>. QED BY <1>1, <1>4, <1>5, <1>6, <2>1, <3>1
    <2>. QED BY <2>2, <2>3
  <1>8. ASSUME NEW p \in Obj, p # o
        PROVE  /\ References(p)' = References(p) /\ cUsage'[p] = cUsage[p]
               /\ p \in pObjs' <=> p \in pObjs
    <2>1. recObj[r] # p
      BY <1>8
    <2>2. Refs(L \ {r}, recObj, recUse, p) = Refs(L, recObj, recUse, p)
      BY <2>1, RefsDropOther
    <2>. QED BY <1>1, <1>8, <2>2, ReferencesAreRefs DEF L, Unlink
  <1>9. CountsAgree'
    BY <1>7, <1>8 DEF IndInv, CountsAgree
  <1>. QED BY <1>2, <1>3, <1>9

(* A session gets a record for an object it had none for: the object has   *)
(* just been registered, or it counts one reference more.                  *)
LEMMA RecordNew ==
    ASSUME IndInv, NEW s \in Session, NEW o \in Obj,
           NEW r \in Rec, r \notin ListedRecords, Records(s, o) = {},
           pUsage' = [pUsage EXCEPT ![s] = @ \cup {r}],
           recObj' = [recObj EXCEPT ![r] = o],
           recUse' = [recUse EXCEPT ![r] = 1],
           \/ /\ mem[o] \notin {"alloc", "freed"}
              /\ mem'    = [mem    EXCEPT ![o] = "alloc"]
              /\ cUsage' = [cUsage EXCEPT ![o] = 1]
              /\ pObjs'  = pObjs \cup {o}
           \/ /\ mem[o] = "alloc" /\ UNCHANGED <<mem, pObjs>>
              /\ cUsage' = [cUsage EXCEPT ![o] = @ + 1]
    PROVE  OneRecordPerObject' /\ RecordsCount' /\ CountsAgree'
  <1>. DEFINE L == ListedRecords
             new(p) == Refs(L \cup {r}, Put(recObj, r, o), Put(recUse, r, 1), p)
             c == Cardinality(Refs(L, recObj, recUse, o))
  <1>1. /\ L' = L \cup {r} /\ L \in SUBSET Rec /\ cUsage[o] \in Nat
        /\ recObj' = Put(recObj, r, o) /\ recUse' = Put(recUse, r, 1)
        /\ recObj'[r] = o /\ recUse'[r] = 1 /\ mem'[o] = "alloc"
        /\ \A q \in L : recObj'[q] = recObj[q] /\ recUse'[q] = recUse[q]
        /\ \A p \in Obj \ {o} :
             mem'[p] = mem[p] /\ cUsage'[p] = cUsage[p] /\ (p \in pObjs' <=> p \in pObjs)
    BY ListedAreRecords, RecordAdded DEF IndInv, TypeOK, Put
  <1>2. OneRecordPerObject'
    <2>1. /\ pUsage'[s] = pUsage[s] \cup {r}
          /\ \A q \in Session \ {s} : pUsage'[q] = pUsage[q]
          /\ \A q \in Session : pUsage[q] \subseteq L
          /\ \A e \in pUsage[s] : recObj[e] # o
      BY ListedAreRecords DEF IndInv, TypeOK, Records
    <2>. QED BY <1>1, <2>1 DEF IndInv, OneRecordPerObject
  <1>3. RecordsCount'
    <2>1. ASSUME NEW q \in L
          PROVE  recUse'[q] >= 1 /\ recObj'[q] \in Obj /\ mem'[recObj'[q]] \in {"alloc", "freed"}
      BY <1>1 DEF IndInv, RecordsCount
    <2>2. recUse'[r] >= 1 /\ recObj'[r] \in Obj /\ mem'[recObj'[r]] \in {"alloc", "freed"}
      BY <1>1
    <2>. QED BY <1>1, <2>1, <2>2 DEF RecordsCount
  <1>4. \A p \in Obj : References(p)' = new(p) /\ References(p) = Refs(L, recObj, recUse, p)
    BY <1>1, ReferencesAreRefs
  <1>5. /\ IsFiniteSet(new(o)) /\ Cardinality(new(o)) = c + 1
        /\ \A p \in Obj \ {o} : new(p) = Refs(L, recObj, recUse, p)
    BY WithNewRecord
  <1>6. /\ c \in Nat
        /\ mem[o] \notin {"alloc", "freed"} => c = 0
        /\ o \in pObjs => cUsage[o] = c
        /\ mem[o] = "alloc" /\ o \notin pObjs => cUsage[o] > c
    <2>1. mem[o] \notin {"alloc", "freed"} => Refs(L, recObj, recUse, o) = {}
      BY DEF IndInv, RecordsCount, Refs
    <2>2. /\ IsFiniteSet(Refs(L, recObj, recUse, o))
          /\ o \in pObjs => cUsage[o] = c
          /\ mem[o] = "alloc" /\ o \notin pObjs => cUsage[o] > c
      BY <1>4 DEF IndInv, CountsAgree
    <2>. QED BY <2>1, <2>2, FS_CardinalityType, FS_EmptySet
  <1>. HIDE DEF L, new, c
  <1>7. o \in pObjs' => cUsage'[o] = Cardinality(References(o)')
    <2>1. CASE mem[o] \notin {"alloc", "freed"}
      <3>1. cUsage'[o] = 1
        BY <2>1 DEF IndInv, TypeOK
      <3>. QED BY <1>4, <1>5, <1>6, <2>1, <3>1
    <2>2. CASE mem[o] = "alloc"
      <3>1. cUsage'[o] = cUsage[o] + 1 /\ pObjs' = pObjs
        BY <2>2 DEF IndInv, TypeOK
      <3>. QED BY <1>1, <1>4, <1>5, <1>6, <3>1
    <2>. QED BY <2>1, <2>2
  <1>8. o \notin pObjs' => cUsage'[o] > Cardinality(References(o)')
    <2>1. o \notin pObjs' => /\ cUsage'[o] = cUsage[o] + 1
                            /\ mem[o] = "alloc" /\ o \notin pObjs
      BY DEF IndInv, TypeOK
    <2>. QED BY <1>1, <1>4, <1>5, <1>6, <2>1
  <1>9. CountsAgree'
    <2>1. IsFiniteSet(References(o)')
      BY <1>4, <1>5
    <2>2. \A p \in Obj \ {o} : References(p)' = References(p)
      BY <1>4, <1>5
    <2>. QED BY <1>1, <1>7, <1>8, <2>1, <2>2 DEF IndInv, CountsAgree
  <1>. QED BY <1>2, <1>3, <1>9

-----------------------------------------------------------------------------
(* The inductive invariant. *)

LEMMA InitIndInv == Init => IndInv
  <1>. SUFFICES ASSUME Init PROVE IndInv
    OBVIOUS
  <1>1. TypeOK
    BY ObjAssumption DEF Init, TypeOK, MemState, PC
  <1>2. ListedRecords = {} /\ \A o : References(o) = {}
    BY DEF Init, ListedRecords, References
  <1>3. RecordsOnOneList /\ OneRecordPerObject /\ RecordsCount
    BY <1>2 DEF Init, RecordsOnOneList, OneRecordPerObject, RecordsCount
  <1>4. ThreadsKnow /\ LinkedOrPublishedIsAllocated /\ DestroyedOnce
    BY DEF Init, ThreadsKnow, LinkedOrPublishedIsAllocated, DestroyedOnce, Destroying
  <1>5. CountsAgree
    BY <1>2, FS_EmptySet DEF Init, CountsAgree
  <1>. QED BY <1>1, <1>3, <1>4, <1>5 DEF IndInv

LEMMA CallTypeOK ==
    ASSUME IndInv, NEW t \in Thread, NEW s \in Session, NEW o \in Obj, Call(t, s, o)
    PROVE  TypeOK'
  <1>1. CASE RegisterReuse(t, s, o)
    BY <1>1 DEF IndInv, TypeOK, RegisterReuse, Insert, MemState, thrVars
  <1>2. CASE RegisterNoRecord(t, s, o)
    BY <1>2 DEF IndInv, TypeOK, RegisterNoRecord, Goto, MemState, PC, recVars
  <1>3. CASE AddRefLookup(t, s, o)
    BY <1>3 DEF IndInv, TypeOK, AddRefLookup, Goto, PC, recVars, heapVars
  <1>4. CASE AddRefNoBlocking(t, s, o)
    <2>1. PICK r \in Records(s, o) : recUse' = [recUse EXCEPT ![r] = @ + 1]
      BY <1>4 DEF AddRefNoBlocking
    <2>2. recUse' \in [Rec -> Nat] /\ cUsage' \in [Obj -> Nat]
      BY <1>4, <2>1 DEF IndInv, TypeOK, AddRefNoBlocking, Records
    <2>. QED BY <1>4, <2>2 DEF IndInv, TypeOK, AddRefNoBlocking, dirVars, thrVars
  <1>5. CASE ReleaseOne(t, s, o)
    <2>1. PICK r \in Records(s, o) : HasMore(r) /\ recUse' = [recUse EXCEPT ![r] = @ - 1]
      BY <1>5 DEF ReleaseOne
    <2>2. /\ r \in Rec /\ r \in ListedRecords /\ recObj[r] = o
          /\ recUse \in [Rec -> Nat] /\ cUsage \in [Obj -> Nat]
      BY <2>1 DEF IndInv, TypeOK, Records, ListedRecords
    <2>3. cUsage[o] >= recUse[r] /\ recUse[r] > 1
      BY <2>1, <2>2, CountedTwice DEF HasMore
    <2>4. recUse' \in [Rec -> Nat] /\ cUsage' \in [Obj -> Nat]
      BY <1>5, <2>1, <2>2, <2>3 DEF ReleaseOne, DropUses
    <2>. QED BY <1>5, <2>4 DEF IndInv, TypeOK, ReleaseOne, dirVars, thrVars
  <1>6. CASE ReleaseRecord(t, s, o)
    <2>1. cUsage' \in [Obj -> Nat]
      BY <1>6 DEF IndInv, TypeOK, ReleaseRecord, DropUses, AreLast
    <2>. QED BY <1>6, <2>1 DEF IndInv, TypeOK, ReleaseRecord, DropRecord, Records,
                              dirVars, thrVars
  <1>7. CASE ReleaseLast(t, s, o)
    BY <1>7 DEF IndInv, TypeOK, ReleaseLast, DropRecord, Records, Unlink, Goto, PC, DEAD,
                dirVars
  <1>. QED BY <1>1, <1>2, <1>3, <1>4, <1>5, <1>6, <1>7 DEF Call

LEMMA ReferenceTypeOK ==
    ASSUME IndInv, NEW s \in Session, NEW o \in Obj, NEW r \in Rec, Reference(s, o, r)
    PROVE  /\ cUsage' \in [Obj -> Nat] /\ recUse' \in [Rec -> Nat]
           /\ pUsage' \in [Session -> SUBSET Rec] /\ pUsageFree' \in SUBSET Rec
           /\ recObj' \in [Rec -> Obj \cup {NONE}]
  <1>1. cUsage' \in [Obj -> Nat]
    BY DEF IndInv, TypeOK, Reference
  <1>2. CASE Records(s, o) = {}
    BY <1>1, <1>2 DEF IndInv, TypeOK, Reference
  <1>3. CASE Records(s, o) # {}
    <2>1. PICK e \in Records(s, o) : recUse' = [recUse EXCEPT ![e] = @ + 1]
      BY <1>3 DEF Reference
    <2>2. recUse' \in [Rec -> Nat]
      BY <2>1 DEF IndInv, TypeOK, Records
    <2>. QED BY <1>1, <1>3, <2>2 DEF IndInv, TypeOK, Reference
  <1>. QED BY <1>2, <1>3

LEMMA ContinueTypeOK ==
    ASSUME IndInv, NEW t \in Thread, Continue(t)
    PROVE  TypeOK'
  <1>1. ASSUME RegisterInsert(t) PROVE TypeOK'
    <2>1. ses[t] \in Session /\ ob[t] \in Obj
      BY <1>1 DEF IndInv, ThreadsKnow, RegisterInsert
    <2>. QED BY <1>1, <2>1 DEF IndInv, TypeOK, RegisterInsert, Insert, UnlockDir, Return,
                              Goto, MemState, PC, Allocatable
  <1>2. ASSUME RegisterFail(t) PROVE TypeOK'
    BY <1>2 DEF IndInv, TypeOK, RegisterFail, UnlockDir, Return, Goto, MemState, PC, recVars
  <1>3. ASSUME AddRefDead(t) PROVE TypeOK'
    BY <1>3 DEF IndInv, TypeOK, AddRefDead, UnlockDir, Return, Goto, PC, recVars, heapVars
  <1>4. ASSUME AddRefReuse(t) PROVE TypeOK'
    <2>1. ses[t] \in Session /\ ob[t] \in Obj
      BY <1>4, ObjAssumption DEF IndInv, TypeOK, ThreadsKnow, AddRefReuse
    <2>2. PICK r \in pUsageFree : Reference(ses[t], ob[t], r)
      BY <1>4 DEF AddRefReuse
    <2>3. r \in Rec
      BY DEF IndInv, TypeOK
    <2>. QED BY <1>4, <2>1, <2>2, <2>3, ReferenceTypeOK
             DEF IndInv, TypeOK, AddRefReuse, UnlockDir, Return, Goto, PC
  <1>5. ASSUME AddRefNoRecord(t) PROVE TypeOK'
    BY <1>5 DEF IndInv, TypeOK, AddRefNoRecord, PC, recVars, heapVars, dirVars
  <1>6. ASSUME AddRefNoMemory(t) PROVE TypeOK'
    BY <1>6 DEF IndInv, TypeOK, AddRefNoMemory, UnlockDir, Return, Goto, PC, recVars, heapVars
  <1>7. ASSUME AddRefAlloc(t) PROVE TypeOK'
    <2>1. ses[t] \in Session /\ ob[t] \in Obj
      BY <1>7, ObjAssumption DEF IndInv, TypeOK, ThreadsKnow, AddRefAlloc
    <2>2. PICK r \in Allocatable : /\ usageMem' = usageMem \cup {r}
                                   /\ Reference(ses[t], ob[t], r)
      BY <1>7 DEF AddRefAlloc
    <2>3. r \in Rec
      BY DEF Allocatable
    <2>. QED BY <1>7, <2>1, <2>2, <2>3, ReferenceTypeOK
             DEF IndInv, TypeOK, AddRefAlloc, UnlockDir, Return, Goto, PC
  <1>8. ASSUME AddRefDiedMeanwhile(t) PROVE TypeOK'
    BY <1>8 DEF IndInv, TypeOK, AddRefDiedMeanwhile, UnlockDir, Return, Goto, PC,
                heapVars, Allocatable
  <1>9. ASSUME Destructor(t) PROVE TypeOK'
    BY <1>9 DEF IndInv, TypeOK, Destructor, Withdraw, PC, recVars, heapVars
  <1>10. ASSUME FreeObject(t) PROVE TypeOK'
    BY <1>10 DEF IndInv, TypeOK, FreeObject, Free, Return, Goto, PC, MemState, recVars, dirVars
  <1>11. ASSUME CleanupDeref(t) PROVE TypeOK'
    <2>1. PICK r \in pUsage[ses[t]] : /\ ~AreLast(recObj[r], recUse[r])
                                      /\ DropUses(recObj[r], recUse[r])
                                      /\ TakeRecord(ses[t], r)
      BY <1>11 DEF CleanupDeref
    <2>2. ses[t] \in Session /\ r \in Rec /\ r \in ListedRecords
      BY <1>11 DEF CleanupDeref, IndInv, TypeOK, ThreadsKnow, ListedRecords
    <2>3. cUsage' \in [Obj -> Nat]
      BY <2>1, <2>2, CountedTwice DEF DropUses, IndInv, TypeOK
    <2>. QED BY <1>11, <2>1, <2>2, <2>3
             DEF IndInv, TypeOK, CleanupDeref, TakeRecord, dirVars, thrVars
  <1>12. ASSUME CleanupUnlink(t) PROVE TypeOK'
    <2>1. PICK r \in pUsage[ses[t]] : /\ Unlink(recObj[r])
                                      /\ TakeRecord(ses[t], r)
                                      /\ Goto(t, "cleanDtor", ses[t], recObj[r])
      BY <1>12 DEF CleanupUnlink
    <2>2. ses[t] \in Session /\ r \in Rec
      BY <1>12 DEF CleanupUnlink, IndInv, TypeOK, ThreadsKnow
    <2>. QED BY <1>12, <2>1, <2>2
             DEF IndInv, TypeOK, CleanupUnlink, TakeRecord, Unlink, Goto, PC, dirVars
  <1>13. ASSUME CleanupDestructor(t) PROVE TypeOK'
    BY <1>13 DEF IndInv, TypeOK, CleanupDestructor, Withdraw, PC, recVars, heapVars
  <1>14. ASSUME CleanupFree(t) PROVE TypeOK'
    BY <1>14 DEF IndInv, TypeOK, CleanupFree, Free, Goto, PC, MemState, recVars, dirVars
  <1>15. ASSUME CleanupDone(t) PROVE TypeOK'
    BY <1>15 DEF IndInv, TypeOK, CleanupDone, Return, Goto, PC, heapVars, recVars, dirVars
  <1>. QED BY <1>1, <1>2, <1>3, <1>4, <1>5, <1>6, <1>7, <1>8, <1>9, <1>10, <1>11, <1>12,
              <1>13, <1>14, <1>15 DEF Continue

-----------------------------------------------------------------------------
(* The lists after a record moved between them. *)
LEMMA ListsAfterAdd ==
    ASSUME IndInv, NEW s \in Session, NEW r \in Rec \ ListedRecords,
           pUsage' = [pUsage EXCEPT ![s] = @ \cup {r}],
           pUsageFree' \subseteq pUsageFree, r \notin pUsageFree',
           usageMem \cup {r} \subseteq usageMem'
    PROVE  RecordsOnOneList'
  <1>1. ListedRecords' = ListedRecords \cup {r}
    BY RecordAdded DEF IndInv
  <1>2. /\ pUsage'[s] = pUsage[s] \cup {r}
        /\ \A q \in Session \ {s} : pUsage'[q] = pUsage[q]
        /\ \A q \in Session : r \notin pUsage[q]
    BY DEF IndInv, TypeOK, ListedRecords
  <1>3. \A p, q \in Session : p # q => pUsage'[p] \cap pUsage'[q] = {}
    BY <1>2 DEF IndInv, RecordsOnOneList
  <1>. QED BY <1>1, <1>3 DEF IndInv, RecordsOnOneList

LEMMA ListsAfterDrop ==
    ASSUME IndInv, NEW s \in Session, NEW r \in pUsage[s],
           pUsage' = [pUsage EXCEPT ![s] = @ \ {r}],
           \/ pUsageFree' = pUsageFree \cup {r} /\ UNCHANGED usageMem
           \/ usageMem' = usageMem \ {r} /\ UNCHANGED pUsageFree
    PROVE  RecordsOnOneList'
  <1>1. ListedRecords' = ListedRecords \ {r} /\ r \in ListedRecords
    BY RecordTaken DEF IndInv, ListedRecords
  <1>2. \A q \in Session : pUsage'[q] \subseteq pUsage[q]
    BY DEF IndInv, TypeOK
  <1>. QED BY <1>1, <1>2 DEF IndInv, RecordsOnOneList

(* A new reference through the session's record or a new one; the spare    *)
(* record r comes from the free list or is newly allocated.                *)
LEMMA ReferenceRecords ==
    ASSUME IndInv, NEW s \in Session, NEW o \in Obj, NEW r \in Rec,
           \/ r \in pUsageFree /\ UNCHANGED usageMem
           \/ r \notin usageMem /\ usageMem' = usageMem \cup {r},
           mem[o] = "alloc", Reference(s, o, r), UNCHANGED <<mem, pObjs>>
    PROVE  RecordsOnOneList' /\ OneRecordPerObject' /\ RecordsCount' /\ CountsAgree'
  <1>1. r \notin ListedRecords
    BY DEF IndInv, RecordsOnOneList
  <1>2. CASE Records(s, o) = {}
    <2>1. /\ pUsage' = [pUsage EXCEPT ![s] = @ \cup {r}]
          /\ recObj' = [recObj EXCEPT ![r] = o] /\ recUse' = [recUse EXCEPT ![r] = 1]
          /\ cUsage' = [cUsage EXCEPT ![o] = @ + 1] /\ pUsageFree' = pUsageFree \ {r}
      BY <1>2 DEF Reference
    <2>2. RecordsOnOneList'
      <3>1. usageMem \cup {r} \subseteq usageMem'
        BY DEF IndInv, RecordsOnOneList
      <3>. QED BY <1>1, <2>1, <3>1, ListsAfterAdd
    <2>. QED BY <1>1, <1>2, <2>1, <2>2, RecordNew
  <1>3. CASE Records(s, o) # {}
    <2>1. PICK e \in Records(s, o) : recUse' = [recUse EXCEPT ![e] = @ + 1]
      BY <1>3 DEF Reference
    <2>2. /\ cUsage' = [cUsage EXCEPT ![o] = @ + 1] /\ pUsageFree' = pUsageFree \cup {r}
          /\ UNCHANGED <<pUsage, recObj>>
      BY <1>3 DEF Reference
    <2>3. e \in pUsage[s] /\ recObj[e] = o
      BY DEF Records
    <2>4. RecordsOnOneList'
      <3>1. ListedRecords' = ListedRecords
        BY <2>2 DEF ListedRecords
      <3>. QED BY <1>1, <2>2, <3>1 DEF IndInv, RecordsOnOneList
    <2>. QED BY <2>1, <2>2, <2>3, <2>4, CountUp
  <1>. QED BY <1>2, <1>3

(* The session's record and a first reference for a new object. *)
LEMMA InsertRecords ==
    ASSUME IndInv, NEW s \in Session, NEW o \in Obj, NEW r \in Rec,
           \/ r \in pUsageFree /\ pUsageFree' = pUsageFree \ {r} /\ UNCHANGED usageMem
           \/ r \notin usageMem /\ usageMem' = usageMem \cup {r} /\ UNCHANGED pUsageFree,
           mem[o] \in {"none", "init"}, Insert(s, o, r)
    PROVE  RecordsOnOneList' /\ OneRecordPerObject' /\ RecordsCount' /\ CountsAgree'
  <1>1. /\ r \notin ListedRecords /\ usageMem \cup {r} \subseteq usageMem'
        /\ r \notin pUsageFree' /\ pUsageFree' \subseteq pUsageFree
    BY DEF IndInv, RecordsOnOneList
  <1>2. Records(s, o) = {}
    BY DEF IndInv, RecordsCount, ListedRecords, Records
  <1>3. RecordsOnOneList'
    BY <1>1, ListsAfterAdd DEF Insert
  <1>4. mem[o] \notin {"alloc", "freed"}
    OBVIOUS
  <1>. QED BY <1>1, <1>2, <1>3, <1>4, RecordNew DEF Insert

LEMMA CallRecords ==
    ASSUME IndInv, NEW t \in Thread, NEW s \in Session, NEW o \in Obj, Call(t, s, o)
    PROVE  RecordsOnOneList' /\ OneRecordPerObject' /\ RecordsCount' /\ CountsAgree'
  <1>1. CASE RegisterReuse(t, s, o)
    <2>1. PICK r \in pUsageFree : pUsageFree' = pUsageFree \ {r} /\ Insert(s, o, r)
      BY <1>1 DEF RegisterReuse
    <2>2. r \in Rec /\ mem[o] = "none" /\ UNCHANGED usageMem
      BY <1>1 DEF RegisterReuse, IndInv, TypeOK
    <2>. QED BY <2>1, <2>2, InsertRecords
  <1>2. CASE RegisterNoRecord(t, s, o)
    <2>1. RecordFrame
      BY <1>2 DEF RegisterNoRecord, RecordFrame, recVars, IndInv, TypeOK
    <2>. QED BY <2>1, RecordsStay
  <1>3. CASE AddRefLookup(t, s, o)
    <2>1. RecordFrame
      BY <1>3 DEF AddRefLookup, RecordFrame, recVars, heapVars
    <2>. QED BY <2>1, RecordsStay
  <1>4. CASE AddRefNoBlocking(t, s, o)
    <2>1. PICK e \in Records(s, o) : recUse' = [recUse EXCEPT ![e] = @ + 1]
      BY <1>4 DEF AddRefNoBlocking
    <2>2. /\ e \in pUsage[s] /\ recObj[e] = o /\ cUsage' = [cUsage EXCEPT ![o] = @ + 1]
          /\ UNCHANGED <<pUsage, recObj, mem, pObjs, pUsageFree, usageMem>>
      BY <1>4 DEF Records, AddRefNoBlocking
    <2>3. RecordsOnOneList'
      BY <2>2 DEF IndInv, RecordsOnOneList, ListedRecords
    <2>. QED BY <2>1, <2>2, <2>3, CountUp
  <1>5. CASE ReleaseOne(t, s, o)
    <2>1. PICK e \in Records(s, o) : recUse[e] > 1 /\ recUse' = [recUse EXCEPT ![e] = @ - 1]
      BY <1>5 DEF ReleaseOne, HasMore
    <2>2. /\ e \in pUsage[s] /\ recObj[e] = o /\ cUsage' = [cUsage EXCEPT ![o] = @ - 1]
          /\ UNCHANGED <<pUsage, recObj, mem, pObjs, pUsageFree, usageMem>>
      BY <1>5 DEF Records, ReleaseOne, DropUses
    <2>3. RecordsOnOneList'
      BY <2>2 DEF IndInv, RecordsOnOneList, ListedRecords
    <2>. QED BY <2>1, <2>2, <2>3, CountDown
  <1>6. CASE ReleaseRecord(t, s, o) \/ ReleaseLast(t, s, o)
    <2>1. PICK r \in Records(s, o) : ~HasMore(r) /\ DropRecord(s, r)
      BY <1>6 DEF ReleaseRecord, ReleaseLast
    <2>2. /\ r \in pUsage[s] /\ recObj[r] = o /\ r \in ListedRecords
          /\ pUsage' = [pUsage EXCEPT ![s] = @ \ {r}]
          /\ pUsageFree' = pUsageFree \cup {r} /\ UNCHANGED <<usageMem, recObj, recUse>>
      BY <2>1 DEF DropRecord, Records, ListedRecords
    <2>3. recUse[r] = 1
      BY <2>1, <2>2, CountedTwice DEF HasMore
    <2>4. /\ UNCHANGED mem
          /\ \/ /\ ~AreLast(o, recUse[r]) /\ UNCHANGED pObjs
                /\ cUsage' = [cUsage EXCEPT ![o] = @ - recUse[r]]
             \/ AreLast(o, recUse[r]) /\ UNCHANGED cUsage /\ Unlink(o)
      BY <1>6, <2>3 DEF ReleaseRecord, ReleaseLast, DropUses
    <2>5. RecordsOnOneList'
      BY <2>2, ListsAfterDrop
    <2>. QED BY <2>2, <2>4, <2>5, RecordDropped
  <1>. QED BY <1>1, <1>2, <1>3, <1>4, <1>5, <1>6 DEF Call

LEMMA ContinueRecords ==
    ASSUME IndInv, NEW t \in Thread, Continue(t)
    PROVE  RecordsOnOneList' /\ OneRecordPerObject' /\ RecordsCount' /\ CountsAgree'
  <1>1. CASE RegisterInsert(t)
    <2>1. ses[t] \in Session /\ ob[t] \in Obj /\ mem[ob[t]] = "init"
      BY <1>1 DEF IndInv, ThreadsKnow, RegisterInsert
    <2>2. PICK r \in Allocatable : usageMem' = usageMem \cup {r} /\ Insert(ses[t], ob[t], r)
      BY <1>1 DEF RegisterInsert
    <2>3. r \in Rec /\ r \notin usageMem /\ UNCHANGED pUsageFree
      BY <1>1 DEF RegisterInsert, Allocatable
    <2>. QED BY <2>1, <2>2, <2>3, InsertRecords
  <1>2. CASE AddRefReuse(t) \/ AddRefAlloc(t)
    <2>1. ses[t] \in Session /\ ob[t] \in Obj /\ mem[ob[t]] = "alloc"
      BY <1>2, ObjAssumption DEF IndInv, TypeOK, ThreadsKnow, AddRefReuse, AddRefAlloc,
                                 LinkedOrPublishedIsAllocated
    <2>2. PICK r \in Rec :
            /\ \/ r \in pUsageFree /\ UNCHANGED usageMem
               \/ r \notin usageMem /\ usageMem' = usageMem \cup {r}
            /\ Reference(ses[t], ob[t], r)
      BY <1>2 DEF AddRefReuse, AddRefAlloc, Allocatable, IndInv, TypeOK
    <2>3. UNCHANGED <<mem, pObjs>>
      BY <1>2 DEF AddRefReuse, AddRefAlloc
    <2>. DEFINE s == ses[t]
               o == ob[t]
    <2>4. /\ s \in Session /\ o \in Obj /\ mem[o] = "alloc" /\ Reference(s, o, r)
          /\ \/ r \in pUsageFree /\ UNCHANGED usageMem
             \/ r \notin usageMem /\ usageMem' = usageMem \cup {r}
      BY <2>1, <2>2
    <2>. HIDE DEF s, o
    <2>. QED BY <2>3, <2>4, ReferenceRecords
  <1>3. CASE CleanupDeref(t) \/ CleanupUnlink(t)
    <2>1. ses[t] \in Session
      BY <1>3 DEF IndInv, ThreadsKnow, CleanupDeref, CleanupUnlink
    <2>2. PICK r \in pUsage[ses[t]] :
            /\ TakeRecord(ses[t], r)
            /\ \/ /\ ~AreLast(recObj[r], recUse[r]) /\ UNCHANGED pObjs
                  /\ DropUses(recObj[r], recUse[r])
               \/ AreLast(recObj[r], recUse[r]) /\ UNCHANGED cUsage /\ Unlink(recObj[r])
      BY <1>3 DEF CleanupDeref, CleanupUnlink
    <2>3. /\ pUsage' = [pUsage EXCEPT ![ses[t]] = @ \ {r}]
          /\ usageMem' = usageMem \ {r} /\ UNCHANGED <<pUsageFree, recObj, recUse, mem>>
      BY <1>3, <2>2 DEF TakeRecord, CleanupDeref, CleanupUnlink
    <2>4. RecordsOnOneList'
      BY <2>1, <2>3, ListsAfterDrop
    <2>. DEFINE o == recObj[r]
    <2>5. \/ /\ ~AreLast(o, recUse[r]) /\ UNCHANGED pObjs
             /\ cUsage' = [cUsage EXCEPT ![o] = @ - recUse[r]]
          \/ AreLast(o, recUse[r]) /\ UNCHANGED cUsage /\ Unlink(o)
      BY <2>2 DEF DropUses
    <2>6. recObj[r] = o /\ UNCHANGED <<recObj, recUse, mem>>
      BY <2>3
    <2>. HIDE DEF o
    <2>. QED BY <2>1, <2>3, <2>4, <2>5, <2>6, RecordDropped
  <1>4. CASE RecordFrame
    BY <1>4, RecordsStay
  <1>5. ASSUME RegisterFail(t) PROVE RecordFrame
    BY <1>5 DEF RegisterFail, RecordFrame, recVars, IndInv, TypeOK, ThreadsKnow
  <1>6. ASSUME AddRefDead(t) \/ AddRefNoRecord(t) \/ AddRefNoMemory(t) \/ CleanupDone(t)
        PROVE  RecordFrame
    BY <1>6 DEF AddRefDead, AddRefNoRecord, AddRefNoMemory, CleanupDone, RecordFrame,
                recVars, heapVars
  <1>7. ASSUME AddRefDiedMeanwhile(t) PROVE RecordFrame
    BY <1>7 DEF AddRefDiedMeanwhile, RecordFrame, heapVars
  <1>8. ASSUME Destructor(t) \/ CleanupDestructor(t) PROVE RecordFrame
    BY <1>8 DEF Destructor, CleanupDestructor, RecordFrame, recVars, heapVars
  <1>9. ASSUME FreeObject(t) \/ CleanupFree(t) PROVE RecordFrame
    <2>1. mem[ob[t]] = "alloc" /\ mem' = [mem EXCEPT ![ob[t]] = "freed"]
      BY <1>9 DEF FreeObject, CleanupFree, Free, IndInv, DestroyedOnce, Destroying
    <2>. QED BY <1>9, <2>1 DEF FreeObject, CleanupFree, RecordFrame, recVars, IndInv, TypeOK
  <1>. QED BY <1>1, <1>2, <1>3, <1>4, <1>5, <1>6, <1>7, <1>8, <1>9 DEF Continue

-----------------------------------------------------------------------------
(* The threads. *)
LEMMA CallThreads ==
    ASSUME IndInv, NEW t \in Thread, NEW s \in Session, NEW o \in Obj, Call(t, s, o)
    PROVE  ThreadsKnow' /\ LinkedOrPublishedIsAllocated' /\ DestroyedOnce'
  <1>. USE ObjAssumption DEF IndInv, TypeOK, ThreadsKnow, LinkedOrPublishedIsAllocated,
           DestroyedOnce, Destroying, CanCall
  <1>1. CASE RegisterReuse(t, s, o)
    <2>1. /\ mem' = [mem EXCEPT ![o] = "alloc"] /\ mem[o] = "none"
          /\ pObjs' = pObjs \cup {o} /\ dir' = dir \cup ({o} \cap Shared)
          /\ UNCHANGED <<dirOwner, pc, ses, ob>>
      BY <1>1 DEF RegisterReuse, Insert, thrVars
    <2>. QED BY <2>1
  <1>2. CASE RegisterNoRecord(t, s, o)
    BY <1>2 DEF RegisterNoRecord, Goto
  <1>3. CASE AddRefLookup(t, s, o)
    BY <1>3 DEF AddRefLookup, Goto, heapVars
  <1>4. CASE AddRefNoBlocking(t, s, o) \/ ReleaseOne(t, s, o) \/ ReleaseRecord(t, s, o)
    BY <1>4 DEF AddRefNoBlocking, ReleaseOne, ReleaseRecord, dirVars, thrVars
  <1>5. CASE ReleaseLast(t, s, o)
    <2>1. o \in pObjs
      <3>1. PICK r \in Records(s, o) : ~HasMore(r)
        BY <1>5 DEF ReleaseLast
      <3>2. r \in ListedRecords /\ recObj[r] = o
        BY DEF Records, ListedRecords
      <3>3. AreLast(o, 1)
        BY <1>5 DEF ReleaseLast
      <3>. QED BY <3>1, <3>2, <3>3, CountedTwice DEF HasMore, AreLast
    <2>2. /\ pObjs' = pObjs \ {o} /\ UNCHANGED <<mem, dir, dirOwner>>
          /\ Goto(t, "dtor", s, o) /\ pc[t] = "idle"
      BY <1>5 DEF ReleaseLast, CanRelease, Unlink, dirVars
    <2>. QED BY <2>1, <2>2 DEF Goto
  <1>. QED BY <1>1, <1>2, <1>3, <1>4, <1>5 DEF Call

LEMMA ContinueThreads ==
    ASSUME IndInv, NEW t \in Thread, Continue(t)
    PROVE  ThreadsKnow' /\ LinkedOrPublishedIsAllocated' /\ DestroyedOnce'
  <1>. USE ObjAssumption DEF IndInv, TypeOK, ThreadsKnow, LinkedOrPublishedIsAllocated,
           DestroyedOnce, Destroying
  <1>1. CASE RegisterInsert(t)
    <2>1. /\ mem' = [mem EXCEPT ![ob[t]] = "alloc"] /\ pc[t] = "regAlloc"
          /\ pObjs' = pObjs \cup {ob[t]} /\ dir' = dir \cup ({ob[t]} \cap Shared)
          /\ UnlockDir(t) /\ Return(t)
      BY <1>1 DEF RegisterInsert, Insert
    <2>. QED BY <2>1 DEF UnlockDir, Return, Goto
  <1>2. CASE RegisterFail(t)
    BY <1>2 DEF RegisterFail, UnlockDir, Return, Goto
  <1>3. CASE AddRefDead(t) \/ AddRefReuse(t) \/ AddRefNoMemory(t) \/ AddRefAlloc(t)
               \/ AddRefDiedMeanwhile(t)
    <2>1. UnlockDir(t) /\ Return(t) /\ UNCHANGED <<mem, pObjs, dir>>
      BY <1>3 DEF AddRefDead, AddRefReuse, AddRefNoMemory, AddRefAlloc,
                  AddRefDiedMeanwhile, heapVars
    <2>. QED BY <2>1 DEF UnlockDir, Return, Goto
  <1>4. CASE AddRefNoRecord(t)
    BY <1>4 DEF AddRefNoRecord, heapVars, dirVars
  <1>5. CASE Destructor(t) \/ CleanupDestructor(t)
    <2>1. /\ Withdraw(ob[t]) /\ UNCHANGED <<mem, pObjs, dirOwner, ses, ob>>
          /\ \/ pc[t] = "dtor" /\ pc' = [pc EXCEPT ![t] = "free"]
             \/ pc[t] = "cleanDtor" /\ pc' = [pc EXCEPT ![t] = "cleanFree"]
      BY <1>5 DEF Destructor, CleanupDestructor, heapVars
    <2>. QED BY <2>1 DEF Withdraw
  <1>6. CASE FreeObject(t) \/ CleanupFree(t)
    <2>1. /\ mem' = [mem EXCEPT ![ob[t]] = "freed"] /\ pc[t] \in {"free", "cleanFree"}
          /\ \/ Goto(t, "idle", NONE, NONE)
             \/ Goto(t, "cleanup", ses[t], NONE)
          /\ UNCHANGED <<pObjs, dir, dirOwner>>
      BY <1>6 DEF FreeObject, CleanupFree, Free, Return, dirVars
    <2>. QED BY <2>1 DEF Goto
  <1>7. CASE CleanupDeref(t)
    BY <1>7 DEF CleanupDeref, dirVars, thrVars
  <1>8. CASE CleanupUnlink(t)
    <2>1. PICK r \in pUsage[ses[t]] : /\ AreLast(recObj[r], recUse[r])
                                      /\ Unlink(recObj[r])
                                      /\ Goto(t, "cleanDtor", ses[t], recObj[r])
      BY <1>8 DEF CleanupUnlink
    <2>2. recObj[r] \in pObjs
      <3>1. r \in ListedRecords
        BY <1>8 DEF CleanupUnlink, ListedRecords
      <3>. QED BY <2>1, <3>1, CountedTwice
    <2>3. pc[t] = "cleanup" /\ UNCHANGED <<mem, dir, dirOwner>>
      BY <1>8 DEF CleanupUnlink, dirVars
    <2>. QED BY <2>1, <2>2, <2>3 DEF Unlink, Goto
  <1>9. CASE CleanupDone(t)
    BY <1>9 DEF CleanupDone, Return, Goto, heapVars, dirVars
  <1>. QED BY <1>1, <1>2, <1>3, <1>4, <1>5, <1>6, <1>7, <1>8, <1>9 DEF Continue

-----------------------------------------------------------------------------
LEMMA NextIndInv == IndInv /\ [Next]_vars => IndInv'
  <1>. SUFFICES ASSUME IndInv, [Next]_vars PROVE IndInv'
    OBVIOUS
  <1>1. ASSUME NEW s \in Session, CreateSession(s) PROVE IndInv'
    <2>1. RecordFrame
      BY <1>1 DEF CreateSession, RecordFrame, heapVars, recVars
    <2>2. TypeOK'
      BY <1>1 DEF IndInv, TypeOK, CreateSession, heapVars, recVars, dirVars, thrVars
    <2>3. ThreadsKnow' /\ LinkedOrPublishedIsAllocated' /\ DestroyedOnce'
      BY <1>1 DEF CreateSession, heapVars, dirVars, thrVars, IndInv, ThreadsKnow,
                  LinkedOrPublishedIsAllocated, DestroyedOnce, Destroying
    <2>. QED BY <2>1, <2>2, <2>3, RecordsStay DEF IndInv
  <1>2. ASSUME NEW t \in Thread, NEW s \in Session, NEW o \in Obj, Call(t, s, o)
        PROVE  IndInv'
    BY <1>2, CallTypeOK, CallRecords, CallThreads DEF IndInv
  <1>3. ASSUME NEW t \in Thread, NEW s \in Session, CloseSession(t, s) PROVE IndInv'
    <2>1. RecordFrame
      BY <1>3 DEF CloseSession, RecordFrame, heapVars, recVars
    <2>2. TypeOK'
      BY <1>3 DEF IndInv, TypeOK, CloseSession, Goto, PC, heapVars, recVars, dirVars
    <2>3. ThreadsKnow' /\ LinkedOrPublishedIsAllocated' /\ DestroyedOnce'
      BY <1>3 DEF CloseSession, CanCall, Goto, heapVars, dirVars, IndInv, TypeOK, ThreadsKnow,
                  LinkedOrPublishedIsAllocated, DestroyedOnce, Destroying
    <2>. QED BY <2>1, <2>2, <2>3, RecordsStay DEF IndInv
  <1>4. ASSUME NEW t \in Thread, Continue(t) PROVE IndInv'
    BY <1>4, ContinueTypeOK, ContinueRecords, ContinueThreads DEF IndInv
  <1>5. CASE UNCHANGED vars
    <2>1. RecordFrame
      BY <1>5 DEF vars, RecordFrame, heapVars, recVars
    <2>2. TypeOK'
      BY <1>5 DEF IndInv, TypeOK, vars, heapVars, recVars, dirVars, thrVars
    <2>3. ThreadsKnow' /\ LinkedOrPublishedIsAllocated' /\ DestroyedOnce'
      BY <1>5 DEF vars, heapVars, dirVars, thrVars, IndInv, ThreadsKnow,
                  LinkedOrPublishedIsAllocated, DestroyedOnce, Destroying
    <2>. QED BY <2>1, <2>2, <2>3, RecordsStay DEF IndInv
  <1>. QED BY <1>1, <1>2, <1>3, <1>4, <1>5 DEF Next

(* Every reachable state satisfies the inductive invariant of the registry *)
(* (SUPR0ObjRegister, SUPR0ObjAddRefEx, SUPR0ObjRelease and                *)
(* supdrvCleanupSession), however many sessions and threads there are.     *)
THEOREM InductiveInvariant == Spec => []IndInv
  <1>1. Init => IndInv
    BY InitIndInv
  <1>2. IndInv /\ [Next]_vars => IndInv'
    BY NextIndInv
  <1>. QED BY <1>1, <1>2, PTL DEF Spec

(* Type correctness: in particular no count of a record or of an object    *)
(* ever goes below zero.                                                   *)
THEOREM TypeCorrect == Spec => []TypeOK
  <1>1. IndInv => TypeOK
    BY DEF IndInv
  <1>. QED BY <1>1, InductiveInvariant, PTL

(* The global count of a linked object is the sum of its sessions' counts. *)
THEOREM CountsAreExact == Spec => []RefCountExact
  <1>1. IndInv => RefCountExact
    BY DEF IndInv, TypeOK, CountsAgree, RefCountExact
  <1>. QED BY <1>1, InductiveInvariant, PTL

(* A session has at most one usage record per object. *)
THEOREM RecordsAreUnique == Spec => []OneRecordPerObject
  <1>1. IndInv => OneRecordPerObject
    BY DEF IndInv
  <1>. QED BY <1>1, InductiveInvariant, PTL

(* A usage record is on one list only, and allocated. *)
THEOREM ListsAreDisjoint == Spec => []RecordsOnOneList
  <1>1. IndInv => RecordsOnOneList
    BY DEF IndInv
  <1>. QED BY <1>1, InductiveInvariant, PTL

(* An object is not freed while a SUPR0ObjAddRefEx that found it in its    *)
(* component's directory is in progress.                                   *)
THEOREM AddRefIsSafe == Spec => []NoUseAfterFree
  <1>1. IndInv => NoUseAfterFree
    BY ObjAssumption DEF IndInv, TypeOK, ThreadsKnow, LinkedOrPublishedIsAllocated,
                         NoUseAfterFree
  <1>. QED BY <1>1, InductiveInvariant, PTL

(* No object is destroyed by two threads, nor while it is linked. *)
THEOREM DestructionIsExclusive == Spec => []DestroyedOnce
  <1>1. IndInv => DestroyedOnce
    BY DEF IndInv
  <1>. QED BY <1>1, InductiveInvariant, PTL

-----------------------------------------------------------------------------
(* Sessions that release their shared references before they close.        *)

(* Lists that lose records keep what OrderlyInv says of listed records.    *)
LEMMA OrderlyCall ==
    ASSUME IndInv, OrderlyInv,
           NEW t \in Thread, NEW s \in Session, NEW o \in Obj, Call(t, s, o)
    PROVE  OrderlyInv'
  <1>. USE ObjAssumption DEF IndInv, TypeOK, NoDanglingRecord, ClosingIsPrivate,
           SessionsMatch, CleaningUp, AliveIsLinked, IsAlive, CanCall
  <1>0. session[s] = "open" /\ pc[t] = "idle" /\ UNCHANGED session
    BY DEF Call, RegisterReuse, RegisterNoRecord, AddRefLookup, AddRefNoBlocking, ReleaseOne,
           ReleaseRecord, ReleaseLast, CanRelease
  <1>1. CASE RegisterReuse(t, s, o)
    <2>1. PICK r \in pUsageFree : Insert(s, o, r)
      BY <1>1 DEF RegisterReuse
    <2>2. ListedRecords' = ListedRecords \cup {r} /\ r \notin ListedRecords /\ r \in Rec
      BY <2>1, RecordAdded DEF Insert, RecordsOnOneList
    <2>3. UNCHANGED <<session, thrVars>>
      BY <1>1 DEF RegisterReuse
    <2>4. NoDanglingRecord'
      <3>1. \A e \in ListedRecords : recObj'[e] = recObj[e]
        BY <2>1, <2>2, ListedAreRecords DEF Insert
      <3>. QED BY <2>1, <2>2, <3>1 DEF Insert, OrderlyInv
    <2>5. ClosingIsPrivate'
      <3>1. \A q \in Session : q # s => pUsage'[q] = pUsage[q] /\ r \notin pUsage[q]
        BY <2>1, <2>2 DEF Insert, ListedRecords
      <3>2. \A e \in Rec : e # r => recObj'[e] = recObj[e]
        BY <2>1 DEF Insert
      <3>. QED BY <1>0, <3>1, <3>2 DEF OrderlyInv
    <2>6. SessionsMatch'
      BY <2>3 DEF OrderlyInv, thrVars
    <2>7. AliveIsLinked'
      BY <2>1 DEF Insert, OrderlyInv
    <2>. QED BY <2>4, <2>5, <2>6, <2>7 DEF OrderlyInv
  <1>2. CASE RegisterNoRecord(t, s, o)
    BY <1>0, <1>2 DEF RegisterNoRecord, Goto, recVars, OrderlyInv, ListedRecords
  <1>3. CASE AddRefLookup(t, s, o)
    BY <1>0, <1>3 DEF AddRefLookup, Goto, recVars, heapVars, OrderlyInv, ListedRecords
  <1>4. CASE AddRefNoBlocking(t, s, o) \/ ReleaseOne(t, s, o)
    BY <1>0, <1>4 DEF AddRefNoBlocking, ReleaseOne, dirVars, thrVars, OrderlyInv, ListedRecords
  <1>5. CASE ReleaseRecord(t, s, o) \/ ReleaseLast(t, s, o)
    <2>1. PICK r \in Records(s, o) : ~HasMore(r) /\ DropRecord(s, r)
      BY <1>5 DEF ReleaseRecord, ReleaseLast
    <2>2. r \in pUsage[s] /\ recObj[r] = o /\ r \in ListedRecords /\ UNCHANGED recObj
      BY <2>1 DEF DropRecord, Records, ListedRecords
    <2>3. ListedRecords' = ListedRecords \ {r} /\ \A q \in Session : pUsage'[q] \subseteq pUsage[q]
      BY <2>1, <2>2, RecordTaken DEF DropRecord
    <2>4. CASE ReleaseRecord(t, s, o)
      <3>1. UNCHANGED <<session, u32Magic, pObjs, dirVars, thrVars>>
        BY <2>4 DEF ReleaseRecord
      <3>. QED BY <2>2, <2>3, <3>1 DEF dirVars, thrVars, OrderlyInv
    <2>5. CASE ReleaseLast(t, s, o)
      <3>1. /\ u32Magic' = [u32Magic EXCEPT ![o] = DEAD] /\ pObjs' = pObjs \ {o}
            /\ Goto(t, "dtor", s, o) /\ UNCHANGED dir
        BY <2>5 DEF ReleaseLast, Unlink, dirVars
      <3>2. recUse[r] = 1 /\ AreLast(o, recUse[r])
        BY <2>1, <2>2, <2>5, CountedTwice DEF HasMore, ReleaseLast
      <3>3. NoDanglingRecord'
        <4>1. \A q \in ListedRecords : q # r => recObj[q] # o
          BY <2>2, <3>2, LastReferences
        <4>. QED BY <2>2, <2>3, <3>1, <4>1 DEF OrderlyInv
      <3>. QED BY <1>0, <2>2, <2>3, <3>1, <3>3 DEF Goto, DEAD, MAGIC, OrderlyInv
    <2>. QED BY <1>5, <2>4, <2>5
  <1>. QED BY <1>1, <1>2, <1>3, <1>4, <1>5 DEF Call

LEMMA OrderlyContinue ==
    ASSUME IndInv, OrderlyInv, NEW t \in Thread, Continue(t)
    PROVE  OrderlyInv'
  <1>. USE ObjAssumption DEF IndInv, TypeOK, NoDanglingRecord, ClosingIsPrivate,
           SessionsMatch, CleaningUp, AliveIsLinked, IsAlive
  <1>1. CASE RegisterInsert(t)
    <2>1. PICK r \in Allocatable : Insert(ses[t], ob[t], r)
      BY <1>1 DEF RegisterInsert
    <2>. DEFINE s == ses[t]
               o == ob[t]
    <2>2. /\ s \in Session /\ o \in Obj /\ session[s] = "open" /\ mem[o] = "init"
          /\ UNCHANGED session /\ Return(t)
      BY <1>1 DEF RegisterInsert, ThreadsKnow, OrderlyInv
    <2>3. Insert(s, o, r)
      BY <2>1
    <2>. HIDE DEF s, o
    <2>4. ListedRecords' = ListedRecords \cup {r} /\ r \notin ListedRecords /\ r \in Rec
      BY <2>2, <2>3, RecordAdded DEF Insert, RecordsOnOneList, Allocatable
    <2>5. NoDanglingRecord'
      <3>1. \A e \in ListedRecords : recObj'[e] = recObj[e]
        BY <2>3, <2>4, ListedAreRecords DEF Insert
      <3>. QED BY <2>3, <2>4, <3>1 DEF Insert, OrderlyInv
    <2>6. ClosingIsPrivate'
      <3>1. \A q \in Session : q # s => pUsage'[q] = pUsage[q] /\ r \notin pUsage[q]
        BY <2>3, <2>4 DEF Insert, ListedRecords
      <3>2. \A e \in Rec : e # r => recObj'[e] = recObj[e]
        BY <2>3 DEF Insert
      <3>. QED BY <2>2, <3>1, <3>2 DEF OrderlyInv
    <2>7. SessionsMatch'
      BY <2>2 DEF OrderlyInv, Return, Goto
    <2>8. AliveIsLinked'
      BY <2>2, <2>3 DEF Insert, OrderlyInv
    <2>. QED BY <2>5, <2>6, <2>7, <2>8 DEF OrderlyInv
  <1>2. CASE RegisterFail(t)
    BY <1>2 DEF RegisterFail, Return, Goto, recVars, OrderlyInv, ListedRecords
  <1>3. CASE AddRefReuse(t) \/ AddRefAlloc(t)
    <2>. DEFINE s == ses[t]
               o == ob[t]
    <2>1. PICK r \in Rec : Reference(s, o, r) /\ r \notin ListedRecords
      BY <1>3 DEF AddRefReuse, AddRefAlloc, Allocatable, RecordsOnOneList
    <2>2. /\ s \in Session /\ o \in dir /\ session[s] = "open" /\ IsAlive(o)
          /\ UNCHANGED <<session, pObjs, dir, u32Magic>> /\ Return(t)
      BY <1>3 DEF AddRefReuse, AddRefAlloc, ThreadsKnow, OrderlyInv
    <2>3. o \in pObjs
      BY <2>2 DEF OrderlyInv
    <2>. HIDE DEF s, o
    <2>4. SessionsMatch' /\ AliveIsLinked'
      BY <2>2 DEF OrderlyInv, Return, Goto
    <2>5. CASE Records(s, o) # {}
      <3>1. UNCHANGED <<pUsage, recObj>>
        BY <2>1, <2>5 DEF Reference
      <3>. QED BY <2>2, <2>4, <3>1 DEF OrderlyInv, ListedRecords
    <2>6. CASE Records(s, o) = {}
      <3>1. /\ pUsage' = [pUsage EXCEPT ![s] = @ \cup {r}]
            /\ recObj' = [recObj EXCEPT ![r] = o]
        BY <2>1, <2>6 DEF Reference
      <3>2. ListedRecords' = ListedRecords \cup {r}
        BY <2>2, <3>1, RecordAdded
      <3>3. NoDanglingRecord'
        <4>1. \A e \in ListedRecords : recObj'[e] = recObj[e]
          BY <2>1, <3>1, ListedAreRecords
        <4>. QED BY <2>2, <2>3, <3>1, <3>2, <4>1 DEF OrderlyInv
      <3>4. ClosingIsPrivate'
        <4>1. \A q \in Session : q # s => pUsage'[q] = pUsage[q] /\ r \notin pUsage[q]
          BY <2>1, <3>1 DEF ListedRecords
        <4>2. \A e \in Rec : e # r => recObj'[e] = recObj[e]
          BY <3>1
        <4>. QED BY <2>2, <4>1, <4>2 DEF OrderlyInv
      <3>. QED BY <2>4, <3>3, <3>4 DEF OrderlyInv
    <2>. QED BY <2>5, <2>6
  <1>4. CASE AddRefDead(t) \/ AddRefNoMemory(t) \/ AddRefDiedMeanwhile(t)
    BY <1>4 DEF AddRefDead, AddRefNoMemory, AddRefDiedMeanwhile, Return, Goto, recVars,
                heapVars, OrderlyInv, ListedRecords
  <1>5. CASE AddRefNoRecord(t)
    BY <1>5 DEF AddRefNoRecord, recVars, heapVars, dirVars, OrderlyInv, ListedRecords
  <1>6. CASE Destructor(t) \/ CleanupDestructor(t)
    BY <1>6 DEF Destructor, CleanupDestructor, Withdraw, recVars, heapVars, OrderlyInv,
                ListedRecords
  <1>7. CASE FreeObject(t) \/ CleanupFree(t)
    BY <1>7 DEF FreeObject, CleanupFree, Return, Goto, recVars, dirVars, OrderlyInv,
                ListedRecords
  <1>8. CASE CleanupDeref(t) \/ CleanupUnlink(t)
    <2>. DEFINE s == ses[t]
    <2>1. s \in Session /\ session[s] = "closing" /\ UNCHANGED <<session, u32Magic, dir>>
      BY <1>8 DEF CleanupDeref, CleanupUnlink, ThreadsKnow, OrderlyInv, dirVars
    <2>2. PICK r \in pUsage[s] :
            /\ TakeRecord(s, r)
            /\ \/ UNCHANGED <<pObjs, thrVars>>
               \/ /\ AreLast(recObj[r], recUse[r]) /\ Unlink(recObj[r])
                  /\ Goto(t, "cleanDtor", s, recObj[r])
      BY <1>8 DEF CleanupDeref, CleanupUnlink
    <2>. HIDE DEF s
    <2>3. r \in ListedRecords /\ recObj[r] \notin Shared /\ UNCHANGED recObj
      BY <2>1, <2>2 DEF TakeRecord, ListedRecords, OrderlyInv
    <2>4. ListedRecords' = ListedRecords \ {r} /\ \A q \in Session : pUsage'[q] \subseteq pUsage[q]
      BY <2>1, <2>2, RecordTaken DEF TakeRecord
    <2>5. CASE UNCHANGED <<pObjs, thrVars>>
      BY <2>1, <2>3, <2>4, <2>5 DEF OrderlyInv, thrVars
    <2>6. CASE /\ AreLast(recObj[r], recUse[r]) /\ Unlink(recObj[r])
               /\ Goto(t, "cleanDtor", s, recObj[r])
      <3>1. \A q \in ListedRecords : q # r => recObj[q] # recObj[r]
        BY <2>3, <2>6, LastReferences
      <3>2. NoDanglingRecord'
        BY <2>3, <2>4, <2>6, <3>1 DEF Unlink, OrderlyInv
      <3>3. ClosingIsPrivate'
        BY <2>1, <2>3, <2>4 DEF OrderlyInv
      <3>4. SessionsMatch'
        <4>1. pc[t] = "cleanup" /\ s = ses[t]
          BY <1>8 DEF CleanupDeref, CleanupUnlink, s
        <4>. QED BY <2>1, <2>6, <4>1 DEF Goto, OrderlyInv
      <3>5. AliveIsLinked'
        BY <2>1, <2>3, <2>6 DEF Unlink, OrderlyInv
      <3>. QED BY <3>2, <3>3, <3>4, <3>5 DEF OrderlyInv
    <2>. QED BY <2>2, <2>5, <2>6
  <1>9. CASE CleanupDone(t)
    BY <1>9 DEF CleanupDone, ThreadsKnow, Return, Goto, recVars, heapVars, dirVars,
                OrderlyInv, ListedRecords
  <1>. QED BY <1>1, <1>2, <1>3, <1>4, <1>5, <1>6, <1>7, <1>8, <1>9 DEF Continue

LEMMA NextOrderly ==
    ASSUME AbruptClose = FALSE
    PROVE  IndInv /\ OrderlyInv /\ [Next]_vars => OrderlyInv'
  <1>. SUFFICES ASSUME IndInv, OrderlyInv, [Next]_vars PROVE OrderlyInv'
    OBVIOUS
  <1>. USE DEF OrderlyInv, NoDanglingRecord, ClosingIsPrivate, SessionsMatch, CleaningUp,
               AliveIsLinked, IsAlive, ListedRecords
  <1>1. ASSUME NEW s \in Session, CreateSession(s) PROVE OrderlyInv'
    BY <1>1 DEF CreateSession, heapVars, recVars, dirVars, thrVars, IndInv, TypeOK, ThreadsKnow
  <1>2. ASSUME NEW t \in Thread, NEW s \in Session, NEW o \in Obj, Call(t, s, o)
        PROVE  OrderlyInv'
    BY <1>2, OrderlyCall
  <1>3. ASSUME NEW t \in Thread, NEW s \in Session, CloseSession(t, s) PROVE OrderlyInv'
    BY <1>3 DEF CloseSession, CanCall, Goto, Records, heapVars, recVars, dirVars, IndInv,
                TypeOK, ThreadsKnow
  <1>4. ASSUME NEW t \in Thread, Continue(t) PROVE OrderlyInv'
    BY <1>4, OrderlyContinue
  <1>5. CASE UNCHANGED vars
    BY <1>5 DEF vars, heapVars, recVars, dirVars, thrVars
  <1>. QED BY <1>1, <1>2, <1>3, <1>4, <1>5 DEF Next

(* If sessions release what they share before they close (the destructor   *)
(* of a shared object then only runs from SUPR0ObjRelease, which marks it  *)
(* dead first), no session ever references an object being destroyed:      *)
(* the second magic check of SUPR0ObjAddRefEx is enough.                   *)
THEOREM NothingDangles ==
    ASSUME AbruptClose = FALSE
    PROVE  Spec => []NoDanglingRecord
  <1>1. Init => OrderlyInv
    BY DEF Init, OrderlyInv, NoDanglingRecord, ClosingIsPrivate, SessionsMatch, CleaningUp,
           AliveIsLinked, ListedRecords
  <1>2. IndInv /\ OrderlyInv /\ [Next]_vars => OrderlyInv'
    BY NextOrderly
  <1>3. OrderlyInv => NoDanglingRecord
    BY DEF OrderlyInv
  <1>. QED BY <1>1, <1>2, <1>3, InductiveInvariant, PTL DEF Spec

-----------------------------------------------------------------------------
(***************************************************************************)
(* SUPDrvObj implements ObjRegistry when sessions release what they share  *)
(* before they close: every step maps to a step of the registry or leaves  *)
(* it as it is.                                                            *)
(***************************************************************************)

(* The references a session's records R count for object o. *)
CountIn(R, obj, use, o) ==
    IF {r \in R : obj[r] = o} = {} THEN 0
    ELSE use[CHOOSE r \in {q \in R : obj[q] = o} : TRUE]

(* Record r is the only one in R for o; the records for o count the same.  *)
Only(R, obj, o, r) == r \in R /\ obj[r] = o /\ \A q \in R : obj[q] = o => q = r
Agree(R, obj, o, use, use2) == \A r \in R : obj[r] = o => use2[r] = use[r]

LEMMA CountOfRecord ==
    ASSUME NEW R, NEW obj, NEW use, NEW o, NEW r, Only(R, obj, o, r)
    PROVE  CountIn(R, obj, use, o) = use[r]
  <1>1. {q \in R : obj[q] = o} = {r}
    BY DEF Only
  <1>2. (CHOOSE q \in {r} : TRUE) = r
    OBVIOUS
  <1>. QED BY <1>1, <1>2 DEF CountIn

LEMMA CountOfNone ==
    ASSUME NEW R, NEW obj, NEW use, NEW o, \A r \in R : obj[r] # o
    PROVE  CountIn(R, obj, use, o) = 0
  BY DEF CountIn

LEMMA CountSame ==
    ASSUME NEW R, NEW obj, NEW use, NEW Q, NEW obj2, NEW use2, NEW o,
           {r \in Q : obj2[r] = o} = {r \in R : obj[r] = o}, Agree(R, obj, o, use, use2)
    PROVE  CountIn(Q, obj2, use2, o) = CountIn(R, obj, use, o)
  <1>. DEFINE S == {r \in R : obj[r] = o}
  <1>1. CASE S = {}
    BY <1>1 DEF CountIn
  <1>2. CASE S # {}
    <2>1. (CHOOSE r \in S : TRUE) \in S
      BY <1>2
    <2>. QED BY <1>2, <2>1 DEF CountIn, Agree
  <1>. QED BY <1>1, <1>2

(* The refinement mapping in these terms, before and after a step. *)
Refs0(s, o) == CountIn(pUsage[s], recObj, recUse, o)

LEMMA RefsAreCounts ==
    /\ RegistryRefs  = [s \in Session |-> [o \in Obj |-> Refs0(s, o)]]
    /\ RegistryRefs' = [s \in Session |-> [o \in Obj |-> Refs0(s, o)']]
  BY DEF RegistryRefs, Refs0, CountIn, Records

LEMMA RefsUpdated ==
    ASSUME NEW s \in Session, NEW o \in Obj, NEW n, Refs0(s, o)' = n,
           \A q \in Session, p \in Obj : q # s \/ p # o => Refs0(q, p)' = Refs0(q, p)
    PROVE  /\ RegistryRefs' = [RegistryRefs EXCEPT ![s][o] = n]
           /\ RegistryRefs[s][o] = Refs0(s, o)
           /\ \A q \in Session : RegistryRefs'[q][o] = Refs0(q, o)'
  <1>. DEFINE f(q, p) == Refs0(q, p)
              g(q, p) == Refs0(q, p)'
  <1>1. /\ RegistryRefs = [q \in Session |-> [p \in Obj |-> f(q, p)]]
        /\ RegistryRefs' = [q \in Session |-> [p \in Obj |-> g(q, p)]]
    BY RefsAreCounts
  <1>2. g(s, o) = n /\ \A q \in Session, p \in Obj : q # s \/ p # o => g(q, p) = f(q, p)
    OBVIOUS
  <1>. HIDE DEF f, g
  <1>3. [q \in Session |-> [p \in Obj |-> g(q, p)]]
          = [[q \in Session |-> [p \in Obj |-> f(q, p)]] EXCEPT ![s][o] = n]
    <2>. DEFINE F == [q \in Session |-> [p \in Obj |-> f(q, p)]]
                G == [F EXCEPT ![s][o] = n]
    <2>1. DOMAIN G = Session /\ \A q \in Session : G[q] = IF q = s THEN [F[s] EXCEPT ![o] = n] ELSE F[q]
      OBVIOUS
    <2>2. ASSUME NEW q \in Session PROVE [p \in Obj |-> g(q, p)] = G[q]
      BY <1>2, <2>1
    <2>3. G = [q \in Session |-> G[q]]
      BY <2>1
    <2>. QED BY <2>2, <2>3
  <1>4. \A q \in Session : /\ RegistryRefs[q][o] = f(q, o)
                           /\ RegistryRefs'[q][o] = g(q, o)
    BY <1>1
  <1>. QED BY <1>1, <1>3, <1>4 DEF f, g

(* A step that changes no record and no object's life is no step of the    *)
(* registry.                                                               *)
LEMMA Stutters ==
    ASSUME UNCHANGED <<pUsage, recObj, recUse>>, RegistryState' = RegistryState
    PROVE  UNCHANGED Registry!vars
  BY DEF RegistryRefs, Records, Registry!vars

-----------------------------------------------------------------------------
(* A new record r for session s and object o. *)
LEMMA NewRecordCounts ==
    ASSUME IndInv, NEW s \in Session, NEW o \in Obj, NEW r \in Rec, r \notin ListedRecords,
           Records(s, o) = {},
           pUsage' = [pUsage EXCEPT ![s] = @ \cup {r}],
           recObj' = [recObj EXCEPT ![r] = o], recUse' = [recUse EXCEPT ![r] = 1]
    PROVE  /\ RegistryRefs' = [RegistryRefs EXCEPT ![s][o] = 1]
           /\ RegistryRefs[s][o] = 0
  <1>1. /\ \A q \in Session : pUsage[q] \in SUBSET Rec /\ r \notin pUsage[q]
        /\ \A q \in Session : pUsage'[q] = IF q = s THEN pUsage[q] \cup {r} ELSE pUsage[q]
        /\ \A e \in Rec : e # r => recObj'[e] = recObj[e] /\ recUse'[e] = recUse[e]
        /\ recObj'[r] = o /\ recUse'[r] = 1
        /\ \A e \in pUsage[s] : recObj[e] # o
    BY DEF IndInv, TypeOK, ListedRecords, Records
  <1>2. Refs0(s, o) = 0
    BY <1>1, CountOfNone DEF Refs0
  <1>3. Refs0(s, o)' = 1
    <2>. DEFINE R == pUsage'[s]
                B == recObj'
                U == recUse'
    <2>1. Only(R, B, o, r)
      BY <1>1 DEF Only
    <2>. HIDE DEF R, B, U
    <2>2. CountIn(R, B, U, o) = U[r]
      BY <2>1, CountOfRecord
    <2>. QED BY <1>1, <2>2 DEF Refs0, R, B, U
  <1>4. ASSUME NEW q \in Session, NEW p \in Obj, q # s \/ p # o
        PROVE  Refs0(q, p)' = Refs0(q, p)
    <2>. DEFINE R == pUsage'[q]
                B == recObj'
                U == recUse'
    <2>1. {e \in R : B[e] = p} = {e \in pUsage[q] : recObj[e] = p}
      BY <1>1, <1>4
    <2>2. Agree(pUsage[q], recObj, p, recUse, U)
      BY <1>1 DEF Agree
    <2>. HIDE DEF R, B, U
    <2>3. CountIn(R, B, U, p) = CountIn(pUsage[q], recObj, recUse, p)
      BY <2>1, <2>2, CountSame
    <2>. QED BY <2>3 DEF Refs0, R, B, U
  <1>. QED BY <1>2, <1>3, <1>4, RefsUpdated

(* The record r of a session counts n references from now on. *)
LEMMA RecordRecounts ==
    ASSUME IndInv, NEW s \in Session, NEW o \in Obj, NEW r \in Records(s, o), NEW n,
           recUse' = Put(recUse, r, n), UNCHANGED <<pUsage, recObj>>
    PROVE  /\ RegistryRefs' = [RegistryRefs EXCEPT ![s][o] = n]
           /\ RegistryRefs[s][o] = recUse[r]
           /\ RegistryRefs'[s][o] = n
  <1>1. /\ \A q \in Session : pUsage[q] \in SUBSET Rec
        /\ r \in pUsage[s] /\ r \in Rec /\ recObj[r] = o
        /\ \A e \in Rec : e # r => recUse'[e] = recUse[e]
        /\ recUse'[r] = n
        /\ Only(pUsage[s], recObj, o, r)
        /\ \A q \in Session : q # s => r \notin pUsage[q]
    BY DEF Put, Only, IndInv, TypeOK, OneRecordPerObject, RecordsOnOneList, Records
  <1>2. Refs0(s, o) = recUse[r]
    BY <1>1, CountOfRecord DEF Refs0
  <1>3. Refs0(s, o)' = n
    <2>. DEFINE U == recUse'
    <2>. HIDE DEF U
    <2>1. CountIn(pUsage[s], recObj, U, o) = U[r]
      BY <1>1, CountOfRecord
    <2>. QED BY <1>1, <2>1 DEF Refs0, U
  <1>4. ASSUME NEW q \in Session, NEW p \in Obj, q # s \/ p # o
        PROVE  Refs0(q, p)' = Refs0(q, p)
    <2>1. Agree(pUsage[q], recObj, p, recUse, recUse')
      BY <1>1, <1>4 DEF Agree
    <2>2. CountIn(pUsage[q], recObj, recUse', p) = CountIn(pUsage[q], recObj, recUse, p)
      BY <2>1, CountSame
    <2>. QED BY <2>2 DEF Refs0
  <1>. QED BY <1>2, <1>3, <1>4, RefsUpdated

(* If a record does not count all references to a linked object, then some *)
(* other record counts the others.                                         *)
LEMMA OthersRefer ==
    ASSUME IndInv, NEW r \in ListedRecords, NEW o \in pObjs, recObj[r] = o,
           ~AreLast(o, recUse[r])
    PROVE  \E e \in ListedRecords : e # r /\ recObj[e] = o
  <1>. DEFINE D == Refs(ListedRecords \ {r}, recObj, recUse, o)
              c == Cardinality(Refs(ListedRecords, recObj, recUse, o))
  <1>1. /\ o \in Obj /\ cUsage[o] \in Nat /\ recUse[r] \in Nat /\ cUsage[o] = c
        /\ c = Cardinality(D) + recUse[r]
    BY RecordWithin, ReferencesAreRefs DEF IndInv, TypeOK, CountsAgree
  <1>. HIDE DEF c
  <1>2. cUsage[o] > recUse[r]
    BY <1>1 DEF AreLast
  <1>3. D # {}
    <2>1. D = {} => Cardinality(D) = 0
      BY FS_EmptySet
    <2>. QED BY <1>1, <1>2, <2>1
  <1>. QED BY <1>3 DEF Refs

LEMMA RecordGivenUp ==
    ASSUME IndInv, OrderlyInv, NEW s \in Session, NEW o \in Obj, NEW r \in Records(s, o),
           pUsage' = [pUsage EXCEPT ![s] = @ \ {r}], UNCHANGED <<recObj, recUse, mem>>,
           \/ ~AreLast(o, recUse[r]) /\ UNCHANGED pObjs
           \/ AreLast(o, recUse[r]) /\ Unlink(o)
    PROVE  Registry!Forget(s, o) /\ (recUse[r] = 1 => Registry!Release(s, o))
  <1>1. /\ \A q \in Session : pUsage[q] \in SUBSET Rec /\ pUsage[q] \subseteq ListedRecords
        /\ \A q \in Session : pUsage'[q] = IF q = s THEN pUsage[q] \ {r} ELSE pUsage[q]
        /\ r \in pUsage[s] /\ r \in ListedRecords /\ recObj[r] = o
        /\ \A q \in Session : \A e \in pUsage[q] : recObj[e] = o => Only(pUsage[q], recObj, o, e)
        /\ \A q \in Session : q # s => r \notin pUsage[q]
        /\ \A e \in ListedRecords : recUse[e] \in Nat /\ recUse[e] >= 1
        /\ o \in pObjs /\ mem[o] = "alloc"
    <2>1. \A q \in Session : \A e \in pUsage[q] : recObj[e] = o => Only(pUsage[q], recObj, o, e)
      BY DEF IndInv, OneRecordPerObject, Only
    <2>2. \A e \in ListedRecords : recUse[e] \in Nat /\ recUse[e] >= 1
      BY ListedAreRecords DEF IndInv, TypeOK, RecordsCount
    <2>3. \A q \in Session : pUsage[q] \in SUBSET Rec /\ pUsage[q] \subseteq ListedRecords
      BY ListedAreRecords DEF IndInv, TypeOK
    <2>4. r \in pUsage[s] /\ r \in ListedRecords /\ recObj[r] = o
      BY <2>3 DEF Records
    <2>5. o \in pObjs /\ mem[o] = "alloc"
      BY <2>4 DEF IndInv, OrderlyInv, NoDanglingRecord, LinkedOrPublishedIsAllocated
    <2>6. \A q \in Session : q # s => r \notin pUsage[q]
      BY <2>4 DEF IndInv, RecordsOnOneList
    <2>7. \A q \in Session : pUsage'[q] = IF q = s THEN pUsage[q] \ {r} ELSE pUsage[q]
      BY DEF IndInv, TypeOK
    <2>. QED BY <2>1, <2>2, <2>3, <2>4, <2>5, <2>6, <2>7
  <1>2. Refs0(s, o) = recUse[r]
    BY <1>1, CountOfRecord DEF Refs0
  <1>3. ASSUME NEW q \in Session, NEW p \in Obj
        PROVE  Refs0(q, p)' = IF q = s /\ p = o THEN 0 ELSE Refs0(q, p)
    <2>. DEFINE R == pUsage'[q]
    <2>1. CASE q = s /\ p = o
      <3>1. \A e \in R : recObj[e] # o
        BY <1>1, <2>1 DEF Only
      <3>. HIDE DEF R
      <3>2. CountIn(R, recObj, recUse, o) = 0
        BY <3>1, CountOfNone
      <3>. QED BY <2>1, <3>2 DEF Refs0, R
    <2>2. CASE ~(q = s /\ p = o)
      <3>1. {e \in R : recObj[e] = p} = {e \in pUsage[q] : recObj[e] = p}
        BY <1>1, <2>2
      <3>. HIDE DEF R
      <3>2. Agree(pUsage[q], recObj, p, recUse, recUse)
        BY DEF Agree
      <3>3. CountIn(R, recObj, recUse, p) = CountIn(pUsage[q], recObj, recUse, p)
        BY <3>1, <3>2, CountSame
      <3>. QED BY <2>2, <3>3 DEF Refs0, R
    <2>. QED BY <2>1, <2>2
  <1>4. /\ RegistryRefs' = [RegistryRefs EXCEPT ![s][o] = 0]
        /\ RegistryRefs[s][o] = recUse[r]
        /\ \A q \in Session : RegistryRefs'[q][o] = IF q = s THEN 0 ELSE Refs0(q, o)
    <2>1. /\ Refs0(s, o)' = 0
          /\ \A q \in Session, p \in Obj : q # s \/ p # o => Refs0(q, p)' = Refs0(q, p)
          /\ \A q \in Session : Refs0(q, o)' = IF q = s THEN 0 ELSE Refs0(q, o)
      BY <1>3
    <2>. QED BY <1>2, <2>1, RefsUpdated
  <1>5. CASE ~AreLast(o, recUse[r]) /\ UNCHANGED pObjs
    <2>1. PICK e \in ListedRecords : e # r /\ recObj[e] = o
      BY <1>1, <1>5, OthersRefer
    <2>2. PICK q \in Session : e \in pUsage[q]
      BY <2>1 DEF ListedRecords
    <2>3. q # s
      BY <1>1, <2>1, <2>2 DEF Only
    <2>4. Refs0(q, o) = recUse[e]
      <3>1. Only(pUsage[q], recObj, o, e)
        BY <1>1, <2>1, <2>2
      <3>. QED BY <3>1, CountOfRecord DEF Refs0
    <2>5. recUse[e] # 0
      BY <1>1
    <2>6. ~\A p \in Session : RegistryRefs'[p][o] = 0
      BY <1>4, <2>2, <2>3, <2>4, <2>5
    <2>7. RegistryState' = RegistryState
      BY <1>5 DEF RegistryState
    <2>8. Registry!Keep(s, o, 0)
      BY <1>4, <2>6, <2>7 DEF Registry!Keep
    <2>. QED BY <1>1, <1>4, <2>8 DEF Registry!Forget, Registry!Release
  <1>6. CASE AreLast(o, recUse[r]) /\ Unlink(o)
    <2>1. \A p \in Session : RegistryRefs'[p][o] = 0
      <3>. SUFFICES ASSUME NEW p \in Session, p # s PROVE Refs0(p, o) = 0
        BY <1>4
      <3>1. \A e \in pUsage[p] : recObj[e] # o
        BY <1>1, <1>6, LastReferences
      <3>. QED BY <3>1, CountOfNone DEF Refs0
    <2>2. RegistryState' = [RegistryState EXCEPT ![o] = "dead"]
      BY <1>1, <1>6 DEF RegistryState, Unlink
    <2>3. Registry!Keep(s, o, 0)
      BY <1>4, <2>1, <2>2 DEF Registry!Keep
    <2>. QED BY <1>1, <1>4, <2>3 DEF Registry!Forget, Registry!Release
  <1>. QED BY <1>5, <1>6

-----------------------------------------------------------------------------
(* Every step of the driver is one of the registry, or none.               *)
RegistryStep == Registry!Next \/ UNCHANGED Registry!vars

LEMMA Registers ==
    ASSUME IndInv, OrderlyInv, NEW s \in Session, NEW o \in Obj, NEW r \in Rec,
           r \notin ListedRecords, mem[o] \in {"none", "init"}, Insert(s, o, r)
    PROVE  RegistryStep
  <1>1. Records(s, o) = {}
    <2>1. \A e \in ListedRecords : mem[recObj[e]] \in {"alloc", "freed"}
      BY DEF IndInv, RecordsCount
    <2>. QED BY <2>1, ListedAreRecords DEF IndInv, Records
  <1>2. RegistryRefs' = [RegistryRefs EXCEPT ![s][o] = 1]
    BY <1>1, NewRecordCounts DEF Insert
  <1>3. /\ RegistryState[o] = "none"
        /\ RegistryState' = [RegistryState EXCEPT ![o] = "live"]
    BY DEF RegistryState, Insert, IndInv, TypeOK
  <1>4. Registry!Register(s, o)
    BY <1>2, <1>3 DEF Registry!Register
  <1>. QED BY <1>4 DEF RegistryStep, Registry!Next

LEMMA AddsReference ==
    ASSUME IndInv, OrderlyInv, NEW s \in Session, NEW o \in pObjs, NEW r \in Rec,
           r \notin ListedRecords, Reference(s, o, r), UNCHANGED <<mem, pObjs>>
    PROVE  RegistryStep
  <1>1. /\ o \in Obj /\ RegistryState[o] = "live" /\ RegistryState' = RegistryState
    BY DEF RegistryState, IndInv, TypeOK, LinkedOrPublishedIsAllocated
  <1>2. RegistryRefs' = [RegistryRefs EXCEPT ![s][o] = RegistryRefs[s][o] + 1]
    <2>1. CASE Records(s, o) = {}
      <3>1. /\ pUsage' = [pUsage EXCEPT ![s] = @ \cup {r}]
            /\ recObj' = [recObj EXCEPT ![r] = o] /\ recUse' = [recUse EXCEPT ![r] = 1]
        BY <2>1 DEF Reference
      <3>2. RegistryRefs' = [RegistryRefs EXCEPT ![s][o] = 1] /\ RegistryRefs[s][o] = 0
        BY <1>1, <2>1, <3>1, NewRecordCounts
      <3>3. RegistryRefs[s][o] + 1 = 1
        BY <3>2
      <3>. QED BY <3>2, <3>3
    <2>2. CASE Records(s, o) # {}
      <3>1. PICK e \in Records(s, o) : recUse' = [recUse EXCEPT ![e] = @ + 1] /\ UNCHANGED <<pUsage, recObj>>
        BY <2>2 DEF Reference
      <3>. DEFINE n == recUse[e] + 1
      <3>2. recUse' = Put(recUse, e, n)
        BY <3>1 DEF Put
      <3>. HIDE DEF n
      <3>3. RegistryRefs' = [RegistryRefs EXCEPT ![s][o] = n] /\ RegistryRefs[s][o] = recUse[e]
        BY <1>1, <3>1, <3>2, RecordRecounts
      <3>. QED BY <3>3 DEF n
    <2>. QED BY <2>1, <2>2
  <1>3. Registry!AddRef(s, o)
    BY <1>1, <1>2 DEF Registry!AddRef
  <1>. QED BY <1>1, <1>3 DEF RegistryStep, Registry!Next

LEMMA CallImplements ==
    ASSUME IndInv, OrderlyInv,
           NEW t \in Thread, NEW s \in Session, NEW o \in Obj, Call(t, s, o)
    PROVE  RegistryStep
  <1>1. CASE RegisterReuse(t, s, o)
    <2>1. PICK r \in pUsageFree : Insert(s, o, r)
      BY <1>1 DEF RegisterReuse
    <2>2. r \in Rec /\ r \notin ListedRecords /\ mem[o] = "none"
      BY <1>1 DEF RegisterReuse, IndInv, TypeOK, RecordsOnOneList
    <2>. QED BY <2>1, <2>2, Registers
  <1>2. CASE RegisterNoRecord(t, s, o)
    <2>1. RegistryState' = RegistryState
      BY <1>2 DEF RegisterNoRecord, RegistryState, IndInv, TypeOK
    <2>. QED BY <1>2, <2>1, Stutters DEF RegisterNoRecord, recVars, RegistryStep
  <1>3. CASE AddRefLookup(t, s, o)
    <2>1. RegistryState' = RegistryState
      BY <1>3 DEF AddRefLookup, heapVars, RegistryState
    <2>. QED BY <1>3, <2>1, Stutters DEF AddRefLookup, recVars, RegistryStep
  <1>4. CASE AddRefNoBlocking(t, s, o)
    <2>1. PICK e \in Records(s, o) : recUse' = [recUse EXCEPT ![e] = @ + 1]
      BY <1>4 DEF AddRefNoBlocking
    <2>. DEFINE n == recUse[e] + 1
    <2>2. recUse' = Put(recUse, e, n) /\ UNCHANGED <<pUsage, recObj, mem, pObjs>>
      BY <1>4, <2>1 DEF AddRefNoBlocking, Put
    <2>3. o \in pObjs
      BY ListedAreRecords DEF Records, IndInv, OrderlyInv, NoDanglingRecord
    <2>4. RegistryState[o] = "live" /\ RegistryState' = RegistryState
      BY <2>2, <2>3 DEF RegistryState, IndInv, LinkedOrPublishedIsAllocated
    <2>5. RegistryRefs' = [RegistryRefs EXCEPT ![s][o] = RegistryRefs[s][o] + 1]
      <3>. HIDE DEF n
      <3>1. RegistryRefs' = [RegistryRefs EXCEPT ![s][o] = n] /\ RegistryRefs[s][o] = recUse[e]
        BY <2>2, RecordRecounts
      <3>. QED BY <3>1 DEF n
    <2>6. Registry!AddRef(s, o)
      BY <2>4, <2>5 DEF Registry!AddRef
    <2>. QED BY <2>6 DEF RegistryStep, Registry!Next
  <1>5. CASE ReleaseOne(t, s, o)
    <2>1. PICK r \in Records(s, o) : HasMore(r) /\ recUse' = [recUse EXCEPT ![r] = @ - 1]
      BY <1>5 DEF ReleaseOne
    <2>. DEFINE n == recUse[r] - 1
    <2>2. recUse' = Put(recUse, r, n) /\ UNCHANGED <<pUsage, recObj, mem, pObjs>>
      BY <1>5, <2>1 DEF ReleaseOne, Put
    <2>3. recUse[r] \in Nat /\ recUse[r] > 1
      BY <2>1, ListedAreRecords DEF HasMore, Records, IndInv, TypeOK
    <2>4. /\ RegistryRefs' = [RegistryRefs EXCEPT ![s][o] = RegistryRefs[s][o] - 1]
          /\ RegistryRefs[s][o] = recUse[r] /\ RegistryRefs'[s][o] = recUse[r] - 1
      <3>. HIDE DEF n
      <3>1. /\ RegistryRefs' = [RegistryRefs EXCEPT ![s][o] = n]
            /\ RegistryRefs[s][o] = recUse[r] /\ RegistryRefs'[s][o] = n
        BY <2>2, RecordRecounts
      <3>. QED BY <3>1 DEF n
    <2>5. RegistryState' = RegistryState
      BY <2>2 DEF RegistryState
    <2>6. Registry!Keep(s, o, RegistryRefs[s][o] - 1)
      <3>1. ~\A q \in Session : RegistryRefs'[q][o] = 0
        BY <2>3, <2>4
      <3>. QED BY <2>4, <2>5, <3>1 DEF Registry!Keep
    <2>7. Registry!Release(s, o)
      BY <2>3, <2>4, <2>6 DEF Registry!Release
    <2>. QED BY <2>7 DEF RegistryStep, Registry!Next
  <1>6. CASE ReleaseRecord(t, s, o) \/ ReleaseLast(t, s, o)
    <2>1. PICK r \in Records(s, o) : ~HasMore(r) /\ DropRecord(s, r)
      BY <1>6 DEF ReleaseRecord, ReleaseLast
    <2>2. recUse[r] = 1
      <3>1. r \in ListedRecords /\ recObj[r] = o
        BY ListedAreRecords DEF Records, IndInv
      <3>. QED BY <2>1, <3>1, CountedTwice DEF HasMore
    <2>3. /\ pUsage' = [pUsage EXCEPT ![s] = @ \ {r}] /\ UNCHANGED <<recObj, recUse, mem>>
          /\ \/ ~AreLast(o, recUse[r]) /\ UNCHANGED pObjs
             \/ AreLast(o, recUse[r]) /\ Unlink(o)
      BY <1>6, <2>1, <2>2 DEF ReleaseRecord, ReleaseLast, DropRecord
    <2>4. Registry!Release(s, o)
      BY <2>2, <2>3, RecordGivenUp
    <2>. QED BY <2>4 DEF RegistryStep, Registry!Next
  <1>. QED BY <1>1, <1>2, <1>3, <1>4, <1>5, <1>6 DEF Call

LEMMA ContinueImplements ==
    ASSUME IndInv, OrderlyInv, NEW t \in Thread, Continue(t)
    PROVE  RegistryStep
  <1>1. CASE RegisterInsert(t)
    <2>1. PICK r \in Allocatable : Insert(ses[t], ob[t], r)
      BY <1>1 DEF RegisterInsert
    <2>2. /\ ses[t] \in Session /\ ob[t] \in Obj /\ mem[ob[t]] = "init"
          /\ r \in Rec /\ r \notin ListedRecords
      BY <1>1 DEF RegisterInsert, Allocatable, IndInv, ThreadsKnow, RecordsOnOneList
    <2>. QED BY <2>1, <2>2, Registers
  <1>2. CASE AddRefReuse(t) \/ AddRefAlloc(t)
    <2>1. PICK r \in Rec : Reference(ses[t], ob[t], r) /\ r \notin ListedRecords
      BY <1>2 DEF AddRefReuse, AddRefAlloc, Allocatable, IndInv, TypeOK, RecordsOnOneList
    <2>2. ses[t] \in Session /\ ob[t] \in pObjs /\ UNCHANGED <<mem, pObjs>>
      BY <1>2 DEF AddRefReuse, AddRefAlloc, IndInv, ThreadsKnow, OrderlyInv, AliveIsLinked
    <2>. QED BY <2>1, <2>2, AddsReference
  <1>3. CASE CleanupDeref(t) \/ CleanupUnlink(t)
    <2>1. ses[t] \in Session /\ UNCHANGED mem
      BY <1>3 DEF CleanupDeref, CleanupUnlink, IndInv, ThreadsKnow
    <2>2. PICK r \in pUsage[ses[t]] :
            /\ TakeRecord(ses[t], r)
            /\ \/ ~AreLast(recObj[r], recUse[r]) /\ UNCHANGED pObjs
               \/ AreLast(recObj[r], recUse[r]) /\ Unlink(recObj[r])
      BY <1>3 DEF CleanupDeref, CleanupUnlink
    <2>3. recObj[r] \in Obj /\ r \in Records(ses[t], recObj[r])
      BY <2>1, <2>2, ListedAreRecords DEF IndInv, RecordsCount, Records
    <2>4. Registry!Forget(ses[t], recObj[r])
      BY <2>1, <2>2, <2>3, RecordGivenUp DEF TakeRecord
    <2>. QED BY <2>1, <2>3, <2>4 DEF RegistryStep, Registry!Next
  <1>4. CASE RegisterFail(t)
    <2>1. ob[t] \in Obj /\ mem[ob[t]] = "init"
      BY <1>4 DEF RegisterFail, IndInv, ThreadsKnow
    <2>2. RegistryState' = RegistryState
      BY <1>4, <2>1 DEF RegisterFail, RegistryState, IndInv, TypeOK
    <2>. QED BY <1>4, <2>2, Stutters DEF RegisterFail, recVars, RegistryStep
  <1>5. CASE FreeObject(t) \/ CleanupFree(t)
    <2>1. ob[t] \in Obj /\ mem[ob[t]] = "alloc" /\ ob[t] \notin pObjs
      BY <1>5 DEF FreeObject, CleanupFree, IndInv, ThreadsKnow, DestroyedOnce, Destroying
    <2>2. RegistryState' = RegistryState
      BY <1>5, <2>1 DEF FreeObject, CleanupFree, Free, RegistryState, IndInv, TypeOK
    <2>. QED BY <1>5, <2>2, Stutters DEF FreeObject, CleanupFree, recVars, RegistryStep
  <1>6. CASE AddRefDead(t) \/ AddRefNoRecord(t) \/ AddRefNoMemory(t)
             \/ AddRefDiedMeanwhile(t) \/ Destructor(t) \/ CleanupDestructor(t) \/ CleanupDone(t)
    <2>1. UNCHANGED <<mem, pObjs, pUsage, recObj, recUse>>
      BY <1>6 DEF AddRefDead, AddRefNoRecord, AddRefNoMemory, AddRefDiedMeanwhile, Destructor,
         CleanupDestructor, CleanupDone, heapVars, recVars
    <2>2. RegistryState' = RegistryState
      BY <2>1 DEF RegistryState
    <2>. QED BY <2>1, <2>2, Stutters DEF RegistryStep
  <1>. QED BY <1>1, <1>2, <1>3, <1>4, <1>5, <1>6 DEF Continue

(* The driver keeps what the registry promises: whatever the sessions do   *)
(* and however the calls interleave, an object is live from its            *)
(* registration until its last reference is released, and for good dead    *)
(* afterwards.                                                             *)
THEOREM ImplementsRegistry ==
    ASSUME AbruptClose = FALSE
    PROVE  Spec => RegistrySpec
  <1>1. Init => Registry!Init
    <2>1. Init => RegistryState = [o \in Obj |-> "none"]
      BY DEF Init, RegistryState
    <2>2. Init => RegistryRefs = [s \in Session |-> [o \in Obj |-> 0]]
      BY DEF Init, RegistryRefs, Records
    <2>. QED BY <2>1, <2>2 DEF Registry!Init
  <1>2. Init => OrderlyInv
    BY DEF Init, OrderlyInv, NoDanglingRecord, ClosingIsPrivate, SessionsMatch, CleaningUp,
           AliveIsLinked, ListedRecords
  <1>3. IndInv /\ OrderlyInv /\ [Next]_vars => OrderlyInv'
    BY NextOrderly
  <1>4. IndInv /\ OrderlyInv /\ [Next]_vars => [Registry!Next]_(Registry!vars)
    <2>. SUFFICES ASSUME IndInv, OrderlyInv, [Next]_vars PROVE RegistryStep
      BY DEF RegistryStep
    <2>1. ASSUME UNCHANGED <<mem, pObjs, pUsage, recObj, recUse>> PROVE RegistryStep
      <3>1. RegistryState' = RegistryState
        BY <2>1 DEF RegistryState
      <3>. QED BY <2>1, <3>1, Stutters DEF RegistryStep
    <2>2. CASE UNCHANGED vars
      BY <2>1, <2>2 DEF vars, heapVars, recVars
    <2>3. ASSUME NEW s \in Session, CreateSession(s) PROVE RegistryStep
      BY <2>1, <2>3 DEF CreateSession, heapVars, recVars
    <2>4. ASSUME NEW t \in Thread, NEW s \in Session, CloseSession(t, s) PROVE RegistryStep
      BY <2>1, <2>4 DEF CloseSession, heapVars, recVars
    <2>. QED BY <2>2, <2>3, <2>4, CallImplements, ContinueImplements DEF Next
  <1>. QED BY <1>1, <1>2, <1>3, <1>4, InductiveInvariant, PTL DEF Spec, RegistrySpec, Registry!Spec
=============================================================================
