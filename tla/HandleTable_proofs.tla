------------------------ MODULE HandleTable_proofs ------------------------
(***************************************************************************)
(* The handle table is sound whatever the threads do between its critical  *)
(* sections: for any number of threads, objects and contexts, any table    *)
(* sizes and any limit.  The free list, the counters, the two levels and   *)
(* the memory agree after every step, and clients see the map of           *)
(* HandleMap.                                                              *)
(*                                                                         *)
(* The free list is threaded through iNext, so the invariant names it by a *)
(* witness: a sequence f that lists the spare entries, each once, in the   *)
(* order in which iNext links them.  An operation on the table is then an  *)
(* operation on f: Grab takes its head, Recycle appends to it, AddTable    *)
(* extends it by the entries of a new second level table.                  *)
(***************************************************************************)
EXTENDS HandleTable, FiniteSetTheorems, SequenceTheorems, TLAPS

(* Whole tables are multiples of Level2; arithmetic of multiples and       *)
(* quotients.                                                              *)
LEMMA TimesSuccessor ==
    ASSUME NEW a \in Nat, NEW n \in Nat
    PROVE  (a + 1) * n = a * n + n
  OBVIOUS

LEMMA TimesMonotonic ==
    ASSUME NEW a \in Nat, NEW b \in Nat, NEW n \in Nat, a < b
    PROVE  a * n + n <= b * n
  <1>1. PICK d \in Nat : b = a + 1 + d
    <2>. WITNESS b - a - 1 \in Nat
    <2>. QED OBVIOUS
  <1>2. b * n = a * n + n + d * n
    BY <1>1
  <1>3. d * n \in Nat
    OBVIOUS
  <1>. QED BY <1>2, <1>3

LEMMA Quotient ==
    ASSUME NEW i \in Nat, NEW n \in Nat \ {0}
    PROVE  /\ i \div n \in Nat
           /\ (i \div n) * n <= i
           /\ i < (i \div n) * n + n
  OBVIOUS

LEMMA QuotientBelow ==
    ASSUME NEW i \in Nat, NEW n \in Nat \ {0}, NEW m \in Nat
    PROVE  i < m * n <=> i \div n < m
  <1>. DEFINE q == i \div n
  <1>1. q \in Nat /\ q * n <= i /\ i < q * n + n
    BY Quotient
  <1>. HIDE DEF q
  <1>2. ASSUME i < m * n, m <= q PROVE FALSE
    <2>1. m * n <= q * n
      BY <1>1, <1>2, TimesMonotonic
    <2>. QED BY <2>1, <1>1, <1>2
  <1>3. ASSUME q < m PROVE i < m * n
    BY <1>1, <1>3, TimesMonotonic
  <1>4. q < m <=> i < m * n
    BY <1>1, <1>2, <1>3
  <1>. QED BY <1>4 DEF q

LEMMA QuotientOfProduct ==
    ASSUME NEW n \in Nat \ {0}, NEW m \in Nat
    PROVE  (m * n) \div n = m
  <1>. DEFINE q == (m * n) \div n
  <1>1. m * n \in Nat
    OBVIOUS
  <1>2. q \in Nat /\ q * n <= m * n /\ m * n < q * n + n
    BY <1>1, Quotient
  <1>. HIDE DEF q
  <1>3. ASSUME q < m PROVE FALSE
    BY <1>2, <1>3, TimesMonotonic
  <1>4. ASSUME m < q PROVE FALSE
    BY <1>2, <1>4, TimesMonotonic
  <1>5. q = m
    BY <1>2, <1>3, <1>4
  <1>. QED BY <1>5 DEF q

(* The limit is a whole number of second level tables                      *)
(* (handletable.c:63-70).                                                  *)
LEMMA Constants ==
    /\ Level2 \in Nat \ {0}
    /\ MaxLevel1 \in Nat \ {0}
    /\ cMax \in Nat \ {0}
    /\ cMax = MaxLevel1 * Level2
  <1>. DEFINE s == CMaxArg + Level2 - 1
              q == s \div Level2
  <1>1. s \in Nat /\ Level2 \in Nat \ {0} /\ s >= Level2
    BY TableAssumption
  <1>. HIDE DEF s
  <1>2. q \in Nat /\ s < q * Level2 + Level2
    BY <1>1, Quotient
  <1>3. cMax = q * Level2
    BY DEF cMax, q, s
  <1>. HIDE DEF q
  <1>4. MaxLevel1 = q
    BY <1>1, <1>2, <1>3, QuotientOfProduct DEF MaxLevel1
  <1>5. q # 0
    BY <1>1, <1>2
  <1>6. q * Level2 >= Level2
    BY <1>1, <1>2, <1>5, TimesMonotonic
  <1>. QED BY <1>1, <1>2, <1>3, <1>4, <1>5, <1>6

-----------------------------------------------------------------------------
(* The type of tab, without the memory and the threads. *)
Table ==
    [valid : BOOLEAN,
     pvObj : [Index -> Obj \cup {FREE}],
     pvCtx : [Index -> Ctx \cup {Poison}],
     iNext : [Index -> Index \cup {NIL}],
     papvLevel1 : SUBSET LEAF,
     cCur : 0..cMax, cCurAllocated : 0..cMax, cLevel1 : 0..MaxLevel1,
     iFreeHead : Index \cup {NIL}, iFreeTail : Index \cup {NIL}]

(* The entries of the second level tables that are free. *)
Spare(T) == {i \in 0..(T.cCur - 1) : T.pvObj[i] = FREE}

(* The free list of T from its head to its tail is f: it has each spare    *)
(* entry once, and iNext leads from one to the next.                       *)
FreeList(T, f) ==
    /\ f \in Seq(Index)
    /\ \A k \in 1..Len(f) : f[k] \in Spare(T)
    /\ \A i \in Spare(T) : \E k \in 1..Len(f) : f[k] = i
    /\ \A j, k \in 1..Len(f) : f[j] = f[k] => j = k
    /\ T.iFreeHead = (IF Len(f) = 0 THEN NIL ELSE f[1])
    /\ T.iFreeTail = (IF Len(f) = 0 THEN NIL ELSE f[Len(f)])
    /\ \A k \in 1..Len(f) : T.iNext[f[k]] = (IF k = Len(f) THEN NIL ELSE f[k + 1])

(* cCur entries fill the first m second level tables, and the first level  *)
(* table has room for these.                                               *)
Sized(T) ==
    \E m \in 0..MaxLevel1 :
        T.cCur = m * Level2 /\ T.papvLevel1 = 0..(m - 1) /\ m <= T.cLevel1

(* Entries in use lie below cCur, and cCurAllocated counts them. *)
Counted(T) ==
    /\ Used(T) \subseteq 0..(T.cCur - 1)
    /\ T.cCurAllocated = Cardinality(Used(T))

Good(T) ==
    /\ T \in Table
    /\ Sized(T)
    /\ Counted(T)
    /\ \E f \in Seq(Index) : FreeList(T, f)

LEMMA Indexes ==
    /\ NIL \notin Index
    /\ Index \subseteq Nat
    /\ \A i \in 0..cMax : \A j \in 0..(i - 1) : j \in Index
  BY Constants DEF NIL, Index

(* A new table is sound, with an empty free list. *)
LEMMA FreshGood ==
    ASSUME NEW b \in BOOLEAN
    PROVE  /\ Fresh(b) \in Table
           /\ Sized(Fresh(b)) /\ Counted(Fresh(b))
           /\ FreeList(Fresh(b), <<>>)
  <1>. DEFINE T == Fresh(b)
  <1>1. T \in Table
    BY Constants DEF Fresh, Table, NIL, Index, Poison
  <1>2. /\ T.cCur = 0 /\ T.papvLevel1 = {} /\ T.cLevel1 \in 0..MaxLevel1 /\ T.cCurAllocated = 0
        /\ T.iFreeHead = NIL /\ T.iFreeTail = NIL
        /\ \A i \in Index : T.pvObj[i] = FREE
    BY Constants DEF Fresh
  <1>. HIDE DEF T
  <1>3. Sized(T)
    <2>1. 0 * Level2 = 0 /\ 0..(0 - 1) = {} /\ 0 \in 0..MaxLevel1
      BY Constants
    <2>. QED BY <1>2, <2>1 DEF Sized
  <1>4. Used(T) = {}
    BY <1>2 DEF Used
  <1>5. Counted(T)
    BY <1>2, <1>4, FS_EmptySet DEF Counted
  <1>6. Spare(T) = {}
    BY <1>2 DEF Spare
  <1>7. FreeList(T, <<>>)
    BY <1>2, <1>6, EmptySeq DEF FreeList
  <1>. QED BY <1>1, <1>3, <1>5, <1>7 DEF T

(* Grab. *)
LEMMA GrabFields ==
    ASSUME NEW T \in Table, NEW o \in Obj, NEW c \in Ctx, T.iFreeHead # NIL,
           T.cCurAllocated < cMax
    PROVE  \E T2 \in Table :
             /\ T2 = Grab(T, o, c)
             /\ T2.valid = T.valid /\ T2.papvLevel1 = T.papvLevel1
             /\ T2.cCur = T.cCur /\ T2.cLevel1 = T.cLevel1
             /\ T2.cCurAllocated = T.cCurAllocated + 1
             /\ T2.pvObj = [T.pvObj EXCEPT ![T.iFreeHead] = o]
             /\ T2.pvCtx = [T.pvCtx EXCEPT ![T.iFreeHead] = c]
             /\ T2.iNext = [T.iNext EXCEPT ![T.iFreeHead] = NIL]
             /\ T2.iFreeHead = IF T.iFreeHead = T.iFreeTail THEN NIL ELSE T.iNext[T.iFreeHead]
             /\ T2.iFreeTail = IF T.iFreeHead = T.iFreeTail THEN NIL ELSE T.iFreeTail
  <1>. DEFINE i == T.iFreeHead
  <1>1. PICK n \in Index \cup {NIL} : n = IF i = T.iFreeTail THEN NIL ELSE T.iNext[i]
    BY DEF Table
  <1>2. PICK l \in Index \cup {NIL} : l = IF i = T.iFreeTail THEN NIL ELSE T.iFreeTail
    BY DEF Table
  <1>3. PICK a \in 0..cMax : a = T.cCurAllocated + 1
    BY Constants DEF Table
  <1>4. PICK po \in [Index -> Obj \cup {FREE}] : po = [T.pvObj EXCEPT ![i] = o]
    BY DEF Table
  <1>5. PICK px \in [Index -> Ctx \cup {Poison}] : px = [T.pvCtx EXCEPT ![i] = c]
    BY DEF Table
  <1>6. PICK nx \in [Index -> Index \cup {NIL}] : nx = [T.iNext EXCEPT ![i] = NIL]
    BY DEF Table
  <1>7. PICK T2 : T2 = [T EXCEPT !.iFreeHead = n, !.iFreeTail = l, !.cCurAllocated = a,
                                 !.pvObj = po, !.pvCtx = px, !.iNext = nx]
    OBVIOUS
  <1>8. T2 = Grab(T, o, c)
    BY <1>1, <1>2, <1>3, <1>4, <1>5, <1>6, <1>7 DEF Grab, Table
  <1>9. /\ T2.valid = T.valid /\ T2.papvLevel1 = T.papvLevel1
        /\ T2.cCur = T.cCur /\ T2.cLevel1 = T.cLevel1
        /\ T2.cCurAllocated = a /\ T2.pvObj = po /\ T2.pvCtx = px /\ T2.iNext = nx
        /\ T2.iFreeHead = n /\ T2.iFreeTail = l
    BY <1>7 DEF Table
  <1>10. T2 \in Table
    BY <1>7 DEF Table
  <1>. QED BY <1>1, <1>2, <1>3, <1>4, <1>5, <1>6, <1>8, <1>9, <1>10

(* Join and the operations built on it. *)
Linked(T, from, to) ==
    [i \in Index |-> IF i = T.iFreeTail THEN from
                     ELSE IF i \in from..to THEN IF i = to THEN NIL ELSE i + 1
                     ELSE T.iNext[i]]

LEMMA LinkedType ==
    ASSUME NEW T \in Table, NEW from \in Index, NEW to \in Index
    PROVE  Linked(T, from, to) \in [Index -> Index \cup {NIL}]
  <1>. SUFFICES ASSUME NEW i \in Index
                PROVE  (IF i = T.iFreeTail THEN from
                        ELSE IF i \in from..to THEN IF i = to THEN NIL ELSE i + 1
                        ELSE T.iNext[i]) \in Index \cup {NIL}
    BY DEF Linked
  <1>1. T.iNext[i] \in Index \cup {NIL}
    BY DEF Table
  <1>2. i \in from..to /\ i # to => i + 1 \in Index
    BY Constants DEF Index
  <1>. QED BY <1>1, <1>2

LEMMA AddTableFields ==
    ASSUME NEW T \in Table, T.cCur + Level2 <= cMax, T.cCur \div Level2 \in LEAF
    PROVE  \E T2 \in Table :
             /\ T2 = AddTable(T)
             /\ T2.valid = T.valid
             /\ T2.papvLevel1 = T.papvLevel1 \cup {T.cCur \div Level2}
             /\ T2.cCur = T.cCur + Level2 /\ T2.cLevel1 = T.cLevel1
             /\ T2.cCurAllocated = T.cCurAllocated
             /\ T2.pvObj = T.pvObj /\ T2.pvCtx = T.pvCtx
             /\ T2.iNext = Linked(T, T.cCur, T.cCur + Level2 - 1)
             /\ T2.iFreeHead = IF T.iFreeTail = NIL THEN T.cCur ELSE T.iFreeHead
             /\ T2.iFreeTail = T.cCur + Level2 - 1
  <1>1. PICK a \in Index : a = T.cCur
    BY Constants DEF Table, Index
  <1>2. PICK b \in Index : b = T.cCur + Level2 - 1
    BY Constants DEF Table, Index
  <1>3. PICK d \in 0..cMax : d = T.cCur + Level2
    BY Constants DEF Table
  <1>4. PICK h \in Index \cup {NIL} : h = IF T.iFreeTail = NIL THEN a ELSE T.iFreeHead
    BY DEF Table
  <1>5. PICK nx \in [Index -> Index \cup {NIL}] : nx = Linked(T, a, b)
    BY LinkedType
  <1>6. PICK p \in SUBSET LEAF : p = T.papvLevel1 \cup {T.cCur \div Level2}
    BY DEF Table
  <1>7. PICK J : J = [T EXCEPT !.iFreeHead = h, !.iFreeTail = b, !.iNext = nx]
    OBVIOUS
  <1>8. J = Join(T, a, b)
    BY <1>4, <1>5, <1>7 DEF Join, Linked, Table
  <1>9. /\ J \in Table /\ J.cCur = T.cCur /\ J.papvLevel1 = T.papvLevel1
        /\ J.valid = T.valid /\ J.cLevel1 = T.cLevel1
        /\ J.cCurAllocated = T.cCurAllocated /\ J.pvObj = T.pvObj /\ J.pvCtx = T.pvCtx
        /\ J.iNext = nx /\ J.iFreeHead = h /\ J.iFreeTail = b
    BY <1>7 DEF Table
  <1>10. PICK T2 : T2 = [J EXCEPT !.papvLevel1 = p, !.cCur = d]
    OBVIOUS
  <1>11. AddTable(T) = [Join(T, a, b) EXCEPT !.papvLevel1 = @ \cup {T.cCur \div Level2},
                                             !.cCur = @ + Level2]
    BY <1>1, <1>2 DEF AddTable
  <1>12. T2 = AddTable(T)
    BY <1>3, <1>6, <1>8, <1>9, <1>10, <1>11 DEF Table
  <1>13. /\ T2 \in Table /\ T2.cCur = d /\ T2.papvLevel1 = p
         /\ T2.valid = J.valid /\ T2.cLevel1 = J.cLevel1
         /\ T2.cCurAllocated = J.cCurAllocated /\ T2.pvObj = J.pvObj /\ T2.pvCtx = J.pvCtx
         /\ T2.iNext = nx /\ T2.iFreeHead = h /\ T2.iFreeTail = b
    BY <1>9, <1>10 DEF Table
  <1>. QED BY <1>1, <1>2, <1>3, <1>4, <1>5, <1>6, <1>9, <1>12, <1>13

LEMMA RecycleFields ==
    ASSUME NEW T \in Table, NEW i \in Index, T.cCurAllocated > 0
    PROVE  \E T2 \in Table :
             /\ T2 = Recycle(T, i)
             /\ T2.valid = T.valid /\ T2.papvLevel1 = T.papvLevel1
             /\ T2.cCur = T.cCur /\ T2.cLevel1 = T.cLevel1
             /\ T2.cCurAllocated = T.cCurAllocated - 1
             /\ T2.pvObj = [T.pvObj EXCEPT ![i] = FREE]
             /\ T2.pvCtx = [T.pvCtx EXCEPT ![i] = Poison]
             /\ T2.iNext = Linked(T, i, i)
             /\ T2.iFreeHead = IF T.iFreeTail = NIL THEN i ELSE T.iFreeHead
             /\ T2.iFreeTail = i
  <1>1. PICK a \in 0..cMax : a = T.cCurAllocated - 1
    BY Constants DEF Table
  <1>2. PICK h \in Index \cup {NIL} : h = IF T.iFreeTail = NIL THEN i ELSE T.iFreeHead
    BY DEF Table
  <1>3. PICK nx \in [Index -> Index \cup {NIL}] : nx = Linked(T, i, i)
    BY LinkedType
  <1>4. PICK po \in [Index -> Obj \cup {FREE}] : po = [T.pvObj EXCEPT ![i] = FREE]
    BY DEF Table
  <1>5. PICK px \in [Index -> Ctx \cup {Poison}] : px = [T.pvCtx EXCEPT ![i] = Poison]
    BY DEF Table
  <1>6. PICK J : J = [T EXCEPT !.iFreeHead = h, !.iFreeTail = i, !.iNext = nx]
    OBVIOUS
  <1>7. J = Join(T, i, i)
    BY <1>2, <1>3, <1>6 DEF Join, Linked, Table
  <1>8. /\ J \in Table /\ J.cCur = T.cCur /\ J.papvLevel1 = T.papvLevel1
        /\ J.valid = T.valid /\ J.cLevel1 = T.cLevel1
        /\ J.cCurAllocated = T.cCurAllocated /\ J.pvObj = T.pvObj /\ J.pvCtx = T.pvCtx
        /\ J.iNext = nx /\ J.iFreeHead = h /\ J.iFreeTail = i
    BY <1>6 DEF Table
  <1>9. PICK T2 : T2 = [J EXCEPT !.pvObj = po, !.pvCtx = px, !.cCurAllocated = a]
    OBVIOUS
  <1>10. T2 = Recycle(T, i)
    BY <1>1, <1>4, <1>5, <1>7, <1>8, <1>9 DEF Recycle, Table
  <1>11. /\ T2 \in Table /\ T2.cCur = J.cCur /\ T2.papvLevel1 = J.papvLevel1
         /\ T2.valid = J.valid /\ T2.cLevel1 = J.cLevel1
         /\ T2.cCurAllocated = a /\ T2.pvObj = po /\ T2.pvCtx = px
         /\ T2.iNext = nx /\ T2.iFreeHead = h /\ T2.iFreeTail = i
    BY <1>8, <1>9 DEF Table
  <1>. QED BY <1>1, <1>2, <1>3, <1>4, <1>5, <1>8, <1>10, <1>11

LEMMA IndexCount == IsFiniteSet(Index) /\ Cardinality(Index) = cMax
  <1>1. 0 \in Int /\ cMax - 1 \in Int /\ ~(0 > cMax - 1) /\ cMax - 1 - 0 + 1 = cMax
    BY Constants
  <1>2. /\ IsFiniteSet(0..(cMax - 1))
        /\ Cardinality(0..(cMax - 1)) = IF 0 > cMax - 1 THEN 0 ELSE cMax - 1 - 0 + 1
    BY <1>1, FS_Interval, Zenon
  <1>. QED BY <1>1, <1>2 DEF Index

(* Used entries can be counted, and a spare one leaves room in the count. *)
LEMMA UsedFinite ==
    ASSUME NEW T \in Table
    PROVE  /\ IsFiniteSet(Used(T)) /\ Cardinality(Used(T)) \in 0..cMax
           /\ Used(T) # Index => Cardinality(Used(T)) < cMax
           /\ \A i \in Index : i \in Used(T) => Cardinality(Used(T)) > 0
  <1>1. IsFiniteSet(Index) /\ Cardinality(Index) = cMax
    BY IndexCount
  <1>2. Used(T) \in SUBSET Index
    BY DEF Used
  <1>3. /\ IsFiniteSet(Used(T)) /\ Cardinality(Used(T)) <= cMax
        /\ Cardinality(Used(T)) = cMax => Used(T) = Index
    BY <1>1, <1>2, FS_Subset
  <1>4. Cardinality(Used(T)) \in Nat
    BY <1>3, FS_CardinalityType
  <1>5. Cardinality(Used(T)) = 0 <=> Used(T) = {}
    BY <1>3, FS_EmptySet
  <1>. QED BY <1>3, <1>4, <1>5, Constants

(* The head and the tail of the free list are the ends of f, and are NIL   *)
(* together.                                                               *)
LEMMA FreeHead ==
    ASSUME NEW T \in Table, NEW f, FreeList(T, f)
    PROVE  /\ Len(f) \in Nat /\ f \in [1..Len(f) -> Index]
           /\ T.iFreeHead # NIL <=> f # <<>>
           /\ T.iFreeTail # NIL <=> f # <<>>
           /\ f # <<>> <=> Len(f) > 0
           /\ f # <<>> =>
                /\ T.iFreeHead = f[1] /\ T.iFreeTail = f[Len(f)]
                /\ f[1] \in Index /\ f[Len(f)] \in Index
                /\ f[1] \in Spare(T) /\ f[1] \notin Used(T)
                /\ T.iFreeHead = T.iFreeTail <=> Len(f) = 1
                /\ Len(f) > 1 => T.iNext[f[1]] = f[2]
  <1>1. f \in Seq(Index) /\ Len(f) \in Nat /\ f \in [1..Len(f) -> Index]
    BY LenProperties DEF FreeList
  <1>2. f # <<>> <=> Len(f) > 0
    BY <1>1, EmptySeq
  <1>. PICK n \in Nat : n = Len(f)
    BY <1>1
  <1>a. n > 0 => 1 \in 1..n /\ n \in 1..n
    OBVIOUS
  <1>b. n > 1 => 1 # n /\ 1 + 1 = 2
    OBVIOUS
  <1>3. n > 0 => f[1] \in Index /\ f[n] \in Index /\ f[1] \in Spare(T)
    BY <1>1, <1>a DEF FreeList
  <1>4. /\ T.iFreeHead = (IF Len(f) = 0 THEN NIL ELSE f[1])
        /\ T.iFreeTail = (IF Len(f) = 0 THEN NIL ELSE f[Len(f)])
    BY DEF FreeList
  <1>5. n > 0 => (f[1] = f[n] <=> n = 1)
    BY <1>1, <1>a DEF FreeList
  <1>6. n > 1 => T.iNext[f[1]] = f[2]
    BY <1>1, <1>a, <1>b DEF FreeList
  <1>7. \A i \in Spare(T) : i \notin Used(T)
    BY DEF Spare, Used
  <1>. QED BY <1>1, <1>2, <1>3, <1>4, <1>5, <1>6, <1>7, Indexes

(* T2 is T without the first entry of its free list f, which is now in use *)
(* for object o and context c.                                             *)
Took(T, f, o, c, T2) ==
    /\ T2 \in Table /\ Sized(T2) /\ Counted(T2)
    /\ FreeList(T2, Tail(f))
    /\ f # <<>> /\ f[1] \in Index /\ f[1] \notin Used(T)
    /\ Used(T2) = Used(T) \cup {f[1]}
    /\ T2.valid = T.valid /\ T2.papvLevel1 = T.papvLevel1
    /\ T2.cCur = T.cCur /\ T2.cLevel1 = T.cLevel1
    /\ T2.pvObj = [T.pvObj EXCEPT ![f[1]] = o]
    /\ T2.pvCtx = [T.pvCtx EXCEPT ![f[1]] = c]

(* Taking the head keeps the table sound, also when it is the only entry:  *)
(* then the tail is reset with the head (handletablectx.c:72-80).          *)
LEMMA GrabGood ==
    ASSUME NEW T \in Table, NEW f, NEW o \in Obj, NEW c \in Ctx,
           Sized(T), Counted(T), FreeList(T, f), T.iFreeHead # NIL
    PROVE  Took(T, f, o, c, Grab(T, o, c))
  <1>1. /\ Len(f) \in Nat /\ f \in [1..Len(f) -> Index] /\ f # <<>> /\ Len(f) > 0
        /\ T.iFreeHead = f[1] /\ T.iFreeTail = f[Len(f)]
        /\ f[1] \in Index /\ f[1] \in Spare(T) /\ f[1] \notin Used(T)
        /\ T.iFreeHead = T.iFreeTail <=> Len(f) = 1
        /\ Len(f) > 1 => T.iNext[f[1]] = f[2]
    BY FreeHead
  <1>2. T.cCurAllocated < cMax
    BY <1>1, UsedFinite DEF Counted
  <1>3. PICK T2 \in Table :
             /\ T2 = Grab(T, o, c)
             /\ T2.valid = T.valid /\ T2.papvLevel1 = T.papvLevel1
             /\ T2.cCur = T.cCur /\ T2.cLevel1 = T.cLevel1
             /\ T2.cCurAllocated = T.cCurAllocated + 1
             /\ T2.pvObj = [T.pvObj EXCEPT ![T.iFreeHead] = o]
             /\ T2.pvCtx = [T.pvCtx EXCEPT ![T.iFreeHead] = c]
             /\ T2.iNext = [T.iNext EXCEPT ![T.iFreeHead] = NIL]
             /\ T2.iFreeHead = IF T.iFreeHead = T.iFreeTail THEN NIL ELSE T.iNext[T.iFreeHead]
             /\ T2.iFreeTail = IF T.iFreeHead = T.iFreeTail THEN NIL ELSE T.iFreeTail
    BY SMTT(30), <1>1, <1>2, GrabFields
  <1>4. Sized(T2)
    BY <1>3 DEF Sized
  <1>5. \A i \in Index : T2.pvObj[i] = IF i = f[1] THEN o ELSE T.pvObj[i]
    BY <1>1, <1>3 DEF Table
  <1>6. o # FREE
    BY TableAssumption
  <1>7. Used(T2) = Used(T) \cup {f[1]}
    BY <1>1, <1>5, <1>6 DEF Used
  <1>8. Counted(T2)
    <2>1. Cardinality(Used(T2)) = Cardinality(Used(T)) + 1
      BY <1>1, <1>7, UsedFinite, FS_AddElement
    <2>2. f[1] \in 0..(T.cCur - 1)
      BY <1>1 DEF Spare
    <2>. QED BY <1>3, <1>7, <2>1, <2>2 DEF Counted
  <1>9. Spare(T2) = Spare(T) \ {f[1]}
    <2>1. \A i \in 0..(T.cCur - 1) : i \in Index
      BY Indexes DEF Table
    <2>. QED BY <1>3, <1>5, <1>6, <2>1 DEF Spare
  <1>10. FreeList(T2, Tail(f))
    <2>. DEFINE g == Tail(f)
    <2>1. /\ g \in Seq(Index) /\ Len(g) = Len(f) - 1
          /\ \A k \in 1..Len(g) : g[k] = f[k + 1]
      <3>1. f \in Seq(Index)
        BY DEF FreeList
      <3>. QED BY <1>1, <3>1, HeadTailProperties
    <2>. HIDE DEF g
    <2>2. \A k \in 1..Len(g) : k + 1 \in 1..Len(f) /\ g[k] # f[1] /\ g[k] \in Spare(T2)
      <3>. TAKE k \in 1..Len(g)
      <3>1. k + 1 \in 1..Len(f) /\ 1 \in 1..Len(f) /\ k + 1 # 1
        BY <1>1, <2>1
      <3>2. f[k + 1] # f[1] /\ f[k + 1] \in Spare(T)
        BY <3>1 DEF FreeList
      <3>. QED BY <1>9, <2>1, <3>1, <3>2
    <2>3. ASSUME NEW i \in Spare(T2) PROVE \E k \in 1..Len(g) : g[k] = i
      <3>1. PICK k \in 1..Len(f) : f[k] = i
        BY <1>9 DEF FreeList
      <3>2. k # 1
        BY <1>9, <3>1
      <3>3. k - 1 \in 1..Len(g) /\ g[k - 1] = i
        BY SMTT(30), <1>1, <2>1, <3>1, <3>2
      <3>. QED BY <3>3
    <2>4. \A j, k \in 1..Len(g) : g[j] = g[k] => j = k
      <3>. TAKE j, k \in 1..Len(g)
      <3>1. f[j + 1] = f[k + 1] => j + 1 = k + 1
        BY <2>2 DEF FreeList
      <3>. QED BY <1>1, <2>1, <3>1
    <2>5. T2.iFreeHead = (IF Len(g) = 0 THEN NIL ELSE g[1])
      BY <1>1, <1>3, <2>1
    <2>6. T2.iFreeTail = (IF Len(g) = 0 THEN NIL ELSE g[Len(g)])
      BY <1>1, <1>3, <2>1
    <2>7. \A k \in 1..Len(g) : T2.iNext[g[k]] = (IF k = Len(g) THEN NIL ELSE g[k + 1])
      <3>. TAKE k \in 1..Len(g)
      <3>1. k + 1 \in 1..Len(f) /\ g[k] = f[k + 1] /\ g[k] # f[1] /\ f[k + 1] \in Index
        BY <1>1, <2>1, <2>2
      <3>2. T2.iNext[g[k]] = T.iNext[f[k + 1]]
        BY <1>1, <1>3, <3>1 DEF Table
      <3>3. T.iNext[f[k + 1]] = IF k + 1 = Len(f) THEN NIL ELSE f[k + 1 + 1]
        BY <3>1 DEF FreeList
      <3>. QED BY SMTT(30), <1>1, <2>1, <3>2, <3>3
    <2>8. FreeList(T2, g)
      BY <2>1, <2>2, <2>3, <2>4, <2>5, <2>6, <2>7 DEF FreeList
    <2>. QED BY <2>8 DEF g
  <1>11. Took(T, f, o, c, T2)
    BY <1>1, <1>3, <1>4, <1>7, <1>8, <1>10 DEF Took
  <1>. QED BY <1>3, <1>11, Zenon

(* The entries from..to appended to the free list f of T. *)
Appends(T, T2, f, g, from, to) ==
    /\ from <= to
    /\ \A i \in from..to : i \notin Spare(T)
    /\ Spare(T2) = Spare(T) \cup from..to
    /\ T2.iNext = Linked(T, from, to)
    /\ T2.iFreeHead = IF T.iFreeTail = NIL THEN from ELSE T.iFreeHead
    /\ T2.iFreeTail = to
    /\ Len(g) = Len(f) + (to - from + 1)
    /\ \A k \in 1..Len(f) : g[k] = f[k]
    /\ \A k \in 1..(to - from + 1) : g[Len(f) + k] = from + k - 1

(* The list with the linked entries from..to behind it is the list g: the  *)
(* old tail leads to from, nothing else in the old part changes.           *)
LEMMA Appended ==
    ASSUME NEW T \in Table, NEW T2 \in Table, NEW f, NEW from \in Index, NEW to \in Index,
           FreeList(T, f), NEW g \in Seq(Index), Appends(T, T2, f, g, from, to)
    PROVE  FreeList(T2, g)
  <1>0. /\ from <= to
        /\ \A i \in from..to : i \notin Spare(T)
        /\ Spare(T2) = Spare(T) \cup from..to
        /\ T2.iNext = Linked(T, from, to)
        /\ T2.iFreeHead = IF T.iFreeTail = NIL THEN from ELSE T.iFreeHead
        /\ T2.iFreeTail = to
        /\ Len(g) = Len(f) + (to - from + 1)
        /\ \A k \in 1..Len(f) : g[k] = f[k]
        /\ \A k \in 1..(to - from + 1) : g[Len(f) + k] = from + k - 1
    BY DEF Appends
  <1>. PICK n \in Nat : n = Len(f)
    BY FreeHead
  <1>. PICK d \in Nat : d = to - from + 1
    BY <1>0, Indexes
  <1>1. /\ d > 0 /\ from \in Nat /\ to \in Nat /\ from + d - 1 = to
        /\ Len(g) = n + d
    BY <1>0, Indexes
  <1>2. \A k \in 1..n : g[k] = f[k] /\ f[k] \in Spare(T) /\ f[k] \in Index
    BY <1>0, FreeHead DEF FreeList
  <1>3. \A k \in 1..d : g[n + k] = from + k - 1
    BY <1>0
  <1>4. \A k \in 1..(n + d) : k \in 1..n \/ (k - n \in 1..d /\ k = n + (k - n))
    OBVIOUS
  <1>5. \A k \in 1..(n + d) : ~(k \in 1..n) => g[k] = from + (k - n) - 1 /\ g[k] \in from..to
    <2>. TAKE k \in 1..(n + d)
    <2>. HAVE ~(k \in 1..n)
    <2>0. k - n \in 1..d
      BY <1>4
    <2>1. PICK j \in 1..d : j = k - n
      BY <2>0, Zenon
    <2>2. n + j = k /\ from + j - 1 \in from..to
      BY <1>1, <2>1
    <2>3. g[n + j] = from + j - 1
      BY <1>3
    <2>. QED BY <2>1, <2>2, <2>3
  <1>6. /\ T.iFreeHead = (IF n = 0 THEN NIL ELSE f[1])
        /\ T.iFreeTail = (IF n = 0 THEN NIL ELSE f[n])
        /\ \A i \in Spare(T) : \E k \in 1..n : f[k] = i
        /\ \A j, k \in 1..n : f[j] = f[k] => j = k
        /\ \A k \in 1..n : T.iNext[f[k]] = (IF k = n THEN NIL ELSE f[k + 1])
    BY DEF FreeList
  <1>7. \A k \in 1..(n + d) : g[k] \in Spare(T2)
    BY <1>0, <1>2, <1>5
  <1>8. ASSUME NEW i \in Spare(T2) PROVE \E k \in 1..(n + d) : g[k] = i
    <2>1. CASE i \in Spare(T)
      <3>1. PICK k \in 1..n : f[k] = i
        BY <1>6, <2>1
      <3>. QED BY <1>2, <3>1
    <2>2. CASE i \in from..to
      <3>1. i - from + 1 \in 1..d /\ n + (i - from + 1) \in 1..(n + d)
        BY <1>1, <2>2
      <3>2. g[n + (i - from + 1)] = from + (i - from + 1) - 1
        BY <1>3, <3>1
      <3>. QED BY <1>1, <2>2, <3>1, <3>2
    <2>. QED BY <1>0, <2>1, <2>2
  <1>9. ASSUME NEW j \in 1..(n + d), NEW k \in 1..(n + d), g[j] = g[k] PROVE j = k
    <2>1. CASE j \in 1..n /\ k \in 1..n
      BY <1>2, <1>6, <1>9, <2>1
    <2>2. CASE j \in 1..n /\ ~(k \in 1..n)
      BY <1>0, <1>2, <1>5, <1>9, <2>2
    <2>3. CASE ~(j \in 1..n) /\ k \in 1..n
      BY <1>0, <1>2, <1>5, <1>9, <2>3
    <2>4. CASE ~(j \in 1..n) /\ ~(k \in 1..n)
      <3>1. from + (j - n) - 1 = from + (k - n) - 1
        BY <1>5, <1>9, <2>4
      <3>. QED BY <1>1, <3>1
    <2>. QED BY <2>1, <2>2, <2>3, <2>4
  <1>10. T2.iFreeHead = (IF n + d = 0 THEN NIL ELSE g[1])
    <2>1. n > 0 => 1 \in 1..n /\ n \in 1..n /\ T.iFreeTail # NIL
      BY <1>2, <1>6, Indexes
    <2>2. n = 0 => 1 \in 1..(n + d) /\ ~(1 \in 1..n) /\ from + (1 - n) - 1 = from
      BY <1>1
    <2>3. n > 0 => g[1] = f[1]
      BY <1>2, <2>1
    <2>4. n = 0 => g[1] = from
      BY <1>5, <2>2
    <2>. QED BY <1>0, <1>1, <1>6, <2>1, <2>3, <2>4
  <1>11. T2.iFreeTail = (IF n + d = 0 THEN NIL ELSE g[n + d])
    <2>1. n + d \in 1..(n + d) /\ ~(n + d \in 1..n) /\ from + ((n + d) - n) - 1 = to /\ n + d # 0
      BY <1>1
    <2>. QED BY <1>0, <1>5, <2>1
  <1>12. ASSUME NEW k \in 1..(n + d)
         PROVE  T2.iNext[g[k]] = (IF k = n + d THEN NIL ELSE g[k + 1])
    <2>1. CASE k \in 1..n /\ k # n
      <3>1. k + 1 \in 1..n /\ n \in 1..n /\ k # n + d /\ n > 0
        BY <1>1, <2>1
      <3>2. g[k] = f[k] /\ f[k] \in Index /\ f[k] # T.iFreeTail /\ f[k] \notin from..to
        <4>1. g[k] = f[k] /\ f[k] \in Index /\ f[k] \in Spare(T)
          BY <1>2, <2>1
        <4>2. T.iFreeTail = f[n]
          BY <1>6, <3>1
        <4>3. f[k] # f[n]
          BY <1>6, <2>1, <3>1, Zenon
        <4>4. f[k] \notin from..to
          BY <1>0, <4>1
        <4>. QED BY <4>1, <4>2, <4>3, <4>4
      <3>3. T2.iNext[g[k]] = T.iNext[f[k]]
        BY <1>0, <3>2 DEF Linked
      <3>. QED BY <1>2, <1>6, <2>1, <3>1, <3>3
    <2>2. CASE k = n
      <3>1. k \in 1..n /\ k + 1 \in 1..(n + d) /\ ~(k + 1 \in 1..n) /\ k # n + d
            /\ from + (k + 1 - n) - 1 = from /\ n # 0
        BY <1>1, <2>2
      <3>2. g[k] = f[k] /\ f[k] \in Index /\ f[k] = T.iFreeTail /\ g[k + 1] = from
        BY <1>2, <1>5, <1>6, <2>2, <3>1
      <3>3. T2.iNext[g[k]] = from
        BY <1>0, <3>2 DEF Linked
      <3>. QED BY <3>1, <3>2, <3>3
    <2>3. CASE ~(k \in 1..n)
      <3>0. \A i \in from..to : i \in Index
        BY Constants DEF Index
      <3>1. g[k] = from + (k - n) - 1 /\ g[k] \in from..to /\ g[k] \in Index
        BY <1>5, <2>3, <3>0
      <3>2. g[k] # T.iFreeTail
        <4>1. n > 0 => n \in 1..n
          OBVIOUS
        <4>2. n > 0 => T.iFreeTail \in Spare(T)
          BY <1>2, <1>6, <4>1
        <4>3. n = 0 => T.iFreeTail = NIL
          BY <1>6
        <4>. QED BY <1>0, <3>1, <4>2, <4>3, Indexes
      <3>3. T2.iNext[g[k]] = IF g[k] = to THEN NIL ELSE g[k] + 1
        BY <1>0, <3>1, <3>2 DEF Linked
      <3>4. g[k] = to <=> k = n + d
        BY <1>1, <3>1
      <3>5. k # n + d => k + 1 \in 1..(n + d) /\ ~(k + 1 \in 1..n)
        BY <2>3
      <3>6. k # n + d => g[k + 1] = from + (k + 1 - n) - 1
        BY <1>5, <3>5
      <3>7. k # n + d => g[k + 1] = g[k] + 1
        BY <1>1, <3>1, <3>6
      <3>. QED BY <3>3, <3>4, <3>7
    <2>. QED BY <2>1, <2>2, <2>3
  <1>. QED BY <1>1, <1>7, <1>8, <1>9, <1>10, <1>11, <1>12 DEF FreeList

(* T2 is T with the used entry i at the end of the free list f. *)
Returned(T, f, i, T2) ==
    /\ T2 \in Table /\ Sized(T2) /\ Counted(T2)
    /\ FreeList(T2, Append(f, i))
    /\ Used(T2) = Used(T) \ {i}
    /\ T2.valid = T.valid /\ T2.papvLevel1 = T.papvLevel1
    /\ T2.cCur = T.cCur /\ T2.cLevel1 = T.cLevel1
    /\ T2.pvObj = [T.pvObj EXCEPT ![i] = FREE]
    /\ T2.pvCtx = [T.pvCtx EXCEPT ![i] = Poison]

(* A freed entry becomes the last of the free list                         *)
(* (handletablectx.c:298-320).                                             *)
LEMMA RecycleGood ==
    ASSUME NEW T \in Table, NEW f, NEW i \in Used(T),
           Sized(T), Counted(T), FreeList(T, f)
    PROVE  Returned(T, f, i, Recycle(T, i))
  <1>1. /\ i \in Index /\ T.pvObj[i] # FREE /\ i \in 0..(T.cCur - 1)
        /\ i \in Nat
    BY Indexes DEF Used, Counted
  <1>2. T.cCurAllocated > 0
    BY <1>1, UsedFinite DEF Counted
  <1>3. PICK T2 \in Table :
             /\ T2 = Recycle(T, i)
             /\ T2.valid = T.valid /\ T2.papvLevel1 = T.papvLevel1
             /\ T2.cCur = T.cCur /\ T2.cLevel1 = T.cLevel1
             /\ T2.cCurAllocated = T.cCurAllocated - 1
             /\ T2.pvObj = [T.pvObj EXCEPT ![i] = FREE]
             /\ T2.pvCtx = [T.pvCtx EXCEPT ![i] = Poison]
             /\ T2.iNext = Linked(T, i, i)
             /\ T2.iFreeHead = IF T.iFreeTail = NIL THEN i ELSE T.iFreeHead
             /\ T2.iFreeTail = i
    BY <1>1, <1>2, RecycleFields
  <1>4. Sized(T2)
    BY <1>3 DEF Sized
  <1>5. \A j \in Index : T2.pvObj[j] = IF j = i THEN FREE ELSE T.pvObj[j]
    BY <1>1, <1>3 DEF Table
  <1>6. Used(T2) = Used(T) \ {i}
    BY <1>5 DEF Used
  <1>7. Counted(T2)
    <2>1. Cardinality(Used(T2)) = Cardinality(Used(T)) - 1
      BY <1>6, UsedFinite, FS_RemoveElement
    <2>. QED BY <1>3, <1>6, <2>1 DEF Counted
  <1>8. Spare(T2) = Spare(T) \cup i..i /\ \A j \in i..i : j \notin Spare(T)
    <2>1. \A j \in 0..(T.cCur - 1) : j \in Index
      BY Indexes DEF Table
    <2>2. i..i = {i}
      BY <1>1
    <2>. QED BY <1>1, <1>3, <1>5, <2>1, <2>2 DEF Spare
  <1>9. FreeList(T2, Append(f, i))
    <2>1. f \in Seq(Index) /\ Len(f) \in Nat
      BY FreeHead DEF FreeList
    <2>2. /\ Append(f, i) \in Seq(Index)
          /\ Len(Append(f, i)) = Len(f) + 1
          /\ \A k \in 1..Len(f) : Append(f, i)[k] = f[k]
          /\ Append(f, i)[Len(f) + 1] = i
      BY <1>1, <2>1, AppendProperties
    <2>3. PICK g \in Seq(Index) : g = Append(f, i)
      BY <2>2
    <2>4. /\ i <= i /\ i - i + 1 = 1 /\ Len(f) + (i - i + 1) = Len(f) + 1
          /\ i + 1 - 1 = i
      BY <1>1, <2>1
    <2>5. \A k \in 1..(i - i + 1) : g[Len(f) + k] = i + k - 1
      <3>1. \A k \in 1..1 : k = 1
        OBVIOUS
      <3>. QED BY <2>2, <2>3, <2>4, <3>1
    <2>6. Len(g) = Len(f) + (i - i + 1) /\ \A k \in 1..Len(f) : g[k] = f[k]
      BY <2>2, <2>3, <2>4
    <2>7. Appends(T, T2, f, g, i, i)
      BY <1>3, <1>8, <2>4, <2>5, <2>6 DEF Appends
    <2>8. FreeList(T2, g)
      BY <1>1, <2>7, Appended
    <2>. QED BY <2>3, <2>8
  <1>10. Returned(T, f, i, T2)
    BY <1>3, <1>4, <1>6, <1>7, <1>9 DEF Returned
  <1>. QED BY <1>3, <1>10, Zenon

(* The indexes of a new second level table. *)
NewEntries(T) == [k \in 1..Level2 |-> T.cCur + k - 1]

(* T2 is T with the entries of one more second level table behind the free *)
(* list f.                                                                 *)
Extended(T, f, T2) ==
    /\ T2 \in Table /\ Sized(T2) /\ Counted(T2)
    /\ FreeList(T2, f \o NewEntries(T)) /\ T2.iFreeHead # NIL
    /\ Used(T2) = Used(T)
    /\ T2.valid = T.valid
    /\ T.cCur \div Level2 \notin T.papvLevel1
    /\ T2.papvLevel1 = T.papvLevel1 \cup {T.cCur \div Level2}
    /\ T2.cCur = T.cCur + Level2 /\ T.cCur + Level2 <= cMax
    /\ T2.cLevel1 = T.cLevel1
    /\ T2.pvObj = T.pvObj /\ T2.pvCtx = T.pvCtx

(* The entries of a new second level table go behind the free list, which  *)
(* may have got entries since the thread looked                            *)
(* (handletablectx.c:169-198).                                             *)
LEMMA AddTableGood ==
    ASSUME NEW T \in Table, NEW f,
           Sized(T), Counted(T), FreeList(T, f), HasRoom(T)
    PROVE  Extended(T, f, AddTable(T))
  <1>1. PICK m \in 0..MaxLevel1 : T.cCur = m * Level2 /\ T.papvLevel1 = 0..(m - 1) /\ m <= T.cLevel1
    BY DEF Sized
  <1>2. m \in Nat /\ T.cCur \div Level2 = m
    BY <1>1, Constants, QuotientOfProduct
  <1>3. m < T.cLevel1 /\ T.cLevel1 \in 0..MaxLevel1 /\ m < MaxLevel1 /\ m + 1 \in 0..MaxLevel1
    BY <1>1, <1>2, Constants DEF HasRoom, Table
  <1>4. T.cCur + Level2 <= cMax /\ T.cCur + Level2 = (m + 1) * Level2
    <2>1. m * Level2 + Level2 <= MaxLevel1 * Level2
      BY <1>2, <1>3, Constants, TimesMonotonic
    <2>2. (m + 1) * Level2 = m * Level2 + Level2
      BY <1>2, Constants, TimesSuccessor
    <2>3. T.cCur + Level2 = m * Level2 + Level2
      BY <1>1
    <2>4. cMax = MaxLevel1 * Level2
      BY Constants
    <2>. QED BY <2>1, <2>2, <2>3, <2>4, Zenon
  <1>5. m \in LEAF
    BY <1>2, <1>3, Constants DEF LEAF
  <1>6. PICK T2 \in Table :
             /\ T2 = AddTable(T)
             /\ T2.valid = T.valid
             /\ T2.papvLevel1 = T.papvLevel1 \cup {T.cCur \div Level2}
             /\ T2.cCur = T.cCur + Level2 /\ T2.cLevel1 = T.cLevel1
             /\ T2.cCurAllocated = T.cCurAllocated
             /\ T2.pvObj = T.pvObj /\ T2.pvCtx = T.pvCtx
             /\ T2.iNext = Linked(T, T.cCur, T.cCur + Level2 - 1)
             /\ T2.iFreeHead = IF T.iFreeTail = NIL THEN T.cCur ELSE T.iFreeHead
             /\ T2.iFreeTail = T.cCur + Level2 - 1
    BY <1>2, <1>4, <1>5, AddTableFields
  <1>7. Sized(T2)
    <2>1. T.papvLevel1 \cup {m} = 0..((m + 1) - 1) /\ m + 1 <= T.cLevel1
      BY <1>1, <1>2, <1>3
    <2>. QED BY <1>2, <1>3, <1>4, <1>6, <2>1 DEF Sized
  <1>8. Used(T2) = Used(T)
    BY <1>6 DEF Used
  <1>. PICK a \in Nat, b \in Nat : a = T.cCur /\ b = T.cCur + Level2 - 1
    BY Constants DEF Table
  <1>9. /\ a \in Index /\ b \in Index /\ a <= b /\ a..b \subseteq Index
        /\ 0..(T2.cCur - 1) = 0..(T.cCur - 1) \cup a..b
        /\ \A i \in a..b : i \notin 0..(T.cCur - 1)
        /\ b - a + 1 = Level2
    <2>1. /\ a <= b /\ b < cMax /\ b - a + 1 = Level2
          /\ T2.cCur - 1 = b /\ T.cCur - 1 = a - 1
      BY <1>4, <1>6, Constants
    <2>2. 0..b = 0..(a - 1) \cup a..b /\ \A i \in a..b : i \notin 0..(a - 1)
      BY <2>1
    <2>3. a \in Index /\ b \in Index /\ a..b \subseteq Index
      BY <2>1, Constants DEF Index
    <2>. QED BY <2>1, <2>2, <2>3
  <1>10. Counted(T2)
    BY <1>6, <1>8, <1>9 DEF Counted
  <1>11. Spare(T2) = Spare(T) \cup a..b /\ \A i \in a..b : i \notin Spare(T)
    <2>1. \A i \in a..b : T.pvObj[i] = FREE
      BY <1>9 DEF Counted, Used
    <2>. QED BY <1>6, <1>9, <2>1 DEF Spare
  <1>12. PICK g \in Seq(Index) :
            /\ g = f \o NewEntries(T)
            /\ Len(g) = Len(f) + (b - a + 1)
            /\ \A k \in 1..Len(f) : g[k] = f[k]
            /\ \A k \in 1..(b - a + 1) : g[Len(f) + k] = a + k - 1
    <2>. DEFINE e == NewEntries(T)
    <2>1. f \in Seq(Index) /\ Len(f) \in Nat
      BY FreeHead DEF FreeList
    <2>2. \A k \in 1..Level2 : a + k - 1 \in Index
      BY <1>9
    <2>3. e \in [1..Level2 -> Index] /\ \A k \in 1..Level2 : e[k] = a + k - 1
      BY <2>2 DEF NewEntries
    <2>. HIDE DEF e
    <2>4. e \in Seq(Index) /\ Len(e) = Level2
      BY <2>3, Constants
    <2>5. /\ f \o e \in Seq(Index)
          /\ Len(f \o e) = Len(f) + Level2
          /\ \A k \in 1..(Len(f) + Level2) :
                (f \o e)[k] = IF k <= Len(f) THEN f[k] ELSE e[k - Len(f)]
      BY <2>1, <2>4, ConcatProperties
    <2>6. PICK g \in Seq(Index) : g = f \o e
      BY <2>5
    <2>. PICK n \in Nat : n = Len(f)
      BY <2>1
    <2>7. \A k \in 1..n : g[k] = f[k]
      BY <2>5, <2>6, Constants
    <2>8. \A k \in 1..Level2 : g[n + k] = a + k - 1
      <3>. TAKE k \in 1..Level2
      <3>1. n + k \in 1..(n + Level2) /\ ~(n + k <= n) /\ (n + k) - n = k
        BY Constants
      <3>2. g[n + k] = e[k]
        BY <2>5, <2>6, <3>1
      <3>. QED BY <2>3, <3>2
    <2>. QED BY <1>9, <2>5, <2>6, <2>7, <2>8 DEF e
  <1>13. FreeList(T2, g)
    <2>1. Appends(T, T2, f, g, a, b)
      BY <1>6, <1>9, <1>11, <1>12 DEF Appends
    <2>. QED BY <1>9, <2>1, Appended
  <1>14. T2.iFreeHead # NIL
    <2>1. Len(g) > 0
      BY <1>9, <1>12, Constants, FreeHead
    <2>. QED BY <1>13, <2>1, FreeHead
  <1>15. m \notin T.papvLevel1
    BY <1>1, <1>2
  <1>16. Extended(T, f, T2)
    BY <1>2, <1>4, <1>6, <1>7, <1>8, <1>10, <1>12, <1>13, <1>14, <1>15 DEF Extended
  <1>. QED BY <1>6, <1>16, Zenon

-----------------------------------------------------------------------------
(* The threads that hold a second level table they allocated, and those    *)
(* that hold a first level table too.                                      *)
Carrying == {t \in Thread : pc[t] \in {"install", "insert"}}
Swapping == {t \in Thread : pc[t] = "install" /\ grow[t] > 0}

(* Each allocated table belongs to the handle table or to a thread. *)
HeapExact ==
    /\ IsFiniteSet(Carrying) /\ IsFiniteSet(Swapping)
    /\ heapLevel2 = Cardinality(tab.papvLevel1) + Cardinality(Carrying)
    /\ heapLevel1 = Cardinality(Swapping)
                    + (IF Dynamic /\ tab.cLevel1 > 0 THEN 1 ELSE 0)

(* The handle table lives while a thread is in it, and only a first level  *)
(* table that can grow is asked to.                                        *)
ThreadsSound ==
    \A t \in Thread :
        /\ pc[t] # "idle" => tab.valid /\ arg[t] \in Obj \X Ctx
        /\ grow[t] > 0 => Dynamic /\ pc[t] \in {"memory", "install", "insert"}

(* The part of the invariant about the table. *)
TableSound ==
    /\ Good(tab)
    /\ ~tab.valid => tab = Fresh(FALSE)
    /\ ~Dynamic => tab.cLevel1 = MaxLevel1

Typed ==
    /\ deleted \in SUBSET Index
    /\ pc   \in [Thread -> PC]
    /\ arg  \in [Thread -> (Obj \X Ctx) \cup {NoArg}]
    /\ grow \in [Thread -> 0..MaxLevel1]

IndInv == Typed /\ ThreadsSound /\ TableSound /\ HeapExact

LEMMA MinOfTwo ==
    ASSUME NEW a \in Nat, NEW b \in Nat
    PROVE  Min({a, b}) \in Nat /\ Min({a, b}) <= a /\ Min({a, b}) <= b
  <1>1. \E x \in {a, b} : \A y \in {a, b} : x <= y
    OBVIOUS
  <1>2. Min({a, b}) \in {a, b} /\ \A y \in {a, b} : Min({a, b}) <= y
    BY <1>1 DEF Min
  <1>. QED BY <1>2

(* The size asked for is within the limit, and 0 unless the table is       *)
(* dynamic.                                                                *)
LEMMA GrowBounds ==
    ASSUME NEW T \in Table, Sized(T), T.cCur < cMax, ~Dynamic => T.cLevel1 = MaxLevel1
    PROVE  /\ GrowLevel1(T) \in 0..MaxLevel1
           /\ GrowLevel1(T) > 0 => Dynamic
  <1>1. T.cLevel1 + Level1Step \in Nat /\ MaxLevel1 \in Nat
    BY Constants, TableAssumption DEF Table
  <1>2. Min({T.cLevel1 + Level1Step, MaxLevel1}) \in 0..MaxLevel1
    BY <1>1, MinOfTwo
  <1>3. T.cCur \in Nat
    BY DEF Table
  <1>4. T.cCur \div Level2 < MaxLevel1
    BY <1>3, Constants, QuotientBelow
  <1>5. T.cCur \div Level2 \in Nat
    BY <1>3, Constants, Quotient
  <1>. QED BY <1>1, <1>2, <1>4, <1>5 DEF GrowLevel1

(* How a step of thread t moves it into or out of the two sets. *)
LEMMA CarryingMoves ==
    ASSUME NEW t \in Thread, NEW l, pc \in [Thread -> PC], Goto(t, l),
           IsFiniteSet(Carrying)
    PROVE  /\ IsFiniteSet(Carrying')
           /\ Cardinality(Carrying) \in Nat
           /\ l \in {"install", "insert"} =>
                Cardinality(Carrying') = Cardinality(Carrying)
                    + (IF t \in Carrying THEN 0 ELSE 1)
           /\ l \notin {"install", "insert"} =>
                Cardinality(Carrying') = Cardinality(Carrying)
                    - (IF t \in Carrying THEN 1 ELSE 0)
  <1>1. /\ pc'[t] = l
        /\ \A s \in Thread : s # t => pc'[s] = pc[s]
    BY DEF Goto
  <1>2. Cardinality(Carrying) \in Nat
    BY FS_CardinalityType
  <1>3. CASE l \in {"install", "insert"}
    <2>1. Carrying' = Carrying \cup {t}
      BY <1>1, <1>3 DEF Carrying
    <2>. QED BY <1>2, <1>3, <2>1, FS_AddElement
  <1>4. CASE l \notin {"install", "insert"}
    <2>1. Carrying' = Carrying \ {t}
      BY <1>1, <1>4 DEF Carrying
    <2>. QED BY <1>2, <1>4, <2>1, FS_RemoveElement
  <1>. QED BY <1>3, <1>4

LEMMA SwappingMoves ==
    ASSUME NEW t \in Thread, NEW l, pc \in [Thread -> PC], Goto(t, l),
           \A s \in Thread : s # t => grow'[s] = grow[s],
           IsFiniteSet(Swapping)
    PROVE  /\ IsFiniteSet(Swapping')
           /\ Cardinality(Swapping) \in Nat
           /\ l = "install" /\ grow'[t] > 0 =>
                Cardinality(Swapping') = Cardinality(Swapping)
                    + (IF t \in Swapping THEN 0 ELSE 1)
           /\ ~(l = "install" /\ grow'[t] > 0) =>
                Cardinality(Swapping') = Cardinality(Swapping)
                    - (IF t \in Swapping THEN 1 ELSE 0)
  <1>1. /\ pc'[t] = l
        /\ \A s \in Thread : s # t => pc'[s] = pc[s]
    BY DEF Goto
  <1>2. Cardinality(Swapping) \in Nat
    BY FS_CardinalityType
  <1>3. CASE l = "install" /\ grow'[t] > 0
    <2>1. Swapping' = Swapping \cup {t}
      BY <1>1, <1>3 DEF Swapping
    <2>. QED BY <1>2, <1>3, <2>1, FS_AddElement
  <1>4. CASE ~(l = "install" /\ grow'[t] > 0)
    <2>1. Swapping' = Swapping \ {t}
      BY <1>1, <1>4 DEF Swapping
    <2>2. /\ IsFiniteSet(Swapping \ {t})
          /\ Cardinality(Swapping \ {t}) =
               IF t \in Swapping THEN Cardinality(Swapping) - 1 ELSE Cardinality(Swapping)
      BY FS_RemoveElement
    <2>3. Cardinality(Swapping) - 0 = Cardinality(Swapping)
      BY <1>2
    <2>4. Cardinality(Swapping') = Cardinality(Swapping) - (IF t \in Swapping THEN 1 ELSE 0)
      BY <2>1, <2>2, <2>3
    <2>. QED BY <1>2, <1>4, <2>1, <2>2, <2>4, Zenon
  <1>. QED BY <1>3, <1>4, Zenon

(* The number of second level tables. *)
LEMMA Level2Count ==
    ASSUME NEW T \in Table, Sized(T)
    PROVE  /\ IsFiniteSet(T.papvLevel1) /\ Cardinality(T.papvLevel1) \in Nat
           /\ T.cCur = Level2 * Cardinality(T.papvLevel1)
           /\ {k \in T.papvLevel1 : k < T.cLevel1} = T.papvLevel1
           /\ \A i \in 0..(T.cCur - 1) : Lookup(T, i) /\ i \div Level2 < T.cLevel1
  <1>1. PICK m \in 0..MaxLevel1 : T.cCur = m * Level2 /\ T.papvLevel1 = 0..(m - 1) /\ m <= T.cLevel1
    BY DEF Sized
  <1>2. m \in Nat /\ 0 \in Int /\ m - 1 \in Int /\ (IF 0 > m - 1 THEN 0 ELSE m - 1 - 0 + 1) = m
    BY <1>1, Constants
  <1>3. IsFiniteSet(T.papvLevel1) /\ Cardinality(T.papvLevel1) = m
    BY <1>1, <1>2, FS_Interval
  <1>4. Level2 * m = m * Level2
    BY <1>2, Constants
  <1>5. {k \in T.papvLevel1 : k < T.cLevel1} = T.papvLevel1
    BY <1>1, <1>2 DEF Table
  <1>6. ASSUME NEW i \in 0..(T.cCur - 1)
        PROVE  Lookup(T, i) /\ i \div Level2 < T.cLevel1
    <2>1. i \in Nat /\ i < T.cCur
      BY <1>6 DEF Table
    <2>2. i \div Level2 < m
      BY <1>1, <1>2, <2>1, Constants, QuotientBelow
    <2>3. i \div Level2 \in Nat
      BY <2>1, Constants, Quotient
    <2>4. i \div Level2 \in T.papvLevel1
      BY <1>1, <1>2, <2>2, <2>3
    <2>5. i \div Level2 < T.cLevel1
      BY <1>1, <1>2, <2>2, <2>3 DEF Table
    <2>. QED BY <2>1, <2>4, <2>5 DEF Lookup
  <1>. QED BY <1>1, <1>2, <1>3, <1>4, <1>5, <1>6

-----------------------------------------------------------------------------
(* The steps. *)

LEMMA TypedStep ==
    ASSUME Typed, TableSound, ThreadsSound, [Next]_vars
    PROVE  Typed'
  <1>. USE DEF Typed
  <1>0. "idle" \in PC /\ "alloc" \in PC /\ "memory" \in PC /\ "install" \in PC /\ "insert" \in PC
        /\ 0 \in 0..MaxLevel1
    BY Constants DEF PC
  <1>1. ASSUME NEW t \in Thread, Return(t), UNCHANGED deleted PROVE Typed'
    BY <1>0, <1>1 DEF Return, Goto
  <1>2. ASSUME NEW t \in Thread, NEW o \in Obj, NEW c \in Ctx, AllocCall(t, o, c)
        PROVE  Typed'
    BY <1>0, <1>2 DEF AllocCall, Goto
  <1>3. ASSUME NEW t \in Thread, AllocStep(t) PROVE Typed'
    <2>1. CASE AllocTake(t) \/ AllocFull(t) \/ AllocNoMemory(t) \/ InsertLevel2(t)
      BY <1>1, <2>1 DEF AllocTake, AllocFull, AllocNoMemory, InsertLevel2, Success
    <2>2. CASE AllocExpand(t)
      <3>1. GrowLevel1(tab) \in 0..MaxLevel1
        BY <2>2, GrowBounds DEF AllocExpand, TableSound, Good
      <3>. QED BY <1>0, <2>2, <3>1 DEF AllocExpand, Goto
    <2>3. CASE AllocMemory(t)
      BY <1>0, <2>3 DEF AllocMemory, Goto
    <2>4. CASE InstallLevel1(t)
      BY <1>0, <2>4 DEF InstallLevel1, Goto
    <2>5. CASE LoseLevel2(t)
      BY <1>0, <2>5 DEF LoseLevel2, Goto
    <2>. QED BY <1>3, <2>1, <2>2, <2>3, <2>4, <2>5 DEF AllocStep
  <1>4. ASSUME NEW t \in Thread, NEW i \in Index, NEW c \in Ctx, Free(t, i, c)
        PROVE  Typed'
    BY <1>4 DEF Free
  <1>5. CASE Create
    BY <1>5 DEF Create
  <1>6. CASE Destroy
    <2>1. Deleted(tab) \in SUBSET Index
      BY DEF Deleted, Used
    <2>. QED BY <1>6, <2>1 DEF Destroy
  <1>7. CASE UNCHANGED vars
    BY <1>7 DEF vars
  <1>. QED BY <1>2, <1>3, <1>4, <1>5, <1>6, <1>7 DEF Next

(* Steps that leave the table alone leave it sound. *)
LEMMA TableUnchanged ==
    ASSUME TableSound, UNCHANGED tab
    PROVE  TableSound'
  BY DEF TableSound, Good

LEMMA GoodIs ==
    ASSUME Good(tab)
    PROVE  /\ tab \in Table /\ Sized(tab) /\ Counted(tab)
           /\ \E f \in Seq(Index) : FreeList(tab, f)
  BY DEF Good

(* The table after an entry was taken from T, the table or the table with  *)
(* a second level table more.                                              *)
LEMMA TakeSound ==
    ASSUME NEW T \in Table, Sized(T), Counted(T), NEW f, FreeList(T, f),
           T.iFreeHead # NIL, T.valid, T.cLevel1 = tab.cLevel1,
           NEW t \in Thread, Success(t, T), arg[t] \in Obj \X Ctx,
           ~Dynamic => tab.cLevel1 = MaxLevel1
    PROVE  TableSound' /\ tab'.valid /\ Took(T, f, arg[t][1], arg[t][2], tab')
  <1>1. arg[t][1] \in Obj /\ arg[t][2] \in Ctx /\ tab' = Grab(T, arg[t][1], arg[t][2])
    BY DEF Success
  <1>2. Took(T, f, arg[t][1], arg[t][2], Grab(T, arg[t][1], arg[t][2]))
    BY <1>1, GrabGood, Zenon
  <1>3. Took(T, f, arg[t][1], arg[t][2], tab')
    BY <1>1, <1>2, Zenon
  <1>4. /\ tab' \in Table /\ Sized(tab') /\ Counted(tab') /\ FreeList(tab', Tail(f))
        /\ tab'.valid = T.valid /\ tab'.cLevel1 = T.cLevel1
    BY <1>3 DEF Took
  <1>5. Good(tab')
    BY <1>4 DEF Good, FreeList
  <1>6. TableSound'
    BY <1>4, <1>5 DEF TableSound
  <1>. QED BY <1>3, <1>4, <1>6

(* An allocation takes the head of the free list of tab, *)
LEMMA AllocTakeStep ==
    ASSUME ThreadsSound, TableSound, NEW f, FreeList(tab, f), NEW t \in Thread, AllocTake(t)
    PROVE  /\ TableSound' /\ tab'.valid /\ arg[t] \in Obj \X Ctx
           /\ Took(tab, f, arg[t][1], arg[t][2], tab')
  <1>1. pc[t] # "idle" /\ tab.iFreeHead # NIL /\ Success(t, tab)
    BY DEF AllocTake
  <1>2. tab.valid /\ arg[t] \in Obj \X Ctx
    BY <1>1 DEF ThreadsSound
  <1>3. tab \in Table /\ Sized(tab) /\ Counted(tab) /\ (~Dynamic => tab.cLevel1 = MaxLevel1)
    BY GoodIs DEF TableSound
  <1>. QED BY <1>1, <1>2, <1>3, TakeSound

(* or adds a second level table and takes the head of the longer list. *)
LEMMA InsertLevel2Step ==
    ASSUME ThreadsSound, TableSound, NEW f, FreeList(tab, f), NEW t \in Thread, InsertLevel2(t)
    PROVE  /\ TableSound' /\ tab'.valid /\ arg[t] \in Obj \X Ctx
           /\ Extended(tab, f, AddTable(tab))
           /\ Took(AddTable(tab), f \o NewEntries(tab), arg[t][1], arg[t][2], tab')
  <1>1. pc[t] # "idle" /\ HasRoom(tab) /\ Success(t, AddTable(tab))
    BY DEF InsertLevel2, AtInsert
  <1>2. tab.valid /\ arg[t] \in Obj \X Ctx
    BY <1>1 DEF ThreadsSound
  <1>3. tab \in Table /\ Sized(tab) /\ Counted(tab) /\ (~Dynamic => tab.cLevel1 = MaxLevel1)
    BY GoodIs DEF TableSound
  <1>4. Extended(tab, f, AddTable(tab))
    BY <1>1, <1>3, AddTableGood
  <1>. PICK T : T = AddTable(tab)
    OBVIOUS
  <1>5. /\ T \in Table /\ Sized(T) /\ Counted(T)
        /\ FreeList(T, f \o NewEntries(tab)) /\ T.iFreeHead # NIL
        /\ T.valid /\ T.cLevel1 = tab.cLevel1
    BY <1>2, <1>4 DEF Extended
  <1>6. Success(t, T)
    BY <1>1
  <1>7. TableSound' /\ tab'.valid /\ Took(T, f \o NewEntries(tab), arg[t][1], arg[t][2], tab')
    BY <1>2, <1>3, <1>5, <1>6, TakeSound
  <1>. QED BY <1>2, <1>4, <1>7

(* A freed handle goes to the end of the free list. *)
LEMMA FreeStep ==
    ASSUME TableSound, NEW f, FreeList(tab, f),
           NEW t \in Thread, NEW i \in Index, NEW c \in Ctx, Free(t, i, c)
    PROVE  /\ TableSound' /\ tab.valid /\ tab'.valid
           /\ i \in Used(tab) /\ Returned(tab, f, i, tab')
  <1>1. i \in Used(tab) /\ tab.valid /\ tab' = Recycle(tab, i)
    BY DEF Free, Used
  <1>2. tab \in Table /\ Sized(tab) /\ Counted(tab) /\ (~Dynamic => tab.cLevel1 = MaxLevel1)
    BY GoodIs DEF TableSound
  <1>3. Returned(tab, f, i, Recycle(tab, i))
    BY <1>1, <1>2, RecycleGood
  <1>4. Returned(tab, f, i, tab')
    BY <1>1, <1>3, Zenon
  <1>5. /\ tab' \in Table /\ Sized(tab') /\ Counted(tab') /\ FreeList(tab', Append(f, i))
        /\ tab'.valid = tab.valid /\ tab'.cLevel1 = tab.cLevel1
    BY <1>4 DEF Returned
  <1>6. Good(tab')
    BY <1>5 DEF Good, FreeList
  <1>7. TableSound'
    BY <1>1, <1>2, <1>5, <1>6 DEF TableSound
  <1>. QED BY <1>1, <1>4, <1>5, <1>7

(* A larger first level table changes nothing else. *)
LEMMA InstallStep ==
    ASSUME Typed, ThreadsSound, TableSound, NEW f, FreeList(tab, f),
           NEW t \in Thread, InstallLevel1(t)
    PROVE  /\ TableSound' /\ Dynamic
           /\ tab' \in Table /\ FreeList(tab', f) /\ Used(tab') = Used(tab)
           /\ tab'.valid = tab.valid /\ tab'.papvLevel1 = tab.papvLevel1
           /\ tab'.cCur = tab.cCur /\ tab'.cCurAllocated = tab.cCurAllocated
           /\ tab'.pvObj = tab.pvObj /\ tab'.pvCtx = tab.pvCtx
           /\ tab'.cLevel1 = IF grow[t] > tab.cLevel1 THEN grow[t] ELSE tab.cLevel1
  <1>1. pc[t] = "install" /\ grow[t] > 0 /\ grow[t] \in 0..MaxLevel1
    BY DEF InstallLevel1, Typed
  <1>2. Dynamic /\ tab.valid
    BY <1>1 DEF ThreadsSound
  <1>3. tab \in Table /\ Sized(tab) /\ Counted(tab)
    BY GoodIs DEF TableSound
  <1>4. CASE grow[t] > tab.cLevel1
    <2>1. tab' = [tab EXCEPT !.cLevel1 = grow[t]]
      BY <1>4 DEF InstallLevel1
    <2>2. /\ tab' \in Table
          /\ tab'.valid = tab.valid /\ tab'.papvLevel1 = tab.papvLevel1
          /\ tab'.cCur = tab.cCur /\ tab'.cCurAllocated = tab.cCurAllocated
          /\ tab'.pvObj = tab.pvObj /\ tab'.pvCtx = tab.pvCtx
          /\ tab'.iNext = tab.iNext
          /\ tab'.iFreeHead = tab.iFreeHead /\ tab'.iFreeTail = tab.iFreeTail
          /\ tab'.cLevel1 = grow[t]
      BY <1>1, <1>3, <2>1 DEF Table
    <2>3. Used(tab') = Used(tab) /\ Spare(tab') = Spare(tab)
      BY <2>2 DEF Used, Spare
    <2>4. FreeList(tab', f)
      BY <2>2, <2>3 DEF FreeList
    <2>5. Counted(tab')
      BY <1>3, <2>2, <2>3 DEF Counted
    <2>6. Sized(tab')
      <3>1. PICK m \in 0..MaxLevel1 : tab.cCur = m * Level2 /\ tab.papvLevel1 = 0..(m - 1) /\ m <= tab.cLevel1
        BY <1>3 DEF Sized
      <3>2. m <= grow[t]
        BY <1>1, <1>3, <1>4, <3>1, Constants DEF Table
      <3>. QED BY <2>2, <3>1, <3>2 DEF Sized
    <2>7. TableSound'
      BY <1>2, <2>2, <2>4, <2>5, <2>6 DEF TableSound, Good, FreeList
    <2>. QED BY <1>2, <1>4, <2>2, <2>3, <2>4, <2>7
  <1>5. CASE ~(grow[t] > tab.cLevel1)
    <2>1. tab' = tab
      BY <1>5 DEF InstallLevel1
    <2>. QED BY <1>2, <1>3, <1>5, <2>1, TableUnchanged
  <1>. QED BY <1>4, <1>5

(* Creating and destroying leave a table that is sound and empty. *)
LEMMA FreshSound ==
    ASSUME NEW b \in BOOLEAN, tab' = Fresh(b)
    PROVE  TableSound' /\ (tab'.valid <=> b)
  <1>1. /\ Fresh(b) \in Table /\ Sized(Fresh(b)) /\ Counted(Fresh(b))
        /\ FreeList(Fresh(b), <<>>)
    BY FreshGood
  <1>2. Good(Fresh(b))
    BY <1>1 DEF Good, FreeList
  <1>3. (Fresh(b).valid <=> b) /\ (~Dynamic => Fresh(b).cLevel1 = MaxLevel1)
    BY DEF Fresh
  <1>4. ~b => Fresh(b) = Fresh(FALSE)
    OBVIOUS
  <1>5. ~Fresh(b).valid => Fresh(b) = Fresh(FALSE)
    BY <1>3, <1>4
  <1>. QED BY <1>2, <1>3, <1>5 DEF TableSound

(* Every step leaves the table sound, *)
LEMMA TableStep ==
    ASSUME Typed, ThreadsSound, TableSound, [Next]_vars
    PROVE  TableSound'
  <1>. PICK f \in Seq(Index) : FreeList(tab, f)
    BY GoodIs DEF TableSound
  <1>1. ASSUME NEW t \in Thread, NEW o \in Obj, NEW c \in Ctx, AllocCall(t, o, c)
        PROVE  TableSound'
    BY <1>1, TableUnchanged DEF AllocCall
  <1>2. ASSUME NEW t \in Thread, AllocStep(t) PROVE TableSound'
    <2>1. CASE AllocTake(t)
      BY <2>1, AllocTakeStep
    <2>2. CASE InsertLevel2(t)
      BY <2>2, InsertLevel2Step
    <2>3. CASE InstallLevel1(t)
      BY <2>3, InstallStep
    <2>4. CASE AllocFull(t) \/ AllocExpand(t) \/ AllocMemory(t) \/ AllocNoMemory(t) \/ LoseLevel2(t)
      BY <2>4, TableUnchanged
         DEF AllocFull, AllocExpand, AllocMemory, AllocNoMemory, LoseLevel2
    <2>. QED BY <1>2, <2>1, <2>2, <2>3, <2>4 DEF AllocStep
  <1>3. ASSUME NEW t \in Thread, NEW i \in Index, NEW c \in Ctx, Free(t, i, c)
        PROVE  TableSound'
    BY <1>3, FreeStep
  <1>4. CASE Create
    BY <1>4, FreshSound DEF Create
  <1>5. CASE Destroy
    BY <1>5, FreshSound DEF Destroy
  <1>6. CASE UNCHANGED vars
    BY <1>6, TableUnchanged DEF vars
  <1>. QED BY <1>1, <1>2, <1>3, <1>4, <1>5, <1>6 DEF Next

(* and so it leaves the threads. *)
LEMMA ThreadsStep ==
    ASSUME Typed, ThreadsSound, TableSound, [Next]_vars
    PROVE  ThreadsSound'
  <1>. USE DEF ThreadsSound, Typed
  <1>. PICK f \in Seq(Index) : FreeList(tab, f)
    BY GoodIs DEF TableSound
  <1>1. ASSUME NEW t \in Thread, NEW o \in Obj, NEW c \in Ctx, AllocCall(t, o, c)
        PROVE  ThreadsSound'
    BY <1>1 DEF AllocCall, Goto
  <1>2. ASSUME NEW t \in Thread, Return(t), tab'.valid = tab.valid PROVE ThreadsSound'
    BY <1>2 DEF Return, Goto
  <1>3. ASSUME NEW t \in Thread, AllocStep(t) PROVE ThreadsSound'
    <2>1. CASE AllocTake(t)
      <3>1. pc[t] # "idle" /\ Return(t)
        BY <2>1 DEF AllocTake, Success
      <3>2. tab.valid /\ tab'.valid /\ tab.valid \in BOOLEAN /\ tab'.valid \in BOOLEAN
        BY <2>1, <3>1, AllocTakeStep, TableStep DEF TableSound, Good, Table
      <3>. QED BY <1>2, <3>1, <3>2
    <2>2. CASE InsertLevel2(t)
      <3>1. pc[t] # "idle" /\ Return(t)
        BY <2>2 DEF InsertLevel2, AtInsert, Success
      <3>2. tab.valid /\ tab'.valid /\ tab.valid \in BOOLEAN /\ tab'.valid \in BOOLEAN
        BY <2>2, <3>1, InsertLevel2Step, TableStep DEF TableSound, Good, Table
      <3>. QED BY <1>2, <3>1, <3>2
    <2>3. CASE AllocFull(t) \/ AllocNoMemory(t)
      BY <1>2, <2>3 DEF AllocFull, AllocNoMemory
    <2>4. CASE AllocExpand(t)
      <3>1. GrowLevel1(tab) > 0 => Dynamic
        BY <2>4, GrowBounds DEF AllocExpand, TableSound, Good
      <3>. QED BY <2>4, <3>1 DEF AllocExpand, Goto
    <2>5. CASE AllocMemory(t)
      BY <2>5 DEF AllocMemory, Goto
    <2>6. CASE InstallLevel1(t)
      <3>1. tab'.valid = tab.valid
        BY <2>6, InstallStep
      <3>. QED BY <2>6, <3>1 DEF InstallLevel1, Goto
    <2>7. CASE LoseLevel2(t)
      <3>1. pc[t] # "idle"
        BY <2>7 DEF LoseLevel2, AtInsert
      <3>2. 0 > 0 <=> FALSE
        OBVIOUS
      <3>. QED BY <2>7, <3>1, <3>2 DEF LoseLevel2, Goto
    <2>. QED BY <1>3, <2>1, <2>2, <2>3, <2>4, <2>5, <2>6, <2>7 DEF AllocStep
  <1>4. ASSUME NEW t \in Thread, NEW i \in Index, NEW c \in Ctx, Free(t, i, c)
        PROVE  ThreadsSound'
    <2>1. tab'.valid
      BY <1>4, FreeStep
    <2>. QED BY <1>4, <2>1 DEF Free
  <1>5. CASE Create
    BY <1>5 DEF Create
  <1>6. CASE Destroy
    BY <1>6 DEF Destroy
  <1>7. CASE UNCHANGED vars
    BY <1>7 DEF vars
  <1>. QED BY <1>1, <1>3, <1>4, <1>5, <1>6, <1>7 DEF Next

-----------------------------------------------------------------------------
(* The memory: HeapExact. *)

(* What HeapExact says of the numbers of tables. *)
OneIf(b) == IF b THEN 1 ELSE 0
Level1Held == OneIf(Dynamic /\ tab.cLevel1 > 0)

(* A step that moves a table from the allocator to a thread, or from a     *)
(* thread to the handle table or back to the allocator, moves it in both   *)
(* counts.                                                                 *)
LEMMA HeapStep ==
    ASSUME Typed, ThreadsSound, TableSound, HeapExact, [Next]_vars
    PROVE  HeapExact'
  <1>. PICK f \in Seq(Index) : FreeList(tab, f)
    BY GoodIs DEF TableSound
  <1>1. pc \in [Thread -> PC] /\ grow \in [Thread -> 0..MaxLevel1] /\ arg \in [Thread -> (Obj \X Ctx) \cup {NoArg}]
    BY DEF Typed
  <1>2. /\ IsFiniteSet(Carrying) /\ IsFiniteSet(Swapping)
        /\ heapLevel2 = Cardinality(tab.papvLevel1) + Cardinality(Carrying)
        /\ heapLevel1 = Cardinality(Swapping) + Level1Held
    BY DEF HeapExact, Level1Held, OneIf
  <1>3. tab \in Table /\ Sized(tab) /\ IsFiniteSet(tab.papvLevel1) /\ Cardinality(tab.papvLevel1) \in Nat
    BY Level2Count DEF TableSound, Good
  <1>4. Level1Held \in Nat /\ Cardinality(Carrying) \in Nat /\ Cardinality(Swapping) \in Nat
    BY <1>2, FS_CardinalityType DEF Level1Held, OneIf
  <1>5. ASSUME NEW t \in Thread, NEW l \in {"idle", "alloc", "memory"}, Goto(t, l),
               \A s \in Thread : s # t => grow'[s] = grow[s],
               pc[t] \in {"idle", "alloc", "memory"},
               UNCHANGED heapVars, tab'.papvLevel1 = tab.papvLevel1, tab'.cLevel1 = tab.cLevel1
        PROVE  HeapExact'
    <2>1. l \notin {"install", "insert"} /\ t \notin Carrying /\ t \notin Swapping /\ l # "install"
      BY <1>5 DEF Carrying, Swapping
    <2>2. IsFiniteSet(Carrying') /\ Cardinality(Carrying') = Cardinality(Carrying)
      BY <1>1, <1>2, <1>4, <1>5, <2>1, CarryingMoves
    <2>3. IsFiniteSet(Swapping') /\ Cardinality(Swapping') = Cardinality(Swapping)
      BY <1>1, <1>2, <1>4, <1>5, <2>1, SwappingMoves
    <2>4. Level1Held' = Level1Held
      BY <1>5 DEF Level1Held
    <2>5. heapLevel1' = heapLevel1 /\ heapLevel2' = heapLevel2
      BY <1>5 DEF heapVars
    <2>6. heapLevel1' = Cardinality(Swapping') + Level1Held'
      BY <1>2, <2>3, <2>4, <2>5
    <2>7. heapLevel2' = Cardinality(tab'.papvLevel1) + Cardinality(Carrying')
      BY <1>2, <1>5, <2>2, <2>5
    <2>. QED BY <2>2, <2>3, <2>6, <2>7 DEF HeapExact, Level1Held, OneIf
  <1>6. ASSUME NEW t \in Thread, NEW o \in Obj, NEW c \in Ctx, AllocCall(t, o, c)
        PROVE  HeapExact'
    BY <1>5, <1>6 DEF AllocCall
  <1>7. ASSUME NEW t \in Thread, AllocStep(t) PROVE HeapExact'
    <2>1. CASE AllocTake(t)
      <3>1. /\ pc[t] = "alloc" /\ Goto(t, "idle") /\ grow' = [grow EXCEPT ![t] = 0]
            /\ UNCHANGED heapVars
        BY <2>1 DEF AllocTake, Success, Return
      <3>2. tab'.papvLevel1 = tab.papvLevel1 /\ tab'.cLevel1 = tab.cLevel1
        BY <2>1, AllocTakeStep DEF Took
      <3>. QED BY <1>1, <1>5, <3>1, <3>2
    <2>2. CASE AllocFull(t) \/ AllocNoMemory(t)
      <3>1. /\ pc[t] \in {"alloc", "memory"} /\ Goto(t, "idle") /\ grow' = [grow EXCEPT ![t] = 0]
            /\ UNCHANGED heapVars /\ UNCHANGED tab
        BY <2>2 DEF AllocFull, AllocNoMemory, Return
      <3>. QED BY <1>1, <1>5, <3>1
    <2>3. CASE AllocExpand(t)
      <3>1. /\ pc[t] = "alloc" /\ Goto(t, "memory") /\ \A s \in Thread : s # t => grow'[s] = grow[s]
            /\ UNCHANGED heapVars /\ UNCHANGED tab
        BY <1>1, <2>3 DEF AllocExpand
      <3>. QED BY <1>5, <3>1
    <2>4. CASE AllocMemory(t)
      <3>1. /\ pc[t] = "memory" /\ Goto(t, "install") /\ UNCHANGED grow /\ UNCHANGED tab
            /\ heapLevel2' = heapLevel2 + 1
            /\ heapLevel1' = heapLevel1 + OneIf(grow[t] > 0)
        BY <2>4 DEF AllocMemory, OneIf
      <3>2. t \notin Carrying /\ t \notin Swapping
        BY <3>1 DEF Carrying, Swapping
      <3>3. IsFiniteSet(Carrying') /\ Cardinality(Carrying') = Cardinality(Carrying) + 1
        BY <1>1, <1>2, <1>4, <3>1, <3>2, CarryingMoves
      <3>4. IsFiniteSet(Swapping')
        BY <1>1, <1>2, <3>1, SwappingMoves
      <3>5. Cardinality(Swapping') = Cardinality(Swapping) + OneIf(grow[t] > 0)
        BY <1>1, <1>2, <1>4, <3>1, <3>2, SwappingMoves DEF OneIf
      <3>6. Level1Held' = Level1Held /\ OneIf(grow[t] > 0) \in Nat
        BY <3>1 DEF Level1Held, OneIf
      <3>7. heapLevel1' = Cardinality(Swapping') + Level1Held'
        BY <1>2, <1>4, <3>1, <3>5, <3>6
      <3>8. tab'.papvLevel1 = tab.papvLevel1
        BY <3>1
      <3>9. heapLevel2' = Cardinality(tab'.papvLevel1) + Cardinality(Carrying')
        BY <1>2, <1>3, <1>4, <3>1, <3>3, <3>8
      <3>. QED BY <3>3, <3>4, <3>7, <3>9 DEF HeapExact, Level1Held, OneIf
    <2>5. CASE InstallLevel1(t)
      <3>1. /\ pc[t] = "install" /\ grow[t] > 0 /\ Goto(t, "insert") /\ UNCHANGED grow
            /\ heapLevel2' = heapLevel2
            /\ heapLevel1' = heapLevel1 - (IF grow[t] > tab.cLevel1 THEN OneIf(tab.cLevel1 > 0) ELSE 1)
        BY <2>5 DEF InstallLevel1, OneIf
      <3>2. t \in Carrying /\ t \in Swapping
        BY <3>1 DEF Carrying, Swapping
      <3>3. IsFiniteSet(Carrying') /\ Cardinality(Carrying') = Cardinality(Carrying)
        BY <1>1, <1>2, <1>4, <3>1, <3>2, CarryingMoves
      <3>4. IsFiniteSet(Swapping') /\ Cardinality(Swapping') = Cardinality(Swapping) - 1
        BY <1>1, <1>2, <1>4, <3>1, <3>2, SwappingMoves
      <3>5. /\ Dynamic /\ tab'.papvLevel1 = tab.papvLevel1
            /\ tab'.cLevel1 = IF grow[t] > tab.cLevel1 THEN grow[t] ELSE tab.cLevel1
        BY <2>5, InstallStep
      <3>6. Level1Held' = IF grow[t] > tab.cLevel1 THEN 1 ELSE Level1Held
        BY <3>1, <3>5 DEF Level1Held, OneIf
      <3>7. Level1Held = OneIf(tab.cLevel1 > 0) /\ OneIf(tab.cLevel1 > 0) \in Nat
        BY <3>5 DEF Level1Held, OneIf
      <3>8. grow[t] \in Nat /\ tab.cLevel1 \in Nat
        BY <1>1, <1>3, Constants DEF Table
      <3>9. ~(grow[t] > tab.cLevel1) => Level1Held = 1
        BY <3>1, <3>5, <3>8 DEF Level1Held, OneIf
      <3>10. heapLevel1' = Cardinality(Swapping') + Level1Held'
        BY SMTT(30), <1>2, <1>4, <3>1, <3>4, <3>6, <3>7, <3>9
      <3>. QED BY <1>2, <1>3, <1>4, <3>1, <3>3, <3>4, <3>5, <3>10 DEF HeapExact, Level1Held, OneIf
    <2>6. CASE InsertLevel2(t)
      <3>1. /\ AtInsert(t) /\ Goto(t, "idle") /\ grow' = [grow EXCEPT ![t] = 0]
            /\ heapLevel2' = heapLevel2 /\ heapLevel1' = heapLevel1
        BY <2>6 DEF InsertLevel2, Success, Return, heapVars
      <3>2. t \in Carrying /\ t \notin Swapping
        BY <3>1 DEF Carrying, Swapping, AtInsert
      <3>3. IsFiniteSet(Carrying') /\ Cardinality(Carrying') = Cardinality(Carrying) - 1
        BY SMTT(30), <1>1, <1>2, <1>4, <3>1, <3>2, CarryingMoves
      <3>4. IsFiniteSet(Swapping') /\ Cardinality(Swapping') = Cardinality(Swapping)
        BY <1>1, <1>2, <1>4, <3>1, <3>2, SwappingMoves
      <3>5. /\ tab'.cLevel1 = tab.cLevel1
            /\ tab'.papvLevel1 = tab.papvLevel1 \cup {tab.cCur \div Level2}
            /\ tab.cCur \div Level2 \notin tab.papvLevel1
        BY <2>6, InsertLevel2Step DEF Took, Extended
      <3>6. Cardinality(tab'.papvLevel1) = Cardinality(tab.papvLevel1) + 1
        BY <1>3, <3>5, FS_AddElement
      <3>. QED BY <1>2, <1>3, <1>4, <3>1, <3>3, <3>4, <3>5, <3>6 DEF HeapExact, Level1Held, OneIf
    <2>7. CASE LoseLevel2(t)
      <3>1. /\ AtInsert(t) /\ Goto(t, "alloc") /\ grow' = [grow EXCEPT ![t] = 0]
            /\ heapLevel2' = heapLevel2 - 1 /\ heapLevel1' = heapLevel1 /\ UNCHANGED tab
        BY <2>7 DEF LoseLevel2
      <3>2. t \in Carrying /\ t \notin Swapping
        BY <3>1 DEF Carrying, Swapping, AtInsert
      <3>3. IsFiniteSet(Carrying') /\ Cardinality(Carrying') = Cardinality(Carrying) - 1
        BY SMTT(30), <1>1, <1>2, <1>4, <3>1, <3>2, CarryingMoves
      <3>4. IsFiniteSet(Swapping') /\ Cardinality(Swapping') = Cardinality(Swapping)
        BY <1>1, <1>2, <1>4, <3>1, <3>2, SwappingMoves
      <3>. QED BY <1>2, <1>3, <1>4, <3>1, <3>3, <3>4 DEF HeapExact, Level1Held, OneIf
    <2>. QED BY <1>7, <2>1, <2>2, <2>3, <2>4, <2>5, <2>6, <2>7 DEF AllocStep
  <1>8. ASSUME NEW t \in Thread, NEW i \in Index, NEW c \in Ctx, Free(t, i, c)
        PROVE  HeapExact'
    <2>1. UNCHANGED <<pc, grow, heapLevel1, heapLevel2>>
      BY <1>8 DEF Free, heapVars
    <2>2. tab'.papvLevel1 = tab.papvLevel1 /\ tab'.cLevel1 = tab.cLevel1
      BY <1>8, FreeStep DEF Returned
    <2>. QED BY <1>2, <2>1, <2>2 DEF HeapExact, Level1Held, OneIf, Carrying, Swapping
  <1>9. CASE Create
    <2>1. UNCHANGED <<pc, grow, heapLevel1, heapLevel2>> /\ tab = Fresh(FALSE) /\ tab' = Fresh(TRUE)
      BY <1>9 DEF Create, heapVars, TableSound
    <2>2. tab'.papvLevel1 = tab.papvLevel1 /\ tab'.cLevel1 = tab.cLevel1
      BY <2>1 DEF Fresh
    <2>. QED BY <1>2, <2>1, <2>2 DEF HeapExact, Level1Held, OneIf, Carrying, Swapping
  <1>10. CASE Destroy
    <2>1. /\ \A t \in Thread : pc[t] = "idle"
          /\ heapLevel2' = heapLevel2 - Cardinality({k \in tab.papvLevel1 : k < tab.cLevel1})
          /\ heapLevel1' = heapLevel1 - Level1Held
          /\ tab' = Fresh(FALSE) /\ pc' = pc /\ grow' = grow
      BY <1>10 DEF Destroy, Level1Held, OneIf
    <2>2. Carrying = {} /\ Swapping = {} /\ Carrying' = {} /\ Swapping' = {}
      BY <2>1 DEF Carrying, Swapping
    <2>3. {k \in tab.papvLevel1 : k < tab.cLevel1} = tab.papvLevel1
      BY <1>3, Level2Count
    <2>4. IsFiniteSet({}) /\ Cardinality({}) = 0
      BY FS_EmptySet
    <2>5. tab'.papvLevel1 = {} /\ Level1Held' = 0
      <3>1. tab'.papvLevel1 = {} /\ tab'.cLevel1 = IF Dynamic THEN 0 ELSE MaxLevel1
        BY <2>1 DEF Fresh
      <3>. QED BY <3>1 DEF Level1Held, OneIf
    <2>6. Cardinality(Carrying) = 0 /\ Cardinality(Swapping) = 0
      BY <2>2, <2>4
    <2>7. heapLevel1 = Level1Held /\ heapLevel2 = Cardinality(tab.papvLevel1)
      BY <1>2, <1>3, <1>4, <2>6
    <2>8. heapLevel2' = heapLevel2 - Cardinality(tab.papvLevel1)
      BY <2>1, <2>3
    <2>9. heapLevel1' = 0 /\ heapLevel2' = 0
      BY <1>3, <1>4, <2>1, <2>7, <2>8
    <2>. QED BY <2>2, <2>4, <2>5, <2>9 DEF HeapExact, Level1Held, OneIf
  <1>11. CASE UNCHANGED vars
    BY <1>2, <1>11 DEF vars, heapVars, HeapExact, Level1Held, OneIf, Carrying, Swapping
  <1>. QED BY <1>6, <1>7, <1>8, <1>9, <1>10, <1>11 DEF Next

-----------------------------------------------------------------------------
(* The free list followed through iNext is the list f of the invariant. *)

(* Every nonempty set of numbers has a least one: the first place where    *)
(* the recursive function Chain could differ from f.                       *)
LEMMA HasLeast ==
    ASSUME NEW S \in SUBSET Nat, S # {}
    PROVE  \E x \in S : \A y \in S : x <= y
  <1>1. PICK x \in S : \A y \in S : ~(<<y, x>> \in OpToRel(<, Nat))
    BY NatLessThanWellFounded, WFMin, Zenon
  <1>2. \A y \in S : ~(y < x)
    BY <1>1 DEF OpToRel
  <1>. QED BY <1>2

(* The number of spare entries is the length of f. *)
LEMMA UnusedIs ==
    ASSUME tab \in Table, NEW f, FreeList(tab, f)
    PROVE  Unused = Spare(tab) /\ Cardinality(Unused) = Len(f) /\ Len(f) <= cMax
  <1>. PICK n \in Nat : n = Len(f)
    BY FreeHead
  <1>1. Unused = Spare(tab)
    BY DEF Unused, Spare
  <1>2. f \in [1..n -> Spare(tab)]
    BY FreeHead DEF FreeList
  <1>3. f \in Bijection(1..n, Spare(tab))
    BY <1>2 DEF FreeList, Bijection, Injection, Surjection, IsInjective
  <1>4. ExistsBijection(1..n, Spare(tab))
    BY <1>3 DEF ExistsBijection
  <1>5. Cardinality(Spare(tab)) = n
    BY <1>4, FS_CountingElements
  <1>6. Spare(tab) \subseteq Index
    BY Indexes DEF Spare, Table
  <1>7. n <= cMax
    BY <1>5, <1>6, IndexCount, FS_Subset
  <1>. QED BY <1>1, <1>5, <1>7

(* Following iNext from the head gives f, and then NIL. *)
LEMMA ChainIs ==
    ASSUME tab \in Table, NEW f, FreeList(tab, f)
    PROVE  \A k \in 1..(cMax + 1) : Chain[k] = IF k <= Len(f) THEN f[k] ELSE NIL
  <1>. DEFINE Positions == 1..(cMax + 1)
              Follow(c) == [k \in Positions |->
                              IF k = 1 THEN tab.iFreeHead
                              ELSE IF c[k - 1] = NIL THEN NIL ELSE tab.iNext[c[k - 1]]]
              g == [k \in Positions |-> IF k <= Len(f) THEN f[k] ELSE NIL]
  <1>. PICK n \in Nat : n = Len(f)
    BY FreeHead
  <1>1. /\ \A k \in 1..n : f[k] \in Index /\ f[k] # NIL
        /\ tab.iFreeHead = (IF n = 0 THEN NIL ELSE f[1])
        /\ \A k \in 1..n : tab.iNext[f[k]] = (IF k = n THEN NIL ELSE f[k + 1])
    BY FreeHead, Indexes DEF FreeList
  <1>2. \A k \in Positions : k \in Nat /\ (k # 1 => k - 1 \in Positions /\ k - 1 + 1 = k)
    BY Constants
  <1>3. \A k \in Positions :
          g[k] = IF k = 1 THEN tab.iFreeHead
                 ELSE IF g[k - 1] = NIL THEN NIL ELSE tab.iNext[g[k - 1]]
    <2>. TAKE k \in Positions
    <2>. DEFINE val(j) == IF j <= n THEN f[j] ELSE NIL
    <2>1. g[k] = val(k) /\ (k # 1 => g[k - 1] = val(k - 1))
      BY <1>2
    <2>. HIDE DEF g
    <2>2. CASE k = 1
      <3>1. n = 0 => ~(1 <= n)
        OBVIOUS
      <3>2. n # 0 => 1 <= n
        OBVIOUS
      <3>. QED BY <1>1, <2>1, <2>2, <3>1, <3>2
    <2>3. CASE k # 1 /\ k - 1 <= n
      <3>1. k - 1 \in 1..n /\ (k - 1 = n <=> ~(k <= n)) /\ k - 1 + 1 = k
        BY <1>2, <2>3
      <3>2. g[k - 1] = f[k - 1] /\ f[k - 1] # NIL
        BY <1>1, <2>1, <2>3, <3>1
      <3>3. tab.iNext[f[k - 1]] = IF k - 1 = n THEN NIL ELSE f[k]
        BY <1>1, <3>1
      <3>. QED BY <2>1, <2>3, <3>1, <3>2, <3>3
    <2>4. CASE k # 1 /\ ~(k - 1 <= n)
      <3>1. ~(k <= n)
        BY <1>2, <2>4
      <3>. QED BY <2>1, <2>4, <3>1
    <2>. QED BY <2>2, <2>3, <2>4
  <1>4. g = Follow(g)
    BY <1>3
  <1>5. Chain = CHOOSE c : c = Follow(c)
    BY DEF Chain
  <1>. HIDE DEF g
  <1>6. Chain = Follow(Chain)
    <2>. HIDE DEF Follow
    <2>. QED BY <1>4, <1>5
  <1>7. \A k \in Positions :
          Chain[k] = IF k = 1 THEN tab.iFreeHead
                     ELSE IF Chain[k - 1] = NIL THEN NIL ELSE tab.iNext[Chain[k - 1]]
    BY <1>6
  <1>8. \A k \in Positions : Chain[k] = g[k]
    <2>. DEFINE Bad == {k \in Positions : Chain[k] # g[k]}
    <2>. SUFFICES ASSUME Bad # {} PROVE FALSE
      OBVIOUS
    <2>1. PICK k \in Bad : \A j \in Bad : k <= j
      BY <1>2, HasLeast
    <2>2. k # 1
      BY <1>3, <1>7
    <2>3. k - 1 \in Positions /\ ~(k <= k - 1)
      BY <1>2, <2>2
    <2>4. Chain[k - 1] = g[k - 1]
      BY <2>1, <2>3
    <2>. QED BY <1>3, <1>7, <2>2, <2>4
  <1>. QED BY <1>8 DEF g

LEMMA FreeSeqIs ==
    ASSUME tab \in Table, NEW f, FreeList(tab, f)
    PROVE  FreeSeq = f
  <1>1. Cardinality(Unused) = Len(f) /\ Len(f) <= cMax /\ Len(f) \in Nat
    BY UnusedIs, FreeHead
  <1>2. f \in [1..Len(f) -> Index]
    BY FreeHead
  <1>3. \A k \in 1..Len(f) : Chain[k] = f[k]
    BY <1>1, ChainIs, Constants
  <1>. QED BY <1>1, <1>2, <1>3 DEF FreeSeq

LEMMA FreeListIsSound ==
    ASSUME tab \in Table, NEW f, FreeList(tab, f)
    PROVE  FreeListSound
  <1>. PICK n \in Nat : n = Len(f)
    BY FreeHead
  <1>1. Cardinality(Unused) = n /\ n <= cMax /\ Unused = Spare(tab)
    BY UnusedIs
  <1>2. FreeSeq = f
    BY FreeSeqIs
  <1>3. {FreeSeq[k] : k \in 1..n} = Unused
    BY <1>1, <1>2 DEF FreeList
  <1>4. n + 1 \in 1..(cMax + 1) /\ ~(n + 1 <= n) /\ (n # 0 => n \in 1..(cMax + 1))
    BY <1>1, Constants
  <1>5. Chain[n + 1] = NIL /\ (n # 0 => Chain[n] = f[n])
    BY <1>4, ChainIs
  <1>6. tab.iFreeTail = IF n = 0 THEN NIL ELSE Chain[n]
    BY <1>5 DEF FreeList
  <1>. QED BY <1>1, <1>3, <1>5, <1>6 DEF FreeListSound

-----------------------------------------------------------------------------
(* The theorems. *)

(* The invariant holds of the empty state and is kept by every step. *)
LEMMA IndInvInit == Init => IndInv
  <1>. SUFFICES ASSUME Init PROVE IndInv
    OBVIOUS
  <1>1. Typed
    BY Constants DEF Init, Typed, PC
  <1>2. ThreadsSound
    BY DEF Init, ThreadsSound
  <1>3. TableSound
    <2>1. /\ Fresh(FALSE) \in Table /\ Sized(Fresh(FALSE)) /\ Counted(Fresh(FALSE))
          /\ FreeList(Fresh(FALSE), <<>>)
      BY FreshGood
    <2>2. ~Dynamic => Fresh(FALSE).cLevel1 = MaxLevel1
      BY DEF Fresh
    <2>. QED BY <2>1, <2>2 DEF Init, TableSound, Good, FreeList
  <1>4. HeapExact
    <2>1. Carrying = {} /\ Swapping = {} /\ tab.papvLevel1 = {}
      BY DEF Init, Carrying, Swapping, Fresh
    <2>2. Level1Held = 0
      <3>1. Dynamic => tab.cLevel1 = 0
        BY DEF Init, Fresh
      <3>. QED BY <3>1 DEF Level1Held, OneIf
    <2>3. IsFiniteSet({}) /\ Cardinality({}) = 0
      BY FS_EmptySet
    <2>4. heapLevel1 = 0 /\ heapLevel2 = 0
      BY DEF Init
    <2>. QED BY <2>1, <2>2, <2>3, <2>4 DEF HeapExact, Level1Held, OneIf
  <1>. QED BY <1>1, <1>2, <1>3, <1>4 DEF IndInv

LEMMA IndInvNext == IndInv /\ [Next]_vars => IndInv'
  BY TypedStep, ThreadsStep, TableStep, HeapStep DEF IndInv

(* Types, the soundness of the threads and of the table, and the account   *)
(* of the memory hold together in every reachable state; no part is        *)
(* inductive alone, because a thread installs memory it allocated for a    *)
(* table it saw before it dropped the lock.                                *)
THEOREM InductiveInvariant == Spec => []IndInv
  BY IndInvInit, IndInvNext, PTL DEF Spec

(* Every variable keeps its type; in particular cCurAllocated, cCur and    *)
(* cLevel1 stay within their limits and the counts of allocated tables     *)
(* never become negative.                                                  *)
THEOREM TypeCorrect == Spec => []TypeOK
  <1>1. IndInv => TypeOK
    <2>. SUFFICES ASSUME IndInv PROVE TypeOK
      OBVIOUS
    <2>1. tab \in Table /\ Sized(tab)
      BY DEF IndInv, TableSound, Good
    <2>2. Cardinality(tab.papvLevel1) \in Nat
      BY <2>1, Level2Count
    <2>3. /\ IsFiniteSet(Carrying) /\ IsFiniteSet(Swapping)
          /\ heapLevel2 = Cardinality(tab.papvLevel1) + Cardinality(Carrying)
          /\ heapLevel1 = Cardinality(Swapping) + Level1Held
      BY DEF IndInv, HeapExact, Level1Held, OneIf
    <2>4. /\ Level1Held \in Nat
          /\ Cardinality(Carrying) \in Nat /\ Cardinality(Swapping) \in Nat
      BY <2>3, FS_CardinalityType DEF Level1Held, OneIf
    <2>5. heapLevel1 \in Nat /\ heapLevel2 \in Nat
      BY <2>2, <2>3, <2>4
    <2>. QED BY <2>1, <2>5 DEF IndInv, Typed, TypeOK, Table
  <1>. QED BY <1>1, InductiveInvariant, PTL

(* The free list has every unused entry once and ends at its tail, also    *)
(* when two allocations joined their tables to it or a free ran between    *)
(* (handletablectx.c:171-196, 306-317).                                    *)
THEOREM FreeListHolds == Spec => []FreeListSound
  <1>1. IndInv => FreeListSound
    BY GoodIs, FreeListIsSound DEF IndInv, TableSound
  <1>. QED BY <1>1, InductiveInvariant, PTL

(* cCurAllocated and cCur are exact, and every index below cCur is reached *)
(* through both levels (the assertions of handletablectx.c:78-192).        *)
THEOREM TablesAlwaysAgree == Spec => []TablesAgree
  <1>1. IndInv => TablesAgree
    BY GoodIs, Level2Count DEF IndInv, TableSound, Counted, TablesAgree
  <1>. QED BY <1>1, InductiveInvariant, PTL

(* No first or second level table is lost or freed twice, whichever thread *)
(* loses the race to grow (handletablectx.c:120-208).                      *)
THEOREM MemoryAccounted == Spec => []NoMemoryLost
  <1>1. IndInv => NoMemoryLost
    BY DEF IndInv, HeapExact, NoMemoryLost, Carrying, Swapping
  <1>. QED BY <1>1, InductiveInvariant, PTL

(* An allocation that is refused for want of handles finds every index in  *)
(* use (handletablectx.c:92-99).                                           *)
THEOREM RefusalsAreFull == Spec => RefusedOnlyWhenFull
  <1>1. ASSUME IndInv, [Next]_vars, NEW t \in Thread,
               pc[t] = "alloc", pc'[t] = "idle", UNCHANGED tab
        PROVE  Used(tab) = Index
    <2>1. pc \in [Thread -> PC]
      BY <1>1 DEF IndInv, Typed
    <2>. PICK f \in Seq(Index) : FreeList(tab, f)
      BY <1>1, GoodIs DEF IndInv, TableSound
    <2>2. tab \in Table /\ Sized(tab) /\ Counted(tab) /\ ThreadsSound /\ TableSound
      BY <1>1, GoodIs DEF IndInv, TableSound
    <2>3. AllocTake(t) \/ AllocFull(t)
      <3>1. PICK s \in Thread : (\E o \in Obj, c \in Ctx : AllocCall(s, o, c)) \/ AllocStep(s)
        BY <1>1 DEF Next, vars, Free, Create, Destroy
      <3>2. pc'[t] # pc[t]
        BY <1>1
      <3>3. \E l : Goto(s, l)
        BY <3>1 DEF AllocCall, AllocStep, AllocTake, AllocFull, AllocExpand, AllocMemory,
                    AllocNoMemory, InstallLevel1, InsertLevel2, LoseLevel2, Success, Return
      <3>4. s = t
        BY <2>1, <3>2, <3>3 DEF Goto
      <3>. QED BY <1>1, <2>1, <3>1, <3>4
           DEF AllocCall, AllocStep, AllocExpand, AllocMemory,
               AllocNoMemory, InstallLevel1, InsertLevel2, LoseLevel2, AtInsert, Goto
    <2>4. CASE AllocTake(t)
      <3>1. arg[t] \in Obj \X Ctx /\ Took(tab, f, arg[t][1], arg[t][2], tab')
        BY <2>2, <2>4, AllocTakeStep
      <3>2. f[1] \notin Used(tab) /\ Used(tab') = Used(tab) \cup {f[1]}
        BY <3>1 DEF Took
      <3>. QED BY <1>1, <3>2
    <2>5. CASE AllocFull(t)
      <3>1. tab.iFreeHead = NIL /\ tab.cCur >= cMax
        BY <2>5 DEF AllocFull
      <3>2. Len(f) = 0 /\ f = <<>>
        BY <2>2, <3>1, FreeHead
      <3>3. Spare(tab) = {}
        BY <3>2 DEF FreeList
      <3>4. 0..(tab.cCur - 1) = Index
        BY <2>2, <3>1, Constants DEF Table, Index
      <3>. QED BY <3>3, <3>4 DEF Spare, Used
    <2>. QED BY <2>3, <2>4, <2>5
  <1>2. IndInv /\ [Next]_vars =>
          \A t \in Thread :
              pc[t] = "alloc" /\ pc'[t] = "idle" /\ UNCHANGED tab => Used(tab) = Index
    BY <1>1
  <1>. QED BY <1>2, InductiveInvariant, PTL DEF Spec, RefusedOnlyWhenFull

(* The walk of RTHandleTableDestroy hands every handle in use to the       *)
(* delete callback, although it stops when cCurAllocated reaches 0         *)
(* (handletable.c:158-197).                                                *)
THEOREM DestroyIsComplete == Spec => DestroyDeletesAll
  <1>1. IndInv => Deleted(tab) = Used(tab)
    <2>. SUFFICES ASSUME IndInv, NEW i \in Used(tab) PROVE i \in Deleted(tab)
      BY DEF Deleted
    <2>. DEFINE k == i \div Level2
                before == {j \in Used(tab) : j < k * Level2}
    <2>1. tab \in Table /\ Sized(tab) /\ Counted(tab)
      BY GoodIs DEF IndInv, TableSound
    <2>2. i \in 0..(tab.cCur - 1) /\ i \in Nat
      BY <2>1, Indexes DEF Counted, Table
    <2>3. k < tab.cLevel1 /\ k \in tab.papvLevel1
      BY <2>1, <2>2, Level2Count DEF Lookup
    <2>4. before \subseteq Used(tab) /\ i \notin before
      BY <2>2, Constants, Quotient
    <2>5. IsFiniteSet(Used(tab)) /\ Cardinality(Used(tab)) \in Nat
      BY <2>1, UsedFinite
    <2>6. Cardinality(before) < Cardinality(Used(tab))
      <3>. HIDE DEF before
      <3>1. IsFiniteSet(before) /\ Cardinality(before) <= Cardinality(Used(tab))
            /\ (Cardinality(Used(tab)) = Cardinality(before) => Used(tab) = before)
        BY <2>4, <2>5, FS_Subset
      <3>2. Cardinality(before) \in Nat
        BY <3>1, FS_CardinalityType
      <3>. QED BY <2>4, <2>5, <3>1, <3>2
    <2>7. tab.cCurAllocated > Cardinality(before)
      <3>1. Cardinality(before) \in Nat
        BY <2>4, <2>5, FS_Subset, FS_CardinalityType
      <3>. QED BY <2>1, <2>5, <2>6, <3>1 DEF Counted
    <2>. QED BY <2>3, <2>7 DEF Deleted
  <1>2. IndInv /\ [Next]_vars => (tab.valid /\ ~tab'.valid => deleted' = Used(tab))
    <2>. SUFFICES ASSUME IndInv, [Next]_vars, tab.valid, ~tab'.valid
                  PROVE  Destroy
      BY <1>1 DEF Destroy
    <2>. PICK f \in Seq(Index) : FreeList(tab, f)
      BY GoodIs DEF IndInv, TableSound
    <2>1. ASSUME NEW t \in Thread, AllocTake(t) \/ InsertLevel2(t) PROVE FALSE
      BY <2>1, AllocTakeStep, InsertLevel2Step DEF IndInv
    <2>2. ASSUME NEW t \in Thread, InstallLevel1(t) PROVE FALSE
      BY <2>2, InstallStep DEF IndInv
    <2>3. ASSUME NEW t \in Thread, NEW i \in Index, NEW c \in Ctx, Free(t, i, c) PROVE FALSE
      BY <2>3, FreeStep DEF IndInv
    <2>4. ASSUME UNCHANGED tab PROVE FALSE
      BY <2>4
    <2>. QED BY <2>1, <2>2, <2>3, <2>4
         DEF Next, vars, AllocCall, AllocStep, AllocFull, AllocExpand, AllocMemory,
             AllocNoMemory, LoseLevel2, Create
  <1>. QED BY <1>2, InductiveInvariant, PTL DEF Spec, DestroyDeletesAll

-----------------------------------------------------------------------------
(* The handle table implements HandleMap. *)

(* A map with one entry more, or one less. *)
With(m, h, v) == [g \in DOMAIN m \cup {h} |-> IF g = h THEN v ELSE m[g]]
Without(m, h) == [g \in DOMAIN m \ {h} |-> m[g]]

(* The map that clients see. *)
InUse(T) == [i \in Used(T) |-> <<T.pvObj[i], T.pvCtx[i]>>]

(* A refinement step needs FreeSeq before and after it: it is the list of  *)
(* the invariant.                                                          *)
LEMMA FreeSeqUnique == \A f : tab \in Table /\ FreeList(tab, f) => FreeSeq = f
  BY FreeSeqIs

LEMMA FreeSeqUniqueNext == (\A f : tab \in Table /\ FreeList(tab, f) => FreeSeq = f)'
  BY FreeSeqUnique, PTL

(* The variables of HandleMap in the state before and after a step. *)
LEMMA MapState ==
    ASSUME tab \in Table, NEW f, FreeList(tab, f), tab' \in Table, NEW g, FreeList(tab', g)
    PROVE  FreeSeq = f /\ FreeSeq' = g
  <1>1. FreeSeq = f
    BY FreeSeqIs
  <1>2. FreeSeq' = g
    BY FreeSeqUniqueNext
  <1>. QED BY <1>1, <1>2

(* A step that keeps the entries and the list does not show. *)
LEMMA MapStutters ==
    ASSUME tab \in Table, NEW f, FreeList(tab, f), tab' \in Table, FreeList(tab', f),
           Used(tab') = Used(tab), tab'.valid = tab.valid, tab'.cCur = tab.cCur,
           tab'.pvObj = tab.pvObj, tab'.pvCtx = tab.pvCtx
    PROVE  UNCHANGED Map!vars
  <1>1. FreeSeq' = FreeSeq
    BY MapState
  <1>. QED BY <1>1 DEF Map!vars

LEMMA EmptyInUse == \A T : Used(T) = {} => InUse(T) = <<>>
  BY DEF InUse

(* A new table is an empty map. *)
LEMMA MapFresh ==
    ASSUME NEW b \in BOOLEAN
    PROVE  /\ Fresh(b) \in Table /\ FreeList(Fresh(b), <<>>)
           /\ InUse(Fresh(b)) = <<>> /\ Fresh(b).cCur = 0 /\ Fresh(b).valid = b
  <1>1. Fresh(b) \in Table /\ FreeList(Fresh(b), <<>>)
    BY FreshGood
  <1>2. Used(Fresh(b)) = {}
    BY DEF Used, Fresh
  <1>3. InUse(Fresh(b)) = <<>>
    BY <1>2, EmptyInUse
  <1>4. Fresh(b).cCur = 0 /\ Fresh(b).valid = b
    BY DEF Fresh
  <1>. QED BY <1>1, <1>3, <1>4

(* Map!Alloc hands out the first of the available entries avail. *)
LEMMA MapTakes ==
    ASSUME NEW T \in Table, NEW avail \in Seq(Index), NEW o, NEW c, NEW T2,
           Took(T, avail, o, c, T2)
    PROVE  /\ avail # <<>>
           /\ InUse(T2) = With(InUse(T), Head(avail), <<o, c>>)
  <1>1. /\ avail # <<>> /\ avail[1] \in Index /\ avail[1] \notin Used(T)
        /\ Used(T2) = Used(T) \cup {avail[1]}
        /\ T2.pvObj = [T.pvObj EXCEPT ![avail[1]] = o]
        /\ T2.pvCtx = [T.pvCtx EXCEPT ![avail[1]] = c]
    BY DEF Took
  <1>2. Head(avail) = avail[1]
    BY <1>1
  <1>. PICK i \in Index : i = avail[1]
    BY <1>1
  <1>3. T2.pvObj[i] = o /\ T2.pvCtx[i] = c
    BY <1>1 DEF Table
  <1>4. \A h \in Used(T) : T2.pvObj[h] = T.pvObj[h] /\ T2.pvCtx[h] = T.pvCtx[h] /\ h # i
    BY <1>1 DEF Table, Used
  <1>5. DOMAIN InUse(T) = Used(T)
    BY DEF InUse
  <1>6. \A h \in Used(T2) : InUse(T2)[h] = IF h = i THEN <<o, c>> ELSE InUse(T)[h]
    BY <1>1, <1>3, <1>4 DEF InUse
  <1>7. InUse(T2) = [h \in Used(T2) |-> InUse(T2)[h]]
    BY DEF InUse
  <1>. QED BY ZenonT(30), <1>1, <1>2, <1>5, <1>6, <1>7 DEF With

(* Map!Free takes the handle out of the map. *)
LEMMA MapReturns ==
    ASSUME NEW T \in Table, NEW f, NEW i \in Used(T), NEW T2, Returned(T, f, i, T2)
    PROVE  InUse(T2) = Without(InUse(T), i)
  <1>1. /\ Used(T2) = Used(T) \ {i} /\ i \in Index
        /\ T2.pvObj = [T.pvObj EXCEPT ![i] = FREE]
        /\ T2.pvCtx = [T.pvCtx EXCEPT ![i] = Poison]
    BY DEF Returned, Used
  <1>2. \A h \in Used(T2) : T2.pvObj[h] = T.pvObj[h] /\ T2.pvCtx[h] = T.pvCtx[h]
    BY <1>1 DEF Table, Used
  <1>3. DOMAIN InUse(T) = Used(T)
    BY DEF InUse
  <1>4. \A h \in Used(T2) : InUse(T2)[h] = InUse(T)[h]
    BY <1>1, <1>2 DEF InUse
  <1>5. InUse(T2) = [h \in Used(T2) |-> InUse(T2)[h]]
    BY DEF InUse
  <1>. QED BY <1>1, <1>3, <1>4, <1>5 DEF Without

(* What Map!Alloc has available when the table does not grow. *)
LEMMA AvailableNow ==
    ASSUME NEW f \in Seq(Index), NEW n \in Nat
    PROVE  f \o [k \in 1..(n - n) |-> n + k - 1] = f
  <1>1. 1..(n - n) = {}
    OBVIOUS
  <1>2. [k \in 1..(n - n) |-> n + k - 1] = <<>>
    BY <1>1
  <1>. QED BY <1>2, ConcatEmptySeq

(* The concrete names of the variables of HandleMap. *)
LEMMA MapVars ==
    /\ Map!vars = <<tab.valid, InUse(tab), FreeSeq, tab.cCur>>
    /\ Map!Init <=> tab.valid = FALSE /\ InUse(tab) = <<>> /\ FreeSeq = <<>> /\ tab.cCur = 0
  BY DEF Map!vars, Map!Init, InUse

(* The conditions of Map!Alloc in terms of the table. *)
LEMMA MapAlloc ==
    ASSUME NEW o \in Obj, NEW c \in Ctx, NEW n \in {tab.cCur, tab.cCur + Level2},
           NEW avail, avail = FreeSeq \o [k \in 1..(n - tab.cCur) |-> tab.cCur + k - 1],
           tab.valid, tab'.valid = tab.valid, n <= cMax, avail # <<>>,
           FreeSeq' = Tail(avail), tab'.cCur = n,
           InUse(tab') = With(InUse(tab), Head(avail), <<o, c>>)
    PROVE  Map!Next
  <1>1. Map!Alloc(o, c)
    BY ZenonT(30) DEF Map!Alloc, InUse, With
  <1>. QED BY <1>1 DEF Map!Next

(* Every step of the handle table is a step of the map or does not show:   *)
(* an allocation shows when it takes its entry, and the table may grow by  *)
(* one second level table in that same step.                               *)
LEMMA MapStep == IndInv /\ [Next]_vars => [Map!Next]_(Map!vars)
  <1>. SUFFICES ASSUME IndInv, [Next]_vars PROVE Map!Next \/ UNCHANGED Map!vars
    OBVIOUS
  <1>. PICK f \in Seq(Index) : FreeList(tab, f)
    BY GoodIs DEF IndInv, TableSound
  <1>0. /\ tab \in Table /\ Sized(tab) /\ Counted(tab) /\ Typed /\ ThreadsSound /\ TableSound
        /\ tab.cCur \in Nat /\ tab.valid \in BOOLEAN /\ tab.cCur <= cMax
    <2>1. /\ tab \in Table /\ Sized(tab) /\ Counted(tab) /\ Typed /\ ThreadsSound /\ TableSound
      BY GoodIs DEF IndInv, TableSound
    <2>. QED BY <2>1, Constants DEF Table
  <1>1. ASSUME UNCHANGED tab PROVE UNCHANGED Map!vars
    BY <1>0, <1>1, MapStutters
  <1>2. ASSUME NEW t \in Thread, AllocTake(t) PROVE Map!Next
    <2>1. /\ tab'.valid /\ arg[t] \in Obj \X Ctx /\ tab.valid
          /\ Took(tab, f, arg[t][1], arg[t][2], tab')
      BY <1>0, <1>2, AllocTakeStep DEF AllocTake, ThreadsSound
    <2>. PICK o \in Obj, c \in Ctx : o = arg[t][1] /\ c = arg[t][2]
      BY <2>1
    <2>2. Took(tab, f, o, c, tab')
      BY <2>1
    <2>3. tab' \in Table /\ FreeList(tab', Tail(f)) /\ tab'.cCur = tab.cCur /\ tab'.valid = tab.valid
      BY <2>2 DEF Took
    <2>4. FreeSeq = f /\ FreeSeq' = Tail(f)
      BY <1>0, <2>3, MapState
    <2>5. f # <<>> /\ InUse(tab') = With(InUse(tab), Head(f), <<o, c>>)
      BY <1>0, <2>2, MapTakes
    <2>6. f = FreeSeq \o [k \in 1..(tab.cCur - tab.cCur) |-> tab.cCur + k - 1]
      BY <1>0, <2>4, AvailableNow
    <2>. QED BY <1>0, <2>1, <2>3, <2>4, <2>5, <2>6, MapAlloc
  <1>3. ASSUME NEW t \in Thread, InsertLevel2(t) PROVE Map!Next
    <2>. DEFINE avail == f \o NewEntries(tab)
    <2>. PICK T : T = AddTable(tab)
      OBVIOUS
    <2>1. /\ tab'.valid /\ arg[t] \in Obj \X Ctx /\ tab.valid
          /\ Extended(tab, f, T)
          /\ Took(T, avail, arg[t][1], arg[t][2], tab')
      BY <1>0, <1>3, InsertLevel2Step DEF InsertLevel2, AtInsert, ThreadsSound
    <2>. PICK o \in Obj, c \in Ctx : o = arg[t][1] /\ c = arg[t][2]
      BY <2>1
    <2>2. Took(T, avail, o, c, tab')
      BY <2>1
    <2>3. /\ T \in Table /\ FreeList(T, avail) /\ InUse(T) = InUse(tab)
          /\ T.cCur = tab.cCur + Level2 /\ T.cCur <= cMax /\ T.valid = tab.valid
      BY <2>1 DEF Extended, InUse
    <2>4. avail \in Seq(Index)
      BY <2>3 DEF FreeList
    <2>5. tab' \in Table /\ FreeList(tab', Tail(avail)) /\ tab'.cCur = T.cCur /\ tab'.valid = tab.valid
      BY <2>2, <2>3 DEF Took
    <2>6. FreeSeq = f /\ FreeSeq' = Tail(avail)
      BY <1>0, <2>5, MapState
    <2>. PICK n : n = tab.cCur + Level2
      OBVIOUS
    <2>7. avail = FreeSeq \o [k \in 1..(n - tab.cCur) |-> tab.cCur + k - 1]
      <3>1. n - tab.cCur = Level2
        BY <1>0, Constants
      <3>. QED BY <2>6, <3>1 DEF NewEntries
    <2>. HIDE DEF avail
    <2>8. avail # <<>> /\ InUse(tab') = With(InUse(T), Head(avail), <<o, c>>)
      BY <2>2, <2>3, <2>4, MapTakes
    <2>9. InUse(tab') = With(InUse(tab), Head(avail), <<o, c>>)
      BY <2>3, <2>8
    <2>10. tab'.cCur = n /\ n <= cMax /\ n \in {tab.cCur, tab.cCur + Level2}
      BY <2>3, <2>5
    <2>. QED BY <2>1, <2>5, <2>6, <2>7, <2>8, <2>9, <2>10, MapAlloc
  <1>4. ASSUME NEW t \in Thread, InstallLevel1(t) PROVE UNCHANGED Map!vars
    BY <1>0, <1>4, InstallStep, MapStutters
  <1>5. ASSUME NEW t \in Thread, NEW i \in Index, NEW c \in Ctx, Free(t, i, c) PROVE Map!Next
    <2>1. tab.valid /\ i \in Used(tab) /\ Returned(tab, f, i, tab') /\ tab.pvCtx[i] = c
      BY <1>0, <1>5, FreeStep DEF Free
    <2>2. /\ tab' \in Table /\ FreeList(tab', Append(f, i))
          /\ tab'.valid = tab.valid /\ tab'.cCur = tab.cCur
      BY <2>1 DEF Returned
    <2>3. FreeSeq = f /\ FreeSeq' = Append(f, i)
      BY <1>0, <2>2, MapState
    <2>4. InUse(tab') = Without(InUse(tab), i)
      BY <1>0, <2>1, MapReturns
    <2>5. i \in DOMAIN InUse(tab) /\ InUse(tab)[i][2] = c
      BY <2>1 DEF InUse
    <2>6. Map!Free(i, c)
      BY <2>1, <2>2, <2>3, <2>4, <2>5 DEF Map!Free, InUse, Without
    <2>. QED BY <2>5, <2>6 DEF Map!Next, InUse
  <1>6. ASSUME NEW b \in BOOLEAN, tab' = Fresh(b)
        PROVE  FreeSeq' = <<>> /\ InUse(tab') = <<>> /\ tab'.cCur = 0 /\ tab'.valid = b
    <2>1. /\ tab' \in Table /\ FreeList(tab', <<>>)
          /\ InUse(tab') = <<>> /\ tab'.cCur = 0 /\ tab'.valid = b
      BY <1>6, MapFresh
    <2>. QED BY <1>0, <2>1, MapState
  <1>7. CASE Create
    <2>1. ~tab.valid /\ tab' = Fresh(TRUE)
      BY <1>7 DEF Create
    <2>2. Map!Create
      BY <1>6, <2>1 DEF Map!Create, InUse
    <2>. QED BY <2>2 DEF Map!Next
  <1>8. CASE Destroy
    <2>1. tab.valid /\ tab' = Fresh(FALSE)
      BY <1>8 DEF Destroy
    <2>2. Map!Destroy
      BY <1>6, <2>1 DEF Map!Destroy, InUse
    <2>. QED BY <2>2 DEF Map!Next
  <1>. QED BY <1>1, <1>2, <1>3, <1>4, <1>5, <1>7, <1>8
       DEF Next, vars, AllocCall, AllocStep, AllocFull, AllocExpand, AllocMemory,
           AllocNoMemory, LoseLevel2

(* The handle table implements HandleMap: a handle names what it was       *)
(* allocated for until it is freed, and the handles that are free are used *)
(* again in the order in which they were freed, however many threads grow  *)
(* the table at once (handletablectx.c:45-330).                            *)
THEOREM ImplementsHandleMap == Spec => ImplementsMap
  <1>1. Init => Map!Init
    <2>. SUFFICES ASSUME Init PROVE Map!Init
      OBVIOUS
    <2>1. /\ tab \in Table /\ FreeList(tab, <<>>)
          /\ InUse(tab) = <<>> /\ tab.cCur = 0 /\ tab.valid = FALSE
      BY MapFresh DEF Init
    <2>2. FreeSeq = <<>>
      BY <2>1, FreeSeqIs
    <2>. QED BY <2>1, <2>2, MapVars
  <1>. QED BY <1>1, MapStep, InductiveInvariant, PTL DEF Spec, ImplementsMap, Map!Spec
=============================================================================
