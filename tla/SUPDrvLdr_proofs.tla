-------------------------- MODULE SUPDrvLdr_proofs --------------------------
(***************************************************************************)
(* Proofs about SUPDrvLdr, for any number of sessions, threads, images and *)
(* objects.                                                                *)
(***************************************************************************)
EXTENDS SUPDrvLdr, FiniteSetTheorems, TLAPS

-----------------------------------------------------------------------------
(* Adding up the uses of all sessions: their number is that of the pairs   *)
(* of a session and one of its uses.                                       *)
Pairs(f) == UNION {{s} \X (1 .. f[s]) : s \in Session}

PairsOf(f, s) == {s} \X (1 .. f[s])

PairsButOf(f, s) == {x \in Pairs(f) : x[1] # s}

LEMMA SessionsUses ==
    ASSUME NEW f \in [Session -> Nat], NEW s \in Session
    PROVE  IsFiniteSet(PairsOf(f, s)) /\ Cardinality(PairsOf(f, s)) = f[s]
  <1>1. f[s] \in Nat
    OBVIOUS
  <1>2. IsFiniteSet(1 .. f[s]) /\ Cardinality(1 .. f[s]) = f[s]
    BY <1>1, FS_Interval
  <1>3. IsFiniteSet({s}) /\ Cardinality({s}) = 1
    BY FS_Singleton
  <1>. DEFINE S == {s}
              T == 1 .. f[s]
  <1>. HIDE DEF S, T
  <1>4. IsFiniteSet(S) /\ IsFiniteSet(T) /\ Cardinality(S) = 1 /\ Cardinality(T) = f[s]
    BY <1>2, <1>3 DEF S, T
  <1>5. IsFiniteSet(S \X T) /\ Cardinality(S \X T) = Cardinality(S) * Cardinality(T)
    BY <1>4, FS_Product
  <1>6. IsFiniteSet(S \X T) /\ Cardinality(S \X T) = f[s]
    BY <1>1, <1>4, <1>5
  <1>. QED BY <1>6, Zenon DEF PairsOf, S, T

LEMMA PairsElement ==
    ASSUME NEW f, NEW x
    PROVE  x \in Pairs(f) <=> \E s \in Session : x \in PairsOf(f, s)
  BY DEF Pairs, PairsOf

LEMMA PairsSplit ==
    ASSUME NEW f \in [Session -> Nat], NEW s \in Session, IsFiniteSet(Pairs(f))
    PROVE  /\ IsFiniteSet(PairsButOf(f, s)) /\ Cardinality(PairsButOf(f, s)) \in Nat
           /\ Cardinality(Pairs(f)) = Cardinality(PairsButOf(f, s)) + f[s]
  <1>. DEFINE R == PairsButOf(f, s)
              P == PairsOf(f, s)
  <1>1. IsFiniteSet(R) /\ Cardinality(R) \in Nat
    BY FS_Subset, FS_CardinalityType DEF PairsButOf
  <1>2. IsFiniteSet(P) /\ Cardinality(P) = f[s] /\ f[s] \in Nat
    BY SessionsUses
  <1>3. \A r \in Session : \A x \in PairsOf(f, r) : x[1] = r
    BY DEF PairsOf
  <1>4. Pairs(f) = R \cup P
    <2>1. R \subseteq Pairs(f) /\ P \subseteq Pairs(f)
      BY PairsElement DEF PairsButOf
    <2>2. ASSUME NEW x \in Pairs(f) PROVE x \in R \cup P
      <3>1. PICK r \in Session : x \in PairsOf(f, r)
        BY PairsElement
      <3>. QED BY <1>3, <3>1 DEF PairsButOf
    <2>. QED BY <2>1, <2>2
  <1>5. R \cap P = {}
    BY <1>3 DEF PairsButOf
  <1>. HIDE DEF R, P
  <1>6. Cardinality(R \cup P) = Cardinality(R) + Cardinality(P)
    <2>1. Cardinality(R \cup P) = Cardinality(R) + Cardinality(P) - Cardinality(R \cap P)
      BY <1>1, <1>2, FS_Union
    <2>2. Cardinality(R \cap P) = 0
      BY <1>5, FS_EmptySet, Zenon
    <2>. QED BY <1>1, <1>2, <2>1, <2>2
  <1>7. Cardinality(Pairs(f)) = Cardinality(R) + f[s]
    BY <1>2, <1>4, <1>6
  <1>. QED BY <1>1, <1>7 DEF R

(* Only session s has other uses in g than in f. *)
SameBut(f, g, s) == \A r \in Session \ {s} : g[r] = f[r]

LEMMA PairsChange ==
    ASSUME NEW f \in [Session -> Nat], NEW g \in [Session -> Nat], NEW s \in Session,
           SameBut(f, g, s), IsFiniteSet(Pairs(f))
    PROVE  /\ IsFiniteSet(Pairs(g))
           /\ Cardinality(Pairs(g)) + f[s] = Cardinality(Pairs(f)) + g[s]
  <1>1. PairsButOf(g, s) = PairsButOf(f, s)
    <2>1. \A r \in Session \ {s} : PairsOf(g, r) = PairsOf(f, r)
      BY DEF PairsOf, SameBut
    <2>2. \A x : x \in PairsOf(f, s) \/ x \in PairsOf(g, s) => x[1] = s
      BY DEF PairsOf
    <2>. QED BY <2>1, <2>2, PairsElement DEF PairsButOf
  <1>2. /\ IsFiniteSet(PairsButOf(f, s)) /\ Cardinality(PairsButOf(f, s)) \in Nat
        /\ Cardinality(Pairs(f)) = Cardinality(PairsButOf(f, s)) + f[s]
    BY PairsSplit
  <1>3. IsFiniteSet(Pairs(g))
    <2>1. IsFiniteSet(PairsOf(g, s))
      BY SessionsUses
    <2>2. Pairs(g) \subseteq PairsButOf(g, s) \cup PairsOf(g, s)
      <3>1. \A r \in Session : \A x \in PairsOf(g, r) : x[1] = r
        BY DEF PairsOf
      <3>. QED BY <3>1, PairsElement DEF PairsButOf
    <2>3. IsFiniteSet(PairsButOf(g, s) \cup PairsOf(g, s))
      BY <1>1, <1>2, <2>1, FS_Union
    <2>. QED BY <2>2, <2>3, FS_Subset
  <1>4. Cardinality(Pairs(g)) = Cardinality(PairsButOf(g, s)) + g[s]
    BY <1>3, PairsSplit
  <1>. QED BY <1>1, <1>2, <1>3, <1>4

LEMMA TwoUsers ==
    ASSUME NEW f \in [Session -> Nat], NEW s \in Session, NEW r \in Session, r # s,
           IsFiniteSet(Pairs(f))
    PROVE  f[s] + f[r] <= Cardinality(Pairs(f))
  <1>1. /\ IsFiniteSet(PairsButOf(f, s)) /\ Cardinality(PairsButOf(f, s)) \in Nat
        /\ Cardinality(Pairs(f)) = Cardinality(PairsButOf(f, s)) + f[s]
    BY PairsSplit
  <1>2. PairsOf(f, r) \subseteq PairsButOf(f, s)
    <2>1. \A x \in PairsOf(f, r) : x[1] = r
      BY DEF PairsOf
    <2>. QED BY <2>1, PairsElement DEF PairsButOf
  <1>3. Cardinality(PairsOf(f, r)) <= Cardinality(PairsButOf(f, s))
    BY <1>1, <1>2, FS_Subset
  <1>. QED BY <1>1, <1>3, SessionsUses

-----------------------------------------------------------------------------
(* The inductive invariant.                                                *)

Column(i) == [s \in Session |-> pLdrUsage[s][i]]

(* The uses can be counted, and the image counts them all. *)
Counted ==
    \A i \in Image :
        /\ IsFiniteSet(Pairs(Column(i)))
        /\ Cardinality(Pairs(Column(i))) <= cUsage[i]

(* Two threads never own the loader mutex. *)
MutexHeld == \A t \in Thread : pc[t] \in {"init", "closeImages"} => mtxLdr = t

(* The session that is loading an image goes on using it. *)
LoadingUses ==
    \A t \in Thread : pc[t] = "init" =>
        uState[im[t]] = "load" /\ pLdrUsage[ses[t]][im[t]] > 0

(* A call is for a session, and code is of an image. *)
CallsNamed ==
    \A t \in Thread :
        /\ pc[t] # "idle" => ses[t] \in Session
        /\ pc[t] \in InCode \cup {"init"} => im[t] \in Image

CountInv == TypeOK /\ Counted /\ MutexHeld /\ LoadingUses /\ CallsNamed

LEMMA ColumnTyped ==
    /\ TypeOK => \A i \in Image : Column(i) \in [Session -> Nat]
    /\ TypeOK' => \A i \in Image : Column(i)' \in [Session -> Nat]
  BY DEF TypeOK, Column

LEMMA UsesArePairs ==
    ASSUME NEW i \in Image
    PROVE  Uses(i) = Cardinality(Pairs(Column(i)))
  <1>1. \A s \in Session : {s} \X (1 .. pLdrUsage[s][i]) = {s} \X (1 .. Column(i)[s])
    BY DEF Column
  <1>2. UNION {{s} \X (1 .. pLdrUsage[s][i]) : s \in Session}
        = UNION {{s} \X (1 .. Column(i)[s]) : s \in Session}
    BY <1>1
  <1>. QED BY <1>2 DEF Uses, Pairs

(* The record of session s for image i is set to n. *)
Record(s, i, n) == pLdrUsage' = [pLdrUsage EXCEPT ![s][i] = n]

LEMMA RecordChanges ==
    ASSUME TypeOK, Counted, NEW s \in Session, NEW i \in Image, NEW n \in Nat, Record(s, i, n)
    PROVE  /\ pLdrUsage' \in [Session -> [Image -> Nat]]
           /\ \A r \in Session, j \in Image :
                 pLdrUsage'[r][j] = IF r = s /\ j = i THEN n ELSE pLdrUsage[r][j]
           /\ \A j \in Image :
                 /\ IsFiniteSet(Pairs(Column(j)')) /\ Cardinality(Pairs(Column(j)')) \in Nat
                 /\ j # i => Cardinality(Pairs(Column(j)')) = Cardinality(Pairs(Column(j)))
           /\ Cardinality(Pairs(Column(i)')) + pLdrUsage[s][i] = Cardinality(Pairs(Column(i))) + n
  <1>1. /\ pLdrUsage' \in [Session -> [Image -> Nat]]
        /\ \A r \in Session, j \in Image :
              pLdrUsage'[r][j] = IF r = s /\ j = i THEN n ELSE pLdrUsage[r][j]
    BY DEF TypeOK, Record
  <1>2. \A j \in Image : j # i => Column(j)' = Column(j)
    BY <1>1 DEF Column
  <1>. DEFINE f == Column(i)
              g == Column(i)'
  <1>3. /\ f \in [Session -> Nat] /\ g \in [Session -> Nat] /\ SameBut(f, g, s)
        /\ f[s] = pLdrUsage[s][i] /\ g[s] = n
    BY <1>1 DEF Column, SameBut, TypeOK
  <1>4. IsFiniteSet(Pairs(f))
    BY DEF Counted
  <1>. HIDE DEF f, g
  <1>5. IsFiniteSet(Pairs(g)) /\ Cardinality(Pairs(g)) + f[s] = Cardinality(Pairs(f)) + g[s]
    BY <1>3, <1>4, PairsChange
  <1>6. \A j \in Image : IsFiniteSet(Pairs(Column(j)'))
    BY <1>2, <1>5 DEF Counted, g
  <1>7. \A j \in Image : Cardinality(Pairs(Column(j)')) \in Nat
    BY <1>6, FS_CardinalityType
  <1>. QED BY <1>1, <1>2, <1>3, <1>5, <1>6, <1>7 DEF f, g

LEMMA CountsNat ==
    ASSUME Counted, NEW i \in Image
    PROVE  Cardinality(Pairs(Column(i))) \in Nat
  BY FS_CardinalityType DEF Counted

(* A session uses an image no more often than all sessions do together.    *)
LEMMA UsesAtLeast ==
    ASSUME TypeOK, Counted, NEW i \in Image, NEW s \in Session
    PROVE  pLdrUsage[s][i] <= Cardinality(Pairs(Column(i)))
  <1>. DEFINE f == Column(i)
  <1>1. f \in [Session -> Nat] /\ f[s] = pLdrUsage[s][i] /\ IsFiniteSet(Pairs(f))
    BY DEF Column, TypeOK, Counted
  <1>. HIDE DEF f
  <1>2. /\ Cardinality(PairsButOf(f, s)) \in Nat
        /\ Cardinality(Pairs(f)) = Cardinality(PairsButOf(f, s)) + f[s]
    BY <1>1, PairsSplit
  <1>. QED BY <1>1, <1>2 DEF f

LEMMA BothUse ==
    ASSUME TypeOK, Counted, NEW i \in Image, NEW s \in Session, NEW r \in Session, r # s
    PROVE  pLdrUsage[s][i] + pLdrUsage[r][i] <= Cardinality(Pairs(Column(i)))
  <1>. DEFINE f == Column(i)
  <1>1. /\ f \in [Session -> Nat] /\ IsFiniteSet(Pairs(f))
        /\ f[s] = pLdrUsage[s][i] /\ f[r] = pLdrUsage[r][i]
    BY DEF Column, TypeOK, Counted
  <1>. HIDE DEF f
  <1>. QED BY <1>1, TwoUsers DEF f

-----------------------------------------------------------------------------
(* Types.                                                                  *)

(* The steps of a thread: those that change what images there are, what    *)
(* they count and what is known of them, ...                               *)
OnImages(t) ==
    \/ ModuleInit(t)
    \/ \E i \in Image : CloseImage(t, i)
    \/ \E s \in Session, i \in Image :
          \/ LdrOpen(t, s, i) \/ LdrLoadAgain(t, s, i) \/ LdrFree(t, s, i)
          \/ \E ep \in {"NOTHING", "VMMR0", "SERVICE"}, base \in BOOLEAN : LdrLoad(t, s, i, ep, base)

(* ... and those that do not.                                              *)
BesideImages(t) ==
    \/ ReturnFromCode(t) \/ CloseDtorReturns(t) \/ CloseImages(t) \/ CloseDone(t)
    \/ \E o \in Obj : RegisterObj(t, o) \/ CloseObj(t, o)
    \/ \E s \in Session : \/ OpenSession(s) \/ CloseSession(t, s) \/ CallVMMR0(t, s)
                          \/ \E o \in Obj : ObjRelease(t, s, o)
    \/ \E s \in Session, i \in Image : CallService(t, s, i)

Step(t) == OnImages(t) \/ BesideImages(t)

LEMMA GotoTyped ==
    ASSUME TypeOK, CallsNamed, NEW t \in Thread, NEW l \in PC, NEW s \in Session \cup {NONE},
           NEW i \in Image \cup {NONE}, Goto(t, l, s, i),
           l # "idle" => s \in Session, l \in InCode \cup {"init"} => i \in Image
    PROVE  /\ pc' \in [Thread -> PC] /\ ses' \in [Thread -> Session \cup {NONE}]
           /\ im' \in [Thread -> Image \cup {NONE}] /\ CallsNamed'
           /\ \A u \in Thread : /\ pc'[u] = IF u = t THEN l ELSE pc[u]
                                /\ ses'[u] = IF u = t THEN s ELSE ses[u]
                                /\ im'[u] = IF u = t THEN i ELSE im[u]
  <1>1. /\ pc' \in [Thread -> PC] /\ ses' \in [Thread -> Session \cup {NONE}]
        /\ im' \in [Thread -> Image \cup {NONE}]
        /\ \A u \in Thread : /\ pc'[u] = IF u = t THEN l ELSE pc[u]
                             /\ ses'[u] = IF u = t THEN s ELSE ses[u]
                             /\ im'[u] = IF u = t THEN i ELSE im[u]
    BY DEF TypeOK, Goto
  <1>. QED BY <1>1 DEF CallsNamed

LEMMA ThreadsStay ==
    ASSUME TypeOK, CallsNamed, UNCHANGED thrVars
    PROVE  /\ pc' \in [Thread -> PC] /\ ses' \in [Thread -> Session \cup {NONE}]
           /\ im' \in [Thread -> Image \cup {NONE}] /\ CallsNamed'
  BY DEF TypeOK, thrVars, CallsNamed

LEMMA ReturnTyped ==
    ASSUME TypeOK, CallsNamed, NEW t \in Thread, Return(t)
    PROVE  /\ pc' \in [Thread -> PC] /\ ses' \in [Thread -> Session \cup {NONE}]
           /\ im' \in [Thread -> Image \cup {NONE}] /\ CallsNamed'
           /\ \A u \in Thread : /\ pc'[u] = IF u = t THEN "idle" ELSE pc[u]
                                /\ ses'[u] = IF u = t THEN NONE ELSE ses[u]
                                /\ im'[u] = IF u = t THEN NONE ELSE im[u]
  <1>1. "idle" \in PC /\ "idle" \notin InCode \cup {"init"} /\ Goto(t, "idle", NONE, NONE)
    BY DEF PC, InCode, Return
  <1>. QED BY <1>1, GotoTyped

(* What a process knows grows or shrinks by one image. *)
LEMMA KnownTyped ==
    ASSUME TypeOK, NEW s \in Session, NEW i \in Image, NEW S \in SUBSET Image,
           known' = [known EXCEPT ![s] = S]
    PROVE  known' \in [Session -> SUBSET Image]
  BY DEF TypeOK

LEMMA LearnDropTyped ==
    ASSUME TypeOK, NEW s \in Session, NEW i \in Image, Learn(s, i) \/ DropUsage(s, i) \/ UNCHANGED known
    PROVE  /\ known' \in [Session -> SUBSET Image]
           /\ Learn(s, i) => \A r \in Session : known'[r] = IF r = s THEN known[r] \cup {i} ELSE known[r]
           /\ DropUsage(s, i) => \A r \in Session : known'[r] = IF r = s THEN known[r] \ {i} ELSE known[r]
  <1>1. known \in [Session -> SUBSET Image]
    BY DEF TypeOK
  <1>2. CASE Learn(s, i)
    <2>1. known' = [known EXCEPT ![s] = known[s] \cup {i}] /\ known[s] \cup {i} \in SUBSET Image
      BY <1>1, <1>2 DEF Learn
    <2>. QED BY <1>1, <2>1, KnownTyped DEF DropUsage, Learn
  <1>3. CASE DropUsage(s, i)
    <2>1. known' = [known EXCEPT ![s] = known[s] \ {i}] /\ known[s] \ {i} \in SUBSET Image
      BY <1>1, <1>3 DEF DropUsage
    <2>. QED BY <1>1, <2>1, KnownTyped DEF DropUsage, Learn
  <1>4. CASE UNCHANGED known
    BY <1>1, <1>4 DEF Learn, DropUsage
  <1>. QED BY <1>2, <1>3, <1>4

LEMMA UnrefTyped ==
    ASSUME TypeOK, CallsNamed, NEW t \in Thread, NEW s \in Session, NEW o \in Obj,
           NEW run \in {"dtor", "closeDtor"}, NEW return \in {"idle", "closeObjs"},
           return # "idle" => ses[t] \in Session, Unref(t, s, o, run, return)
    PROVE  TypeOK' /\ CallsNamed'
  <1>1. /\ refs' \in [Obj -> SUBSET Session]
        /\ UNCHANGED <<open, mtxLdr, uState, cUsage, pLdrUsage, service, pvVMMR0, isHandle, known>>
    BY DEF TypeOK, Unref, imgVars
  <1>2. CASE refs[o] = {s} /\ dtor[o] # NONE
    <2>1. Goto(t, run, s, dtor[o]) /\ dtor' \in [Obj -> Image \cup {NONE}] /\ dtor[o] \in Image
      BY <1>2 DEF Unref, TypeOK
    <2>. QED BY <1>1, <2>1, GotoTyped DEF TypeOK, PC
  <1>3. CASE ~(refs[o] = {s} /\ dtor[o] # NONE)
    <2>1. Goto(t, return, ses[t], im[t]) /\ UNCHANGED dtor /\ return \in PC /\ return \notin InCode \cup {"init"}
      BY <1>3 DEF Unref, PC, InCode
    <2>2. ses[t] \in Session \cup {NONE} /\ im[t] \in Image \cup {NONE}
      BY DEF TypeOK
    <2>. QED BY <1>1, <2>1, <2>2, GotoTyped DEF TypeOK
  <1>. QED BY <1>2, <1>3

LEMMA FreeTyped ==
    ASSUME TypeOK, NEW i \in Image, NEW n \in Nat, FreeImage(i) \/ KeepImage(i, n)
    PROVE  /\ uState' \in [Image -> {"none", "open", "load"}] /\ cUsage' \in [Image -> Nat]
           /\ service' \in SUBSET Image /\ pvVMMR0' \in Image \cup {NONE}
           /\ dtor' \in [Obj -> Image \cup {NONE}]
  <1>1. CASE KeepImage(i, n)
    BY <1>1 DEF TypeOK, KeepImage
  <1>2. CASE FreeImage(i)
    <2>1. dtor' \in [Obj -> Image \cup {NONE}]
      <3>1. \A o \in Obj : dtor[o] \in Image \cup {NONE}
        BY DEF TypeOK
      <3>. QED BY <1>2, <3>1 DEF FreeImage
    <2>2. service' \in SUBSET Image /\ pvVMMR0' \in Image \cup {NONE}
      BY <1>2 DEF TypeOK, FreeImage, UnsetVMMR0EPs
    <2>. QED BY <1>2, <2>1, <2>2 DEF TypeOK, FreeImage
  <1>. QED BY <1>1, <1>2

LEMMA TypeStep ==
    ASSUME CountInv, NEW t \in Thread, Step(t)
    PROVE  TypeOK' /\ CallsNamed'
  <1>. USE LdrAssumption DEF CountInv, thrVars, objVars, imgVars
  <1>1. CASE ModuleInit(t)
    <2>1. ses[t] \in Session /\ im[t] \in Image
      BY <1>1 DEF ModuleInit, CallsNamed
    <2>2. known' \in [Session -> SUBSET Image]
      BY <1>1, <2>1, LearnDropTyped DEF ModuleInit
    <2>3. pvVMMR0' \in Image \cup {NONE} /\ service' \in SUBSET Image
      BY <1>1, <2>1 DEF ModuleInit, UnsetVMMR0EPs, TypeOK
    <2>4. uState' \in [Image -> {"none", "open", "load"}]
      BY <1>1, <2>1 DEF ModuleInit, TypeOK
    <2>. QED BY <1>1, <2>1, <2>2, <2>3, <2>4, ReturnTyped DEF ModuleInit, TypeOK
  <1>2. CASE ReturnFromCode(t)
    BY <1>2, ReturnTyped DEF ReturnFromCode, TypeOK
  <1>3. CASE CloseDtorReturns(t) \/ CloseImages(t)
    <2>1. \E l \in {"closeObjs", "closeImages"} : Goto(t, l, ses[t], NONE)
      BY <1>3 DEF CloseDtorReturns, CloseImages
    <2>2. PICK l \in {"closeObjs", "closeImages"} : Goto(t, l, ses[t], NONE)
      BY <2>1
    <2>3. ses[t] \in Session /\ l \in PC /\ l \notin InCode \cup {"init"}
      BY <1>3 DEF CloseDtorReturns, CloseImages, CallsNamed, PC, InCode
    <2>4. /\ pc' \in [Thread -> PC] /\ ses' \in [Thread -> Session \cup {NONE}]
          /\ im' \in [Thread -> Image \cup {NONE}] /\ CallsNamed'
      BY <2>2, <2>3, GotoTyped
    <2>. QED BY <1>3, <2>4 DEF CloseDtorReturns, CloseImages, TypeOK
  <1>4. CASE CloseDone(t)
    BY <1>4, ReturnTyped DEF CloseDone, TypeOK
  <1>5. ASSUME NEW i \in Image, CloseImage(t, i) PROVE TypeOK' /\ CallsNamed'
    <2>1. ses[t] \in Session
      BY <1>5 DEF CloseImage, CallsNamed
    <2>2. pLdrUsage' \in [Session -> [Image -> Nat]] /\ known' \in [Session -> SUBSET Image]
      <3>1. known' \in [Session -> SUBSET Image]
        BY <1>5, <2>1, LearnDropTyped DEF CloseImage
      <3>. QED BY <1>5, <3>1 DEF CloseImage, DropUsage, TypeOK
    <2>3. IsLast(ses[t], i) \/ cUsage[i] - pLdrUsage[ses[t]][i] \in Nat
      BY <2>1 DEF IsLast, TypeOK
    <2>4. /\ uState' \in [Image -> {"none", "open", "load"}] /\ cUsage' \in [Image -> Nat]
          /\ service' \in SUBSET Image /\ pvVMMR0' \in Image \cup {NONE}
          /\ dtor' \in [Obj -> Image \cup {NONE}]
      BY <1>5, <2>3, FreeTyped DEF CloseImage
    <2>. QED BY <1>5, <2>2, <2>4, ThreadsStay DEF CloseImage, TypeOK
  <1>6. ASSUME NEW o \in Obj, RegisterObj(t, o) PROVE TypeOK' /\ CallsNamed'
    <2>1. ses[t] \in Session /\ im[t] \in Image
      BY <1>6 DEF RegisterObj, CallsNamed, InCode
    <2>2. dtor' \in [Obj -> Image \cup {NONE}] /\ refs' \in [Obj -> SUBSET Session]
      BY <1>6, <2>1 DEF RegisterObj, TypeOK
    <2>. QED BY <1>6, <2>2, ThreadsStay DEF RegisterObj, TypeOK
  <1>7. ASSUME NEW o \in Obj, CloseObj(t, o) PROVE TypeOK' /\ CallsNamed'
    <2>1. ses[t] \in Session /\ Unref(t, ses[t], o, "closeDtor", "closeObjs")
      BY <1>7 DEF CloseObj, CallsNamed
    <2>. QED BY <2>1, UnrefTyped
  <1>8. ASSUME NEW s \in Session, NEW o \in Obj, ObjRelease(t, s, o) PROVE TypeOK' /\ CallsNamed'
    BY <1>8, UnrefTyped DEF ObjRelease
  <1>9. ASSUME NEW s \in Session, OpenSession(s) PROVE TypeOK' /\ CallsNamed'
    BY <1>9, ThreadsStay DEF OpenSession, TypeOK
  <1>10. ASSUME NEW s \in Session, CloseSession(t, s) PROVE TypeOK' /\ CallsNamed'
    BY <1>10, GotoTyped DEF CloseSession, TypeOK, PC, InCode
  <1>11. ASSUME NEW s \in Session, CallVMMR0(t, s) PROVE TypeOK' /\ CallsNamed'
    <2>1. pvVMMR0 \in Image
      BY <1>11 DEF CallVMMR0, TypeOK
    <2>. QED BY <1>11, <2>1, GotoTyped DEF CallVMMR0, TypeOK, PC
  <1>12. ASSUME NEW s \in Session, NEW i \in Image, CallService(t, s, i) PROVE TypeOK' /\ CallsNamed'
    BY <1>12, GotoTyped DEF CallService, TypeOK, PC
  <1>13. ASSUME NEW s \in Session, NEW i \in Image, LdrOpen(t, s, i) PROVE TypeOK' /\ CallsNamed'
    <2>1. pLdrUsage' \in [Session -> [Image -> Nat]] /\ known' \in [Session -> SUBSET Image]
      <3>1. known' \in [Session -> SUBSET Image]
        BY <1>13, LearnDropTyped DEF LdrOpen
      <3>2. AddUsage(s, i) \/ NoUsageRecord(s, i)
        BY <1>13 DEF LdrOpen
      <3>3. pLdrUsage' \in [Session -> [Image -> Nat]]
        <4>1. \A n \in Nat : n + 1 \in Nat
          OBVIOUS
        <4>2. pLdrUsage \in [Session -> [Image -> Nat]] /\ pLdrUsage[s][i] \in Nat
          BY DEF TypeOK
        <4>. QED BY <3>2, <4>1, <4>2 DEF AddUsage, NoUsageRecord
      <3>. QED BY <3>1, <3>3
    <2>. QED BY <1>13, <2>1, ThreadsStay DEF LdrOpen, TypeOK
  <1>14. ASSUME NEW s \in Session, NEW i \in Image, LdrLoadAgain(t, s, i) PROVE TypeOK' /\ CallsNamed'
    BY <1>14, ThreadsStay, LearnDropTyped DEF LdrLoadAgain, TypeOK
  <1>15. ASSUME NEW s \in Session, NEW i \in Image, LdrFree(t, s, i) PROVE TypeOK' /\ CallsNamed'
    <2>1. pLdrUsage' \in [Session -> [Image -> Nat]] /\ known' \in [Session -> SUBSET Image]
      <3>1. known' \in [Session -> SUBSET Image]
        BY <1>15, LearnDropTyped DEF LdrFree
      <3>2. \/ pLdrUsage' = [pLdrUsage EXCEPT ![s][i] = 0]
            \/ pLdrUsage[s][i] > 1 /\ pLdrUsage' = [pLdrUsage EXCEPT ![s][i] = @ - 1]
        <4>1. pLdrUsage[s][i] \in Nat
          BY DEF TypeOK
        <4>. QED BY <1>15, <4>1 DEF LdrFree, DropUsage
      <3>. QED BY <3>1, <3>2 DEF TypeOK
    <2>2. FreeImage(i) \/ (cUsage[i] - 1 \in Nat /\ KeepImage(i, cUsage[i] - 1))
      BY <1>15 DEF LdrFree, TypeOK
    <2>3. /\ uState' \in [Image -> {"none", "open", "load"}] /\ cUsage' \in [Image -> Nat]
          /\ service' \in SUBSET Image /\ pvVMMR0' \in Image \cup {NONE}
          /\ dtor' \in [Obj -> Image \cup {NONE}]
      BY <2>2, FreeTyped
    <2>4. UNCHANGED <<open, mtxLdr, isHandle, refs, thrVars>>
      BY <1>15 DEF LdrFree
    <2>5. /\ pc' \in [Thread -> PC] /\ ses' \in [Thread -> Session \cup {NONE}]
          /\ im' \in [Thread -> Image \cup {NONE}] /\ CallsNamed'
      BY <2>4, ThreadsStay
    <2>6. /\ open' \in SUBSET Session /\ mtxLdr' \in Thread \cup {NONE} /\ isHandle' \in BOOLEAN
          /\ refs' \in [Obj -> SUBSET Session]
      BY <2>4 DEF TypeOK
    <2>. QED BY <2>1, <2>3, <2>5, <2>6 DEF TypeOK
  <1>16. ASSUME NEW s \in Session, NEW i \in Image, NEW ep \in {"NOTHING", "VMMR0", "SERVICE"}, NEW base \in BOOLEAN,
                LdrLoad(t, s, i, ep, base)
         PROVE  TypeOK' /\ CallsNamed'
    BY <1>16, GotoTyped DEF LdrLoad, TypeOK, PC
  <1>. QED BY <1>1, <1>2, <1>3, <1>4, <1>5, <1>6, <1>7, <1>8, <1>9, <1>10, <1>11, <1>12, <1>13,
             <1>14, <1>15, <1>16 DEF Step, OnImages, BesideImages

-----------------------------------------------------------------------------
(* The counts.                                                             *)

Holding == {"init", "closeImages"}

LEMMA CountedStays ==
    ASSUME Counted, UNCHANGED <<cUsage, pLdrUsage>>
    PROVE  Counted'
  BY DEF Counted, Column

(* A step in which no thread takes or gives up the loader mutex. *)
LEMMA LoaderStays ==
    ASSUME CountInv, UNCHANGED <<mtxLdr, uState, pLdrUsage>>,
           \A u \in Thread : pc'[u] \in Holding => pc'[u] = pc[u] /\ ses'[u] = ses[u] /\ im'[u] = im[u]
    PROVE  MutexHeld' /\ LoadingUses'
  BY DEF CountInv, MutexHeld, LoadingUses, Holding

LEMMA UnrefMoves ==
    ASSUME TypeOK, NEW t \in Thread, NEW s, NEW o, NEW run \in PC \ Holding, NEW return \in PC \ Holding,
           Unref(t, s, o, run, return)
    PROVE  /\ UNCHANGED <<mtxLdr, uState, cUsage, pLdrUsage>>
           /\ \A u \in Thread : pc'[u] \in Holding => pc'[u] = pc[u] /\ ses'[u] = ses[u] /\ im'[u] = im[u]
  BY DEF TypeOK, Unref, Goto, imgVars

(* A step that changes no counts and takes no mutex. *)
LEMMA QuietCounts ==
    ASSUME CountInv, NEW t \in Thread,
           \/ ReturnFromCode(t) \/ CloseDtorReturns(t)
           \/ \E o \in Obj : RegisterObj(t, o) \/ CloseObj(t, o)
           \/ \E s \in Session : \/ OpenSession(s) \/ CloseSession(t, s) \/ CallVMMR0(t, s)
                                \/ \E o \in Obj : ObjRelease(t, s, o)
           \/ \E s \in Session, i \in Image : LdrLoadAgain(t, s, i) \/ CallService(t, s, i)
    PROVE  Counted' /\ MutexHeld' /\ LoadingUses'
  <1>1. /\ UNCHANGED <<mtxLdr, uState, cUsage, pLdrUsage>>
        /\ \A u \in Thread : pc'[u] \in Holding => pc'[u] = pc[u] /\ ses'[u] = ses[u] /\ im'[u] = im[u]
    <2>1. CASE ReturnFromCode(t) \/ CloseDtorReturns(t)
      BY <2>1 DEF ReturnFromCode, CloseDtorReturns, Return, Goto, imgVars, Holding, CountInv, TypeOK
    <2>2. CASE \E o \in Obj : RegisterObj(t, o)
      BY <2>2 DEF RegisterObj, imgVars, thrVars
    <2>3. ASSUME NEW o \in Obj, CloseObj(t, o)
          PROVE  /\ UNCHANGED <<mtxLdr, uState, cUsage, pLdrUsage>>
                 /\ \A u \in Thread : pc'[u] \in Holding => pc'[u] = pc[u] /\ ses'[u] = ses[u] /\ im'[u] = im[u]
      <3>1. "closeDtor" \in PC \ Holding /\ "closeObjs" \in PC \ Holding
        BY DEF PC, Holding
      <3>. QED BY <2>3, <3>1, UnrefMoves DEF CloseObj, CountInv
    <2>4. ASSUME NEW s \in Session, NEW o \in Obj, ObjRelease(t, s, o)
          PROVE  /\ UNCHANGED <<mtxLdr, uState, cUsage, pLdrUsage>>
                 /\ \A u \in Thread : pc'[u] \in Holding => pc'[u] = pc[u] /\ ses'[u] = ses[u] /\ im'[u] = im[u]
      <3>1. "dtor" \in PC \ Holding /\ "idle" \in PC \ Holding
        BY DEF PC, Holding
      <3>. QED BY <2>4, <3>1, UnrefMoves DEF ObjRelease, CountInv
    <2>5. CASE \E s \in Session : OpenSession(s) \/ CloseSession(t, s) \/ CallVMMR0(t, s)
      BY <2>5 DEF OpenSession, CloseSession, CallVMMR0, Goto, imgVars, thrVars, Holding, CountInv, TypeOK
    <2>6. CASE \E s \in Session, i \in Image : LdrLoadAgain(t, s, i) \/ CallService(t, s, i)
      BY <2>6 DEF LdrLoadAgain, CallService, Goto, imgVars, thrVars, Holding, CountInv, TypeOK
    <2>. QED BY <2>1, <2>2, <2>3, <2>4, <2>5, <2>6
  <1>. QED BY <1>1, CountedStays, LoaderStays DEF CountInv

(* The record of one session and the count of the image change together.   *)
LEMMA CountedChange ==
    ASSUME TypeOK, Counted, NEW s \in Session, NEW i \in Image, NEW n \in Nat, NEW c \in Nat,
           Record(s, i, n), cUsage' = [cUsage EXCEPT ![i] = c],
           Cardinality(Pairs(Column(i))) + n <= c + pLdrUsage[s][i]
    PROVE  Counted'
  <1>1. /\ \A j \in Image :
              /\ IsFiniteSet(Pairs(Column(j)')) /\ Cardinality(Pairs(Column(j)')) \in Nat
              /\ j # i => Cardinality(Pairs(Column(j)')) = Cardinality(Pairs(Column(j)))
        /\ Cardinality(Pairs(Column(i)')) + pLdrUsage[s][i] = Cardinality(Pairs(Column(i))) + n
    BY RecordChanges
  <1>2. pLdrUsage[s][i] \in Nat /\ Cardinality(Pairs(Column(i))) \in Nat
    BY CountsNat DEF TypeOK
  <1>3. Cardinality(Pairs(Column(i)')) <= c
    BY <1>1, <1>2
  <1>4. \A j \in Image : cUsage'[j] = IF j = i THEN c ELSE cUsage[j]
    BY DEF TypeOK
  <1>. QED BY <1>1, <1>3, <1>4 DEF Counted

(* Nobody initialises an image while the loader mutex is free. *)
LEMMA NoLoader ==
    ASSUME CountInv, NEW t \in Thread, mtxLdr = NONE \/ pc[t] = "closeImages", NEW u \in Thread
    PROVE  pc[u] # "init"
  BY LdrAssumption DEF CountInv, MutexHeld

LEMMA LdrOpenCounts ==
    ASSUME CountInv, NEW t \in Thread, NEW s \in Session, NEW i \in Image, LdrOpen(t, s, i)
    PROVE  Counted' /\ MutexHeld' /\ LoadingUses'
  <1>1. cUsage[i] \in Nat /\ pLdrUsage[s][i] \in Nat /\ pLdrUsage \in [Session -> [Image -> Nat]]
        /\ cUsage \in [Image -> Nat]
    BY DEF CountInv, TypeOK
  <1>2. Counted'
    <2>1. Cardinality(Pairs(Column(i))) <= cUsage[i] /\ Cardinality(Pairs(Column(i))) \in Nat
      BY CountsNat DEF CountInv, Counted
    <2>2. CASE AddUsage(s, i)
      <3>1. Record(s, i, pLdrUsage[s][i] + 1) /\ cUsage' = [cUsage EXCEPT ![i] = cUsage[i] + 1]
        BY <1>1, <2>2 DEF AddUsage, Record, LdrOpen
      <3>2. Cardinality(Pairs(Column(i))) + (pLdrUsage[s][i] + 1) <= (cUsage[i] + 1) + pLdrUsage[s][i]
        BY <1>1, <2>1
      <3>3. pLdrUsage[s][i] + 1 \in Nat /\ cUsage[i] + 1 \in Nat
        BY <1>1
      <3>. QED BY <3>1, <3>2, <3>3, CountedChange DEF CountInv
    <2>3. CASE NoUsageRecord(s, i)
      <3>1. Record(s, i, pLdrUsage[s][i]) /\ cUsage' = [cUsage EXCEPT ![i] = cUsage[i] + 1]
        BY <1>1, <2>3 DEF NoUsageRecord, Record, LdrOpen
      <3>2. Cardinality(Pairs(Column(i))) + pLdrUsage[s][i] <= (cUsage[i] + 1) + pLdrUsage[s][i]
        BY <1>1, <2>1
      <3>3. cUsage[i] + 1 \in Nat
        BY <1>1
      <3>. QED BY <1>1, <3>1, <3>2, <3>3, CountedChange DEF CountInv
    <2>. QED BY <2>2, <2>3 DEF LdrOpen
  <1>3. MutexHeld' /\ LoadingUses'
    BY NoLoader DEF LdrOpen, thrVars, CountInv, MutexHeld, LoadingUses
  <1>. QED BY <1>2, <1>3

LEMMA LdrFreeCounts ==
    ASSUME CountInv, NEW t \in Thread, NEW s \in Session, NEW i \in Image, LdrFree(t, s, i)
    PROVE  Counted' /\ MutexHeld' /\ LoadingUses'
  <1>1. cUsage[i] \in Nat /\ pLdrUsage[s][i] \in Nat /\ pLdrUsage \in [Session -> [Image -> Nat]]
        /\ cUsage \in [Image -> Nat] /\ pLdrUsage[s][i] > 0
    BY DEF CountInv, TypeOK, LdrFree
  <1>2. /\ Cardinality(Pairs(Column(i))) <= cUsage[i] /\ Cardinality(Pairs(Column(i))) \in Nat
        /\ pLdrUsage[s][i] <= Cardinality(Pairs(Column(i)))
    BY CountsNat, UsesAtLeast DEF CountInv, Counted
  <1>3. Counted'
    <2>1. CASE cUsage[i] <= 1
      <3>1. Record(s, i, 0) /\ cUsage' = [cUsage EXCEPT ![i] = 0]
        BY <2>1 DEF LdrFree, DropUsage, Record, FreeImage
      <3>2. Cardinality(Pairs(Column(i))) + 0 <= 0 + pLdrUsage[s][i]
        BY <1>1, <1>2, <2>1
      <3>. QED BY <3>1, <3>2, CountedChange DEF CountInv
    <2>2. CASE cUsage[i] > 1 /\ pLdrUsage[s][i] <= 1
      <3>1. Record(s, i, 0) /\ cUsage' = [cUsage EXCEPT ![i] = cUsage[i] - 1]
        BY <1>1, <2>2 DEF LdrFree, DropUsage, Record, KeepImage
      <3>2. Cardinality(Pairs(Column(i))) + 0 <= (cUsage[i] - 1) + pLdrUsage[s][i] /\ cUsage[i] - 1 \in Nat
        BY <1>1, <1>2, <2>2
      <3>. QED BY <3>1, <3>2, CountedChange DEF CountInv
    <2>3. CASE cUsage[i] > 1 /\ pLdrUsage[s][i] > 1
      <3>1. Record(s, i, pLdrUsage[s][i] - 1) /\ cUsage' = [cUsage EXCEPT ![i] = cUsage[i] - 1]
        BY <1>1, <2>3 DEF LdrFree, Record, KeepImage
      <3>2. /\ Cardinality(Pairs(Column(i))) + (pLdrUsage[s][i] - 1) <= (cUsage[i] - 1) + pLdrUsage[s][i]
            /\ cUsage[i] - 1 \in Nat /\ pLdrUsage[s][i] - 1 \in Nat
        BY <1>1, <1>2, <2>3
      <3>. QED BY <3>1, <3>2, CountedChange DEF CountInv
    <2>. QED BY <1>1, <2>1, <2>2, <2>3
  <1>4. MutexHeld' /\ LoadingUses'
    BY NoLoader DEF LdrFree, thrVars, CountInv, MutexHeld, LoadingUses
  <1>. QED BY <1>3, <1>4

LEMMA CloseImageCounts ==
    ASSUME CountInv, NEW t \in Thread, NEW i \in Image, CloseImage(t, i)
    PROVE  Counted' /\ MutexHeld' /\ LoadingUses'
  <1>. DEFINE s == ses[t]
  <1>1. s \in Session
    BY DEF CountInv, CallsNamed, CloseImage
  <1>2. /\ cUsage[i] \in Nat /\ pLdrUsage[s][i] \in Nat /\ Record(s, i, 0)
        /\ Cardinality(Pairs(Column(i))) <= cUsage[i] /\ Cardinality(Pairs(Column(i))) \in Nat
        /\ pLdrUsage[s][i] <= Cardinality(Pairs(Column(i)))
    BY <1>1, CountsNat, UsesAtLeast DEF CountInv, Counted, TypeOK, CloseImage, DropUsage, Record
  <1>3. Counted'
    <2>1. CASE IsLast(s, i)
      <3>1. cUsage' = [cUsage EXCEPT ![i] = 0]
        BY <2>1 DEF CloseImage, FreeImage
      <3>2. Cardinality(Pairs(Column(i))) + 0 <= 0 + pLdrUsage[s][i]
        BY <1>2, <2>1 DEF IsLast
      <3>. HIDE DEF s
      <3>. QED BY <1>1, <1>2, <3>1, <3>2, CountedChange DEF CountInv
    <2>2. CASE ~IsLast(s, i)
      <3>1. cUsage' = [cUsage EXCEPT ![i] = cUsage[i] - pLdrUsage[s][i]]
        BY <2>2 DEF CloseImage, KeepImage
      <3>2. /\ Cardinality(Pairs(Column(i))) + 0 <= (cUsage[i] - pLdrUsage[s][i]) + pLdrUsage[s][i]
            /\ cUsage[i] - pLdrUsage[s][i] \in Nat
        BY <1>2, <2>2 DEF IsLast
      <3>. HIDE DEF s
      <3>. QED BY <1>1, <1>2, <3>1, <3>2, CountedChange DEF CountInv
    <2>. QED BY <2>1, <2>2
  <1>4. MutexHeld' /\ LoadingUses'
    BY NoLoader DEF CloseImage, thrVars, CountInv, MutexHeld, LoadingUses
  <1>. QED BY <1>3, <1>4

(* The steps that take or give up the loader mutex. *)
LEMMA MutexCounts ==
    ASSUME CountInv, NEW t \in Thread,
           \/ ModuleInit(t) \/ CloseImages(t) \/ CloseDone(t)
           \/ \E s \in Session, i \in Image, ep \in {"NOTHING", "VMMR0", "SERVICE"}, base \in BOOLEAN : LdrLoad(t, s, i, ep, base)
    PROVE  Counted' /\ MutexHeld' /\ LoadingUses'
  <1>1. Counted'
    BY CountedStays DEF CountInv, ModuleInit, CloseImages, CloseDone, LdrLoad, imgVars
  <1>2. CASE ModuleInit(t) \/ CloseDone(t)
    <2>1. \A u \in Thread : u # t => pc[u] \notin Holding
      BY <1>2 DEF ModuleInit, CloseDone, CountInv, MutexHeld, Holding
    <2>2. \A u \in Thread : pc'[u] = IF u = t THEN "idle" ELSE pc[u]
      BY <1>2, ReturnTyped DEF ModuleInit, CloseDone, CountInv
    <2>3. \A u \in Thread : pc'[u] \notin Holding
      BY <2>1, <2>2 DEF Holding
    <2>4. MutexHeld'
      BY <2>3 DEF MutexHeld, Holding
    <2>5. LoadingUses'
      BY <2>3 DEF LoadingUses, Holding
    <2>. QED BY <1>1, <2>4, <2>5
  <1>3. CASE CloseImages(t)
    <2>1. \A u \in Thread : pc[u] \notin Holding
      BY <1>3, LdrAssumption DEF CloseImages, CountInv, MutexHeld, Holding
    <2>2. /\ \A u \in Thread : pc'[u] = IF u = t THEN "closeImages" ELSE pc[u]
          /\ mtxLdr' = t
      BY <1>3 DEF CloseImages, CountInv, TypeOK, Goto
    <2>3. MutexHeld'
      BY <2>1, <2>2 DEF MutexHeld, Holding
    <2>4. \A u \in Thread : pc'[u] # "init"
      BY <2>1, <2>2 DEF Holding
    <2>5. LoadingUses'
      BY <2>4 DEF LoadingUses
    <2>. QED BY <1>1, <2>3, <2>5
  <1>4. ASSUME NEW s \in Session, NEW i \in Image, NEW ep \in {"NOTHING", "VMMR0", "SERVICE"}, NEW base \in BOOLEAN, LdrLoad(t, s, i, ep, base)
        PROVE  MutexHeld' /\ LoadingUses'
    <2>1. \A u \in Thread : pc[u] \notin Holding
      BY <1>4, LdrAssumption DEF LdrLoad, CountInv, MutexHeld, Holding
    <2>2. /\ \A u \in Thread : /\ pc'[u] = IF u = t THEN "init" ELSE pc[u]
                               /\ ses'[u] = IF u = t THEN s ELSE ses[u]
                               /\ im'[u] = IF u = t THEN i ELSE im[u]
          /\ mtxLdr' = t /\ uState'[i] = "load" /\ pLdrUsage'[s][i] > 0
      BY <1>4 DEF LdrLoad, CountInv, TypeOK, Goto
    <2>. QED BY <2>1, <2>2 DEF MutexHeld, LoadingUses, Holding
  <1>. QED BY <1>1, <1>2, <1>3, <1>4

LEMMA InitCounts == Init => CountInv
  <1>. SUFFICES ASSUME Init PROVE CountInv
    OBVIOUS
  <1>1. TypeOK
    BY DEF Init, TypeOK, PC
  <1>2. \A i \in Image : Pairs(Column(i)) = {}
    <2>1. \A i \in Image : \A s \in Session : PairsOf(Column(i), s) = {}
      BY DEF Init, Column, PairsOf
    <2>. QED BY <2>1, PairsElement
  <1>3. Counted
    <2>1. IsFiniteSet({}) /\ Cardinality({}) = 0
      BY FS_EmptySet
    <2>2. \A i \in Image : IsFiniteSet(Pairs(Column(i))) /\ Cardinality(Pairs(Column(i))) = 0
      BY <1>2, <2>1, Zenon
    <2>3. \A i \in Image : cUsage[i] = 0
      BY DEF Init
    <2>. QED BY <2>2, <2>3 DEF Counted
  <1>4. \A t \in Thread : pc[t] = "idle"
    BY DEF Init
  <1>5. MutexHeld /\ LoadingUses /\ CallsNamed
    BY <1>4 DEF MutexHeld, LoadingUses, CallsNamed, InCode
  <1>. QED BY <1>1, <1>3, <1>5 DEF CountInv

LEMMA NextCounts == CountInv /\ [Next]_vars => CountInv'
  <1>. SUFFICES ASSUME CountInv, [Next]_vars PROVE CountInv'
    OBVIOUS
  <1>1. CASE UNCHANGED vars
    BY <1>1 DEF vars, imgVars, objVars, thrVars, CountInv, TypeOK, Counted, Column, MutexHeld, LoadingUses,
                CallsNamed
  <1>2. CASE Next
    <2>1. PICK t \in Thread : Step(t)
      BY <1>2 DEF Next, Step, OnImages, BesideImages
    <2>2. TypeOK' /\ CallsNamed'
      BY <2>1, TypeStep
    <2>3. Counted' /\ MutexHeld' /\ LoadingUses'
      BY <2>1, QuietCounts, LdrOpenCounts, LdrFreeCounts, CloseImageCounts, MutexCounts
         DEF Step, OnImages, BesideImages
    <2>. QED BY <2>2, <2>3 DEF CountInv
  <1>. QED BY <1>1, <1>2

LEMMA CountsKept == Spec => []CountInv
  BY InitCounts, NextCounts, PTL DEF Spec

LEMMA InvCounts ==
    ASSUME CountInv
    PROVE  CountsEveryUse
  <1>1. ASSUME NEW i \in Image PROVE cUsage[i] >= Uses(i)
    <2>1. Cardinality(Pairs(Column(i))) \in Nat /\ Cardinality(Pairs(Column(i))) <= cUsage[i] /\ cUsage[i] \in Nat
      BY CountsNat DEF CountInv, Counted, TypeOK
    <2>. QED BY <2>1, UsesArePairs
  <1>. QED BY <1>1 DEF CountsEveryUse

(* The usage counts, the mutex and the images, objects and threads of the  *)
(* loader keep their types.                                                *)
THEOREM TypeCorrect == Spec => []TypeOK
  <1>1. CountInv => TypeOK
    BY DEF CountInv
  <1>. QED BY <1>1, CountsKept, PTL

(* An image is never freed under a session that uses it, for any number of *)
(* sessions and uses, orderly or not.                                      *)
THEOREM CountsCoverUses == Spec => []CountsEveryUse
  BY CountsKept, InvCounts, PTL

-----------------------------------------------------------------------------
(* Orderly clients: what they know, run and reference is loaded.           *)

Total(i) == Cardinality(Pairs(Column(i)))

(* What a process knows to be loaded is, and stays so: the process uses it *)
(* or the image counts a use that nobody has, so it will not be freed.     *)
KnownIsLoaded ==
    \A s \in Session : \A i \in known[s] :
        uState[i] = "load" /\ (pLdrUsage[s][i] > 0 \/ cUsage[i] > Total(i))

LoadingUnknown ==
    \A t \in Thread : pc[t] = "init" => \A s \in Session : im[t] \notin known[s]

(* A session that is cleaned up is nobody else's business, ... *)
ClosingAlone ==
    \A t \in Thread : pc[t] \in {"closeObjs", "closeDtor", "closeImages"} =>
        ses[t] \notin open /\ \A u \in Thread : u # t => ses[u] # ses[t]

(* ... and its objects go before its images. *)
ObjsGone == \A t \in Thread : pc[t] = "closeImages" => \A o \in Obj : ses[t] \notin refs[o]

InsideKnown == \A t \in Thread : pc[t] \in InCode => im[t] \in known[ses[t]]

ObjsKnown == \A o \in Obj : \A s \in refs[o] : dtor[o] \in known[s]

LdrInv ==
    /\ CountInv /\ KnownIsLoaded /\ LoadingUnknown /\ ClosingAlone /\ ObjsGone
    /\ InsideKnown /\ ObjsKnown

(* Nobody else knows an image whose last uses are those of session s.      *)
LEMMA LastUser ==
    ASSUME CountInv, KnownIsLoaded, NEW s \in Session, NEW i \in Image, cUsage[i] <= pLdrUsage[s][i],
           NEW r \in Session, r # s
    PROVE  i \notin known[r]
  <1>. SUFFICES ASSUME i \in known[r] PROVE FALSE
    OBVIOUS
  <1>1. /\ Total(i) \in Nat /\ Total(i) <= cUsage[i] /\ pLdrUsage[s][i] <= Total(i)
        /\ pLdrUsage[s][i] + pLdrUsage[r][i] <= Total(i)
        /\ cUsage[i] \in Nat /\ pLdrUsage[s][i] \in Nat /\ pLdrUsage[r][i] \in Nat
    BY CountsNat, UsesAtLeast, BothUse DEF Total, CountInv, Counted, TypeOK
  <1>2. pLdrUsage[r][i] > 0 \/ cUsage[i] > Total(i)
    BY DEF KnownIsLoaded
  <1>. QED BY <1>1, <1>2

(* The steps that leave images and what is known of them alone.            *)
LEMMA KnownSame ==
    ASSUME KnownIsLoaded, UNCHANGED imgVars
    PROVE  KnownIsLoaded'
  BY DEF KnownIsLoaded, imgVars, Total, Column

LEMMA KnownOpen ==
    ASSUME LdrInv, NEW t \in Thread, NEW s \in Session, NEW i \in Image, LdrOpen(t, s, i)
    PROVE  KnownIsLoaded'
  <1>1. /\ \A j \in Image : uState[j] = "load" => uState'[j] = "load"
        /\ \A j \in Image : cUsage'[j] = IF j = i THEN cUsage[j] + 1 ELSE cUsage[j]
        /\ \A r \in Session : \A j \in known'[r] : j \in known[r] \/ (r = s /\ j = i /\ uState[i] = "load")
        /\ \A r \in Session : known'[r] \subseteq Image
    <2>1. \A r \in Session : \A j \in known'[r] : j \in known[r] \/ (r = s /\ j = i /\ uState[i] = "load")
      BY LearnDropTyped DEF LdrOpen, LdrInv, CountInv
    <2>2. \A r \in Session : known[r] \subseteq Image
      BY DEF LdrInv, CountInv, TypeOK
    <2>. QED BY <2>1, <2>2 DEF LdrOpen, LdrInv, CountInv, TypeOK
  <1>2. /\ \A r \in Session, j \in Image : pLdrUsage[r][j] \in Nat /\ cUsage[j] \in Nat
        /\ \A j \in Image : Total(j) \in Nat /\ Total(j) <= cUsage[j]
    BY CountsNat DEF LdrInv, CountInv, TypeOK, Counted, Total
  <1>3. CASE AddUsage(s, i)
    <2>1. Record(s, i, pLdrUsage[s][i] + 1) /\ pLdrUsage[s][i] + 1 \in Nat
      BY <1>2, <1>3 DEF AddUsage, Record, LdrInv, CountInv, TypeOK
    <2>2. /\ \A r \in Session, j \in Image :
                pLdrUsage'[r][j] = IF r = s /\ j = i THEN pLdrUsage[s][i] + 1 ELSE pLdrUsage[r][j]
          /\ \A j \in Image : Total(j)' \in Nat /\ (j # i => Total(j)' = Total(j))
          /\ Total(i)' + pLdrUsage[s][i] = Total(i) + (pLdrUsage[s][i] + 1)
      BY <2>1, RecordChanges DEF LdrInv, CountInv, Total
    <2>3. Total(i)' = Total(i) + 1
      BY <1>2, <2>2
    <2>. QED BY <1>1, <1>2, <2>2, <2>3 DEF LdrInv, KnownIsLoaded
  <1>4. CASE NoUsageRecord(s, i)
    <2>1. pLdrUsage' = pLdrUsage /\ \A j \in Image : Total(j)' = Total(j)
      BY <1>4 DEF NoUsageRecord, Total, Column
    <2>. QED BY <1>1, <1>2, <2>1 DEF LdrInv, KnownIsLoaded
  <1>. QED BY <1>3, <1>4 DEF LdrOpen

(* Session s gives up image i, and nobody else knows it or it stays.       *)
LEMMA KnownDrop ==
    ASSUME LdrInv, NEW s \in Session, NEW i \in Image, DropUsage(s, i), pLdrUsage[s][i] > 0,
           \/ cUsage[i] <= pLdrUsage[s][i] /\ FreeImage(i)
           \/ cUsage[i] > pLdrUsage[s][i] /\ KeepImage(i, cUsage[i] - pLdrUsage[s][i])
    PROVE  KnownIsLoaded'
  <1>1. Record(s, i, 0)
    BY DEF DropUsage, Record
  <1>2. /\ \A r \in Session, j \in Image : pLdrUsage[r][j] \in Nat /\ cUsage[j] \in Nat
        /\ \A j \in Image : Total(j) \in Nat
        /\ \A r \in Session : known[r] \subseteq Image
    BY CountsNat DEF LdrInv, CountInv, TypeOK, Total
  <1>3. /\ \A r \in Session, j \in Image :
                pLdrUsage'[r][j] = IF r = s /\ j = i THEN 0 ELSE pLdrUsage[r][j]
        /\ \A j \in Image : Total(j)' \in Nat /\ (j # i => Total(j)' = Total(j))
        /\ Total(i)' + pLdrUsage[s][i] = Total(i) + 0
    BY <1>1, RecordChanges DEF LdrInv, CountInv, Total
  <1>4. \A r \in Session : known'[r] = IF r = s THEN known[r] \ {i} ELSE known[r]
    BY LearnDropTyped DEF LdrInv, CountInv
  <1>. SUFFICES ASSUME NEW r \in Session, NEW j \in known'[r]
                PROVE  uState'[j] = "load" /\ (pLdrUsage'[r][j] > 0 \/ cUsage'[j] > Total(j)')
    BY DEF KnownIsLoaded
  <1>8. /\ j \in known[r] /\ j \in Image /\ ~(r = s /\ j = i)
        /\ uState[j] = "load" /\ (pLdrUsage[r][j] > 0 \/ cUsage[j] > Total(j))
        /\ pLdrUsage'[r][j] = pLdrUsage[r][j]
    BY <1>2, <1>3, <1>4 DEF LdrInv, KnownIsLoaded
  <1>5. CASE cUsage[i] <= pLdrUsage[s][i] /\ FreeImage(i)
    <2>1. j # i
      BY <1>5, <1>8, LastUser DEF LdrInv
    <2>2. uState'[j] = uState[j] /\ cUsage'[j] = cUsage[j]
      BY <1>5, <1>8, <2>1 DEF FreeImage, LdrInv, CountInv, TypeOK
    <2>. QED BY <1>3, <1>8, <2>1, <2>2
  <1>6. CASE cUsage[i] > pLdrUsage[s][i] /\ KeepImage(i, cUsage[i] - pLdrUsage[s][i])
    <2>1. uState' = uState /\ cUsage'[j] = IF j = i THEN cUsage[i] - pLdrUsage[s][i] ELSE cUsage[j]
      BY <1>6, <1>8 DEF KeepImage, LdrInv, CountInv, TypeOK
    <2>2. CASE j = i
      BY <1>2, <1>3, <1>8, <2>1, <2>2
    <2>3. CASE j # i
      BY <1>3, <1>8, <2>1, <2>3
    <2>. QED BY <2>2, <2>3
  <1>. QED BY <1>5, <1>6

(* LdrFree gives an image up, or counts one use less. *)
LEMMA FreeCases ==
    ASSUME CountInv, NEW t \in Thread, NEW s \in Session, NEW i \in Image, LdrFree(t, s, i)
    PROVE  \/ /\ DropUsage(s, i) /\ Blocking(s, i) = {}
              /\ \/ cUsage[i] <= pLdrUsage[s][i] /\ cUsage[i] <= 1 /\ FreeImage(i)
                 \/ cUsage[i] > pLdrUsage[s][i] /\ KeepImage(i, cUsage[i] - pLdrUsage[s][i])
           \/ /\ pLdrUsage[s][i] > 1 /\ Record(s, i, pLdrUsage[s][i] - 1)
              /\ KeepImage(i, cUsage[i] - 1) /\ UNCHANGED known
  <1>1. /\ cUsage[i] \in Nat /\ pLdrUsage[s][i] \in Nat /\ pLdrUsage[s][i] > 0
    BY DEF CountInv, TypeOK, LdrFree
  <1>2. CASE cUsage[i] <= 1
    BY <1>1, <1>2 DEF LdrFree
  <1>3. CASE cUsage[i] > 1 /\ pLdrUsage[s][i] <= 1
    <2>1. pLdrUsage[s][i] = 1
      BY <1>1, <1>3
    <2>. QED BY <1>1, <1>3, <2>1 DEF LdrFree
  <1>4. CASE cUsage[i] > 1 /\ pLdrUsage[s][i] > 1
    BY <1>1, <1>4 DEF LdrFree, Record, CountInv, TypeOK
  <1>. QED BY <1>1, <1>2, <1>3, <1>4

LEMMA KnownFree ==
    ASSUME LdrInv, NEW t \in Thread, NEW s \in Session, NEW i \in Image, LdrFree(t, s, i)
    PROVE  KnownIsLoaded'
  <1>1. pLdrUsage[s][i] > 0 /\ CountInv
    BY DEF LdrFree, LdrInv
  <1>2. CASE /\ DropUsage(s, i)
             /\ \/ cUsage[i] <= pLdrUsage[s][i] /\ FreeImage(i)
                \/ cUsage[i] > pLdrUsage[s][i] /\ KeepImage(i, cUsage[i] - pLdrUsage[s][i])
    BY <1>1, <1>2, KnownDrop
  <1>3. CASE /\ pLdrUsage[s][i] > 1 /\ Record(s, i, pLdrUsage[s][i] - 1)
             /\ KeepImage(i, cUsage[i] - 1) /\ UNCHANGED known
    <2>1. /\ \A r \in Session, j \in Image : pLdrUsage[r][j] \in Nat /\ cUsage[j] \in Nat
          /\ \A j \in Image : Total(j) \in Nat
          /\ \A r \in Session : known[r] \subseteq Image
      BY CountsNat DEF LdrInv, CountInv, TypeOK, Total
    <2>2. pLdrUsage[s][i] - 1 \in Nat /\ pLdrUsage[s][i] - 1 > 0
      BY <1>3, <2>1
    <2>3. /\ \A r \in Session, j \in Image :
                  pLdrUsage'[r][j] = IF r = s /\ j = i THEN pLdrUsage[s][i] - 1 ELSE pLdrUsage[r][j]
          /\ \A j \in Image : Total(j)' \in Nat /\ (j # i => Total(j)' = Total(j))
          /\ Total(i)' + pLdrUsage[s][i] = Total(i) + (pLdrUsage[s][i] - 1)
      BY <1>3, <2>2, RecordChanges DEF LdrInv, CountInv, Total
    <2>4. /\ uState' = uState /\ known' = known
          /\ \A j \in Image : cUsage'[j] = IF j = i THEN cUsage[i] - 1 ELSE cUsage[j]
      BY <1>3 DEF KeepImage, LdrInv, CountInv, TypeOK
    <2>5. ASSUME NEW r \in Session, NEW j \in known[r]
          PROVE  uState[j] = "load" /\ (pLdrUsage'[r][j] > 0 \/ cUsage'[j] > Total(j)')
      <3>1. j \in Image /\ uState[j] = "load" /\ (pLdrUsage[r][j] > 0 \/ cUsage[j] > Total(j))
        BY <2>1 DEF LdrInv, KnownIsLoaded
      <3>2. CASE j # i
        BY <2>3, <2>4, <3>1, <3>2
      <3>3. CASE j = i /\ r = s
        BY <2>2, <2>3, <3>1, <3>3
      <3>4. CASE j = i /\ r # s
        BY <2>1, <2>3, <2>4, <3>1, <3>4
      <3>. QED BY <3>2, <3>3, <3>4
    <2>. QED BY <2>4, <2>5 DEF KnownIsLoaded
  <1>. QED BY <1>1, <1>2, <1>3, FreeCases

LEMMA KnownLoads ==
    ASSUME LdrInv, NEW t \in Thread, NEW s \in Session, NEW i \in Image, NEW ep, NEW base, LdrLoad(t, s, i, ep, base)
    PROVE  KnownIsLoaded' /\ \A r \in Session : i \notin known[r]
  <1>1. uState[i] = "open" /\ UNCHANGED <<cUsage, pLdrUsage, known>>
        /\ \A j \in Image : uState'[j] = IF j = i THEN "load" ELSE uState[j]
    BY DEF LdrLoad, LdrInv, CountInv, TypeOK
  <1>2. \A r \in Session : known[r] \subseteq Image
    BY DEF LdrInv, CountInv, TypeOK
  <1>. QED BY <1>1, <1>2 DEF LdrInv, KnownIsLoaded, Total, Column

LEMMA KnownInit ==
    ASSUME LdrInv, NEW t \in Thread, ModuleInit(t)
    PROVE  KnownIsLoaded'
  <1>1. /\ ses[t] \in Session /\ im[t] \in Image /\ uState[im[t]] = "load"
        /\ pLdrUsage[ses[t]][im[t]] > 0 /\ \A r \in Session : im[t] \notin known[r]
        /\ UNCHANGED <<cUsage, pLdrUsage>>
    BY DEF ModuleInit, LdrInv, CountInv, LoadingUses, CallsNamed, LoadingUnknown
  <1>2. \A j \in Image : Total(j)' = Total(j)
    BY <1>1 DEF Total, Column
  <1>3. \A r \in Session : known[r] \subseteq Image
    BY DEF LdrInv, CountInv, TypeOK
  <1>4. CASE Learn(ses[t], im[t]) /\ UNCHANGED uState
    <2>. DEFINE s == ses[t] i == im[t]
    <2>0. /\ s \in Session /\ i \in Image /\ Learn(s, i) /\ CountInv /\ uState[i] = "load"
          /\ pLdrUsage[s][i] > 0
      BY <1>1, <1>4 DEF LdrInv
    <2>. HIDE DEF s, i
    <2>1. \A r \in Session : \A j \in known'[r] : j \in known[r] \/ (r = s /\ j = i)
      BY <2>0, LearnDropTyped DEF CountInv
    <2>2. \A r \in Session : \A j \in known'[r] : j \in Image
      BY <2>0, <2>1, <1>3
    <2>. QED BY <1>1, <1>2, <1>4, <2>0, <2>1, <2>2 DEF LdrInv, KnownIsLoaded
  <1>5. CASE uState' = [uState EXCEPT ![im[t]] = "open"] /\ UNCHANGED known
    <2>1. \A j \in Image : j # im[t] => uState'[j] = uState[j]
      BY <1>5 DEF LdrInv, CountInv, TypeOK
    <2>. QED BY <1>1, <1>2, <1>3, <1>5, <2>1 DEF LdrInv, KnownIsLoaded
  <1>. QED BY <1>4, <1>5 DEF ModuleInit

LEMMA KnownStep ==
    ASSUME LdrInv, NEW t \in Thread,
           \/ \E i \in Image : CloseImage(t, i)
           \/ \E s \in Session, i \in Image : LdrLoadAgain(t, s, i)
    PROVE  KnownIsLoaded'
  <1>1. ASSUME NEW i \in Image, CloseImage(t, i) PROVE KnownIsLoaded'
    <2>. DEFINE s == ses[t]
    <2>1. s \in Session /\ DropUsage(s, i) /\ pLdrUsage[s][i] > 0
      BY <1>1 DEF CloseImage, LdrInv, CountInv, CallsNamed
    <2>2. cUsage[i] \in Nat /\ pLdrUsage[s][i] \in Nat
      BY <2>1 DEF LdrInv, CountInv, TypeOK
    <2>3. \/ cUsage[i] <= pLdrUsage[s][i] /\ FreeImage(i)
          \/ cUsage[i] > pLdrUsage[s][i] /\ KeepImage(i, cUsage[i] - pLdrUsage[s][i])
      BY <1>1, <2>2 DEF CloseImage, IsLast
    <2>. HIDE DEF s
    <2>. QED BY <2>1, <2>3, KnownDrop
  <1>2. ASSUME NEW s \in Session, NEW i \in Image, LdrLoadAgain(t, s, i) PROVE KnownIsLoaded'
    <2>1. \A r \in Session : \A j \in known'[r] : j \in known[r] \/ (r = s /\ j = i)
      <3>1. TypeOK /\ Learn(s, i)
        BY <1>2 DEF LdrLoadAgain, LdrInv, CountInv
      <3>2. \A r \in Session : known'[r] = IF r = s THEN known[r] \cup {i} ELSE known[r]
        BY <3>1, LearnDropTyped
      <3>. QED BY <3>2
    <2>2. UNCHANGED <<uState, cUsage, pLdrUsage>> /\ uState[i] = "load" /\ pLdrUsage[s][i] > 0
      BY <1>2 DEF LdrLoadAgain
    <2>3. \A j \in Image : Total(j)' = Total(j)
      BY <2>2 DEF Total, Column
    <2>4. \A r \in Session : known[r] \subseteq Image
      BY DEF LdrInv, CountInv, TypeOK
    <2>. QED BY <2>1, <2>2, <2>3, <2>4 DEF LdrInv, KnownIsLoaded
  <1>. QED BY <1>1, <1>2

Closing == {"closeObjs", "closeDtor", "closeImages"}

(* Where the threads are after a step of thread t. *)
Moves(t, l, s, i) ==
    \A u \in Thread : /\ pc'[u]  = IF u = t THEN l ELSE pc[u]
                      /\ ses'[u] = IF u = t THEN s ELSE ses[u]
                      /\ im'[u]  = IF u = t THEN i ELSE im[u]

LEMMA GotoMoves ==
    ASSUME TypeOK, NEW t \in Thread, NEW l, NEW s, NEW i
    PROVE  /\ Goto(t, l, s, i) => Moves(t, l, s, i)
           /\ Return(t) => Moves(t, "idle", NONE, NONE)
           /\ UNCHANGED thrVars => Moves(t, pc[t], ses[t], im[t])
  BY DEF TypeOK, Goto, Return, Moves, thrVars

LEMMA AloneMoves ==
    ASSUME CountInv, ClosingAlone, NEW t \in Thread, NEW l, NEW s, NEW i, Moves(t, l, s, i),
           open' \subseteq open, s \in open \/ s = NONE \/ s = ses[t],
           l \in Closing => \/ pc[t] \in Closing /\ s = ses[t]
                            \/ s \notin open' /\ \A u \in Thread : ses[u] # s
    PROVE  ClosingAlone'
  <1>1. \A u \in Thread : pc[u] \in Closing => ses[u] \in Session
    BY DEF CountInv, CallsNamed, Closing
  <1>2. \A u \in Thread : pc[u] \in Closing =>
            ses[u] \notin open /\ \A v \in Thread : v # u => ses[v] # ses[u]
    BY DEF ClosingAlone, Closing
  <1>3. ASSUME NEW u \in Thread, pc'[u] \in Closing
        PROVE  ses'[u] \notin open' /\ \A v \in Thread : v # u => ses'[v] # ses'[u]
    <2>1. CASE u = t
      BY <1>2, <1>3, <2>1 DEF Moves
    <2>2. CASE u # t
      BY <1>1, <1>2, <1>3, <2>2, LdrAssumption DEF Moves
    <2>. QED BY <2>1, <2>2
  <1>. QED BY <1>3 DEF ClosingAlone, Closing

(* No step of another thread is for a session that is cleaned up.          *)
LEMMA AloneStep ==
    ASSUME LdrInv, NEW t \in Thread, Step(t)
    PROVE  ClosingAlone'
  <1>. USE DEF Closing
  <1>0. CountInv /\ TypeOK /\ ClosingAlone
    BY DEF LdrInv, CountInv
  <1>1. CASE ModuleInit(t) \/ ReturnFromCode(t) \/ CloseDone(t)
    <2>1. Moves(t, "idle", NONE, NONE) /\ open' = open
      BY <1>0, <1>1, GotoMoves DEF ModuleInit, ReturnFromCode, CloseDone
    <2>. QED BY <1>0, <2>1, AloneMoves
  <1>2. CASE CloseDtorReturns(t) \/ CloseImages(t)
    <2>1. PICK l \in {"closeObjs", "closeImages"} : Goto(t, l, ses[t], NONE)
      BY <1>2 DEF CloseDtorReturns, CloseImages
    <2>2. open' = open /\ pc[t] \in Closing
      BY <1>2 DEF CloseDtorReturns, CloseImages
    <2>. QED BY <1>0, <2>1, <2>2, GotoMoves, AloneMoves
  <1>3. CASE \/ \E i \in Image : CloseImage(t, i)
             \/ \E o \in Obj : RegisterObj(t, o)
             \/ \E s \in Session, i \in Image : LdrOpen(t, s, i) \/ LdrLoadAgain(t, s, i) \/ LdrFree(t, s, i)
    <2>1. UNCHANGED thrVars /\ open' = open
      BY <1>3 DEF CloseImage, RegisterObj, LdrOpen, LdrLoadAgain, LdrFree
    <2>. QED BY <1>0, <2>1, GotoMoves, AloneMoves
  <1>4. ASSUME NEW o \in Obj, CloseObj(t, o) PROVE ClosingAlone'
    <2>1. \E l \in {"closeDtor", "closeObjs"} : \E i : Goto(t, l, ses[t], i)
      BY <1>4 DEF CloseObj, Unref
    <2>2. PICK l \in {"closeDtor", "closeObjs"} : \E i : Goto(t, l, ses[t], i)
      BY <2>1
    <2>3. open' = open /\ pc[t] \in Closing
      BY <1>4 DEF CloseObj, Unref
    <2>. QED BY <1>0, <2>2, <2>3, GotoMoves, AloneMoves
  <1>5. ASSUME NEW s \in Session, NEW o \in Obj, ObjRelease(t, s, o) PROVE ClosingAlone'
    <2>1. s \in open /\ open' = open /\ (Goto(t, "dtor", s, dtor[o]) \/ Goto(t, "idle", ses[t], im[t]))
      BY <1>5 DEF ObjRelease, Unref, CanCall
    <2>. QED BY <1>0, <2>1, GotoMoves, AloneMoves
  <1>6. ASSUME NEW s \in Session, OpenSession(s) PROVE ClosingAlone'
    BY <1>0, <1>6 DEF OpenSession, ClosingAlone, thrVars
  <1>7. ASSUME NEW s \in Session, CloseSession(t, s) PROVE ClosingAlone'
    <2>1. /\ s \in open /\ open' \subseteq open /\ Goto(t, "closeObjs", s, NONE)
          /\ s \notin open' /\ \A u \in Thread : ses[u] # s
      BY <1>7 DEF CloseSession, CanCall
    <2>. QED BY <1>0, <2>1, GotoMoves, AloneMoves
  <1>8. ASSUME NEW s \in Session, CallVMMR0(t, s) PROVE ClosingAlone'
    <2>1. s \in open /\ open' = open /\ Goto(t, "vmmr0", s, pvVMMR0)
      BY <1>8 DEF CallVMMR0, CanCall
    <2>. QED BY <1>0, <2>1, GotoMoves, AloneMoves
  <1>9. ASSUME NEW s \in Session, NEW i \in Image,
               CallService(t, s, i) \/ \E ep \in {"NOTHING", "VMMR0", "SERVICE"}, base \in BOOLEAN : LdrLoad(t, s, i, ep, base)
        PROVE  ClosingAlone'
    <2>1. s \in open /\ open' = open /\ (Goto(t, "service", s, i) \/ Goto(t, "init", s, i))
      BY <1>9 DEF CallService, LdrLoad, CanCall
    <2>. QED BY <1>0, <2>1, GotoMoves, AloneMoves
  <1>. QED BY <1>1, <1>2, <1>3, <1>4, <1>5, <1>6, <1>7, <1>8, <1>9 DEF Step, OnImages, BesideImages

(* The steps beside images: a thread that comes to code of an image comes  *)
(* to one that its session knows.                                          *)
LEMMA QuietMoves ==
    ASSUME LdrInv, Orderly, NEW t \in Thread, BesideImages(t)
    PROVE  /\ UNCHANGED imgVars
           /\ \E l, s, i : /\ Moves(t, l, s, i)
                           /\ l = "init" => pc[t] = "init" /\ i = im[t]
                           /\ l \in InCode => i \in known[s]
  <1>. DEFINE Ok(l, s, i) == /\ Moves(t, l, s, i)
                             /\ l = "init" => pc[t] = "init" /\ i = im[t]
                             /\ l \in InCode => i \in known[s]
              Goal == UNCHANGED imgVars /\ \E l, s, i : Ok(l, s, i)
  <1>0. TypeOK
    BY DEF LdrInv, CountInv
  <1>1. CASE ReturnFromCode(t) \/ CloseDone(t)
    <2>1. UNCHANGED imgVars /\ Return(t)
      BY <1>1 DEF ReturnFromCode, CloseDone
    <2>2. Ok("idle", NONE, NONE)
      BY <1>0, <2>1, GotoMoves DEF InCode
    <2>. QED BY <2>1, <2>2
  <1>2. CASE CloseDtorReturns(t) \/ CloseImages(t)
    <2>1. UNCHANGED imgVars /\ \E l \in {"closeObjs", "closeImages"} : Goto(t, l, ses[t], NONE)
      BY <1>2 DEF CloseDtorReturns, CloseImages
    <2>2. \E l \in {"closeObjs", "closeImages"} : Ok(l, ses[t], NONE)
      BY <1>0, <2>1, GotoMoves DEF InCode
    <2>. QED BY <2>1, <2>2
  <1>3. CASE (\E o \in Obj : RegisterObj(t, o)) \/ (\E s \in Session : OpenSession(s))
    <2>1. UNCHANGED imgVars /\ UNCHANGED thrVars
      BY <1>3 DEF RegisterObj, OpenSession
    <2>2. Ok(pc[t], ses[t], im[t])
      BY <1>0, <2>1, GotoMoves DEF LdrInv, InsideKnown
    <2>. QED BY <2>1, <2>2
  <1>4. ASSUME NEW s \in Session, NEW o \in Obj, NEW run \in {"dtor", "closeDtor"},
               NEW return \in {"idle", "closeObjs"}, Unref(t, s, o, run, return)
        PROVE  Goal
    <2>1. UNCHANGED imgVars
      BY <1>4 DEF Unref
    <2>2. CASE Goto(t, run, s, dtor[o])
      <3>1. dtor[o] \in known[s]
        BY <1>4 DEF Unref, LdrInv, ObjsKnown
      <3>2. Ok(run, s, dtor[o])
        BY <1>0, <2>2, <3>1, GotoMoves
      <3>. QED BY <2>1, <3>2
    <2>3. CASE Goto(t, return, ses[t], im[t])
      <3>1. Ok(return, ses[t], im[t])
        BY <1>0, <2>3, GotoMoves DEF InCode
      <3>. QED BY <2>1, <3>1
    <2>. QED BY <1>4, <2>2, <2>3 DEF Unref
  <1>5. ASSUME NEW o \in Obj, CloseObj(t, o) PROVE Goal
    <2>. DEFINE s == ses[t]
    <2>1. s \in Session /\ Unref(t, s, o, "closeDtor", "closeObjs")
      BY <1>5 DEF CloseObj, LdrInv, CountInv, CallsNamed
    <2>. HIDE DEF s, Goal
    <2>. QED BY <1>4, <2>1
  <1>6. ASSUME NEW s \in Session, NEW o \in Obj, ObjRelease(t, s, o) PROVE Goal
    <2>. HIDE DEF Goal
    <2>. QED BY <1>4, <1>6 DEF ObjRelease
  <1>7. ASSUME NEW s \in Session, CloseSession(t, s) PROVE Goal
    <2>1. Ok("closeObjs", s, NONE)
      BY <1>0, <1>7, GotoMoves DEF InCode, CloseSession
    <2>. QED BY <1>7, <2>1 DEF CloseSession
  <1>8. ASSUME NEW s \in Session, CallVMMR0(t, s) PROVE Goal
    <2>1. Ok("vmmr0", s, pvVMMR0)
      BY <1>0, <1>8, GotoMoves DEF CallVMMR0
    <2>. QED BY <1>8, <2>1 DEF CallVMMR0
  <1>9. ASSUME NEW s \in Session, NEW i \in Image, CallService(t, s, i) PROVE Goal
    <2>1. Ok("service", s, i)
      BY <1>0, <1>9, GotoMoves DEF CallService
    <2>. QED BY <1>9, <2>1 DEF CallService
  <1>. QED BY <1>1, <1>2, <1>3, <1>5, <1>6, <1>7, <1>8, <1>9 DEF BesideImages

(* While an image is being initialised, nobody knows it to be loaded.      *)
LEMMA UnknownStep ==
    ASSUME LdrInv, NEW t \in Thread, OnImages(t)
    PROVE  LoadingUnknown'
  <1>0. CountInv /\ TypeOK
    BY DEF LdrInv, CountInv
  <1>1. CASE ModuleInit(t)
    <2>1. \A u \in Thread : pc[u] = "init" => u = t
      BY <1>1 DEF ModuleInit, LdrInv, CountInv, MutexHeld
    <2>2. Moves(t, "idle", NONE, NONE)
      BY <1>0, <1>1, GotoMoves DEF ModuleInit
    <2>. QED BY <2>1, <2>2 DEF Moves, LoadingUnknown
  <1>2. CASE \/ \E i \in Image : CloseImage(t, i)
             \/ \E s \in Session, i \in Image : LdrOpen(t, s, i) \/ LdrLoadAgain(t, s, i) \/ LdrFree(t, s, i)
    <2>1. (mtxLdr = NONE \/ pc[t] = "closeImages") /\ pc' = pc
      BY <1>2 DEF CloseImage, LdrOpen, LdrLoadAgain, LdrFree, thrVars
    <2>2. \A u \in Thread : pc[u] # "init"
      BY <1>0, <2>1, NoLoader
    <2>. QED BY <2>1, <2>2 DEF LoadingUnknown
  <1>3. ASSUME NEW s \in Session, NEW i \in Image, NEW ep \in {"NOTHING", "VMMR0", "SERVICE"}, NEW base \in BOOLEAN, LdrLoad(t, s, i, ep, base)
        PROVE  LoadingUnknown'
    <2>1. mtxLdr = NONE /\ known' = known /\ Moves(t, "init", s, i)
      BY <1>0, <1>3, GotoMoves DEF LdrLoad
    <2>2. \A u \in Thread : pc[u] # "init"
      BY <1>0, <2>1, NoLoader
    <2>3. \A r \in Session : i \notin known[r]
      BY <1>3, KnownLoads
    <2>. QED BY <2>1, <2>2, <2>3 DEF LoadingUnknown, Moves
  <1>. QED BY <1>1, <1>2, <1>3 DEF OnImages

(* What a step leaves of what is known: everything, except when a session  *)
(* gives up an image that its code is not in and its objects do not need.  *)
LEMMA KnownLeft ==
    ASSUME LdrInv, Orderly, NEW t \in Thread, OnImages(t)
    PROVE  /\ refs' = refs
           /\ \A u \in Thread : pc[u] \in InCode => im[u] \in known'[ses[u]]
           /\ \A o \in Obj : \A r \in refs[o] : dtor'[o] \in known'[r]
  <1>0. /\ CountInv /\ TypeOK
        /\ \A u \in Thread : pc[u] \in InCode =>
              ses[u] \in Session /\ im[u] \in Image /\ im[u] \in known[ses[u]]
        /\ \A o \in Obj : \A r \in refs[o] : r \in Session /\ dtor[o] \in known[r] /\ dtor[o] \in Image
    <2>1. CountInv /\ TypeOK /\ CallsNamed /\ InsideKnown /\ ObjsKnown
      BY DEF LdrInv, CountInv
    <2>2. ASSUME NEW u \in Thread, pc[u] \in InCode
          PROVE  ses[u] \in Session /\ im[u] \in Image /\ im[u] \in known[ses[u]]
      BY <2>1, <2>2 DEF CallsNamed, InsideKnown, InCode
    <2>3. ASSUME NEW o \in Obj, NEW r \in refs[o]
          PROVE  r \in Session /\ dtor[o] \in known[r] /\ dtor[o] \in Image
      <3>1. r \in Session
        BY <2>1 DEF TypeOK
      <3>2. known[r] \subseteq Image /\ dtor[o] \in known[r]
        BY <2>1, <3>1 DEF TypeOK, ObjsKnown
      <3>. QED BY <3>1, <3>2
    <2>. QED BY <2>1, <2>2, <2>3
  <1>1. CASE ModuleInit(t)
    <2>. DEFINE s == ses[t] i == im[t]
    <2>1. s \in Session /\ i \in Image /\ (Learn(s, i) \/ UNCHANGED known) /\ UNCHANGED <<refs, dtor>>
      BY <1>0, <1>1 DEF ModuleInit, CountInv, CallsNamed, objVars
    <2>. HIDE DEF s, i
    <2>2. \A r \in Session : known[r] \subseteq known'[r]
      BY <1>0, <2>1, LearnDropTyped
    <2>. QED BY <1>0, <2>1, <2>2
  <1>2. ASSUME NEW s \in Session, NEW i \in Image,
               \/ LdrOpen(t, s, i) \/ LdrLoadAgain(t, s, i)
               \/ \E ep \in {"NOTHING", "VMMR0", "SERVICE"}, base \in BOOLEAN : LdrLoad(t, s, i, ep, base)
        PROVE  /\ UNCHANGED <<refs, dtor>>
               /\ \A r \in Session : known[r] \subseteq known'[r]
    <2>1. (Learn(s, i) \/ UNCHANGED known) /\ UNCHANGED <<refs, dtor>>
      BY <1>2 DEF LdrOpen, LdrLoadAgain, LdrLoad, objVars
    <2>. QED BY <1>0, <2>1, LearnDropTyped
  <1>3. ASSUME NEW s \in Session, NEW i \in Image, DropUsage(s, i),
               \A u \in Thread : pc[u] \in InCode /\ ses[u] = s => im[u] # i,
               \A o \in Obj : s \in refs[o] => dtor[o] # i,
               \/ FreeImage(i) /\ \A o \in Obj : refs[o] # {} => dtor[o] # i
               \/ UNCHANGED dtor
        PROVE  /\ \A u \in Thread : pc[u] \in InCode => im[u] \in known'[ses[u]]
               /\ \A o \in Obj : \A r \in refs[o] : dtor'[o] \in known'[r]
    <2>1. \A r \in Session : known'[r] = IF r = s THEN known[r] \ {i} ELSE known[r]
      BY <1>0, <1>3, LearnDropTyped
    <2>2. \A o \in Obj : \A r \in refs[o] : dtor'[o] = dtor[o]
      BY <1>3 DEF FreeImage
    <2>3. ASSUME NEW u \in Thread, pc[u] \in InCode PROVE im[u] \in known'[ses[u]]
      BY <1>0, <1>3, <2>1, <2>3
    <2>4. ASSUME NEW o \in Obj, NEW r \in refs[o] PROVE dtor'[o] \in known'[r]
      <3>1. r \in Session /\ dtor[o] \in known[r] /\ dtor'[o] = dtor[o]
        BY <1>0, <2>2, <2>4
      <3>2. CASE r = s
        BY <1>3, <2>1, <2>4, <3>1, <3>2
      <3>3. CASE r # s
        BY <2>1, <3>1, <3>3
      <3>. QED BY <3>2, <3>3
    <2>. QED BY <2>3, <2>4
  <1>4. ASSUME NEW i \in Image, CloseImage(t, i)
        PROVE  /\ refs' = refs
               /\ \A u \in Thread : pc[u] \in InCode => im[u] \in known'[ses[u]]
               /\ \A o \in Obj : \A r \in refs[o] : dtor'[o] \in known'[r]
    <2>. DEFINE s == ses[t]
    <2>1. s \in Session /\ DropUsage(s, i) /\ refs' = refs /\ pLdrUsage[s][i] \in Nat /\ cUsage[i] \in Nat
      BY <1>0, <1>4 DEF CloseImage, CountInv, CallsNamed, TypeOK
    <2>2. \A u \in Thread : pc[u] \in InCode /\ ses[u] = s => im[u] # i
      BY <1>4 DEF CloseImage, LdrInv, ClosingAlone, InCode
    <2>3. \A o \in Obj : s \notin refs[o]
      BY <1>4 DEF CloseImage, LdrInv, ObjsGone
    <2>4. CASE IsLast(s, i)
      <3>1. FreeImage(i) /\ cUsage[i] <= pLdrUsage[s][i]
        BY <1>4, <2>1, <2>4 DEF CloseImage, IsLast
      <3>2. ASSUME NEW o \in Obj, refs[o] # {} PROVE dtor[o] # i
        <4>1. PICK r \in refs[o] : r \in Session /\ r # s /\ dtor[o] \in known[r]
          BY <1>0, <2>3, <3>2
        <4>2. i \notin known[r]
          <5>. HIDE DEF s
          <5>. QED BY <1>0, <2>1, <3>1, <4>1, LastUser DEF LdrInv
        <4>. QED BY <4>1, <4>2
      <3>. HIDE DEF s
      <3>. QED BY <1>3, <2>1, <2>2, <2>3, <3>1, <3>2
    <2>5. CASE ~IsLast(s, i)
      <3>1. UNCHANGED dtor
        BY <1>4, <2>5 DEF CloseImage, KeepImage
      <3>. HIDE DEF s
      <3>. QED BY <1>3, <2>1, <2>2, <2>3, <3>1
    <2>. QED BY <2>4, <2>5
  <1>5. ASSUME NEW s \in Session, NEW i \in Image, LdrFree(t, s, i)
        PROVE  /\ refs' = refs
               /\ \A u \in Thread : pc[u] \in InCode => im[u] \in known'[ses[u]]
               /\ \A o \in Obj : \A r \in refs[o] : dtor'[o] \in known'[r]
    <2>1. refs' = refs /\ \A u \in Thread : pc[u] \in InCode /\ ses[u] = s => im[u] # i
      BY <1>5 DEF LdrFree, Inside
    <2>2. CASE DropUsage(s, i) /\ Blocking(s, i) = {} /\ cUsage[i] <= 1 /\ FreeImage(i)
      <3>1. \A o \in Obj : refs[o] # {} => dtor[o] # i
        BY <2>2 DEF Blocking
      <3>2. \A o \in Obj : s \in refs[o] => dtor[o] # i
        BY <3>1
      <3>. QED BY <1>3, <2>1, <2>2, <3>1, <3>2
    <2>3. CASE DropUsage(s, i) /\ Blocking(s, i) = {} /\ UNCHANGED dtor
      <3>1. \A o \in Obj : s \in refs[o] => dtor[o] # i
        BY <2>3 DEF Blocking
      <3>. QED BY <1>3, <2>1, <2>3, <3>1
    <2>4. CASE UNCHANGED known /\ UNCHANGED dtor
      BY <1>0, <2>1, <2>4
    <2>. QED BY <1>0, <1>5, <2>2, <2>3, <2>4, FreeCases DEF KeepImage
  <1>6. CASE \E i \in Image : CloseImage(t, i)
    BY <1>4, <1>6
  <1>7. ASSUME NEW s \in Session, NEW i \in Image,
               \/ LdrOpen(t, s, i) \/ LdrLoadAgain(t, s, i)
               \/ \E ep \in {"NOTHING", "VMMR0", "SERVICE"}, base \in BOOLEAN : LdrLoad(t, s, i, ep, base)
        PROVE  /\ refs' = refs
               /\ \A u \in Thread : pc[u] \in InCode => im[u] \in known'[ses[u]]
               /\ \A o \in Obj : \A r \in refs[o] : dtor'[o] \in known'[r]
    BY <1>0, <1>2, <1>7
  <1>. QED BY <1>1, <1>5, <1>6, <1>7 DEF OnImages

(* A session that holds an object knows the image of its destructor.       *)
LEMMA ObjsStep ==
    ASSUME LdrInv, Orderly, NEW t \in Thread, BesideImages(t)
    PROVE  ObjsKnown' /\ ObjsGone'
  <1>. USE DEF Closing
  <1>0. /\ CountInv /\ TypeOK
        /\ \A o \in Obj : refs[o] \subseteq Session /\ \A r \in refs[o] : dtor[o] \in known[r]
        /\ \A u \in Thread : pc[u] = "closeImages" =>
              \A o \in Obj : ses[u] \notin refs[o]
    BY DEF LdrInv, CountInv, TypeOK, ObjsKnown, ObjsGone
  <1>1. CASE \/ ReturnFromCode(t) \/ CloseDtorReturns(t) \/ CloseDone(t)
             \/ \E s \in Session : OpenSession(s) \/ CloseSession(t, s) \/ CallVMMR0(t, s)
             \/ \E s \in Session, i \in Image : CallService(t, s, i)
    <2>1. UNCHANGED objVars /\ known' = known
      BY <1>1 DEF ReturnFromCode, CloseDtorReturns, CloseDone, OpenSession, CloseSession, CallVMMR0,
                  CallService, imgVars
    <2>2. \E l, s, i : Moves(t, l, s, i) /\ (l = "closeImages" => pc[t] = l /\ s = ses[t])
      <3>1. CASE ReturnFromCode(t) \/ CloseDone(t)
        BY <1>0, <3>1, GotoMoves DEF ReturnFromCode, CloseDone
      <3>2. CASE CloseDtorReturns(t)
        BY <1>0, <3>2, GotoMoves DEF CloseDtorReturns
      <3>3. CASE \E s \in Session : OpenSession(s)
        BY <1>0, <3>3, GotoMoves DEF OpenSession
      <3>4. CASE \E s \in Session : CloseSession(t, s) \/ CallVMMR0(t, s)
        BY <1>0, <3>4, GotoMoves DEF CloseSession, CallVMMR0
      <3>5. CASE \E s \in Session, i \in Image : CallService(t, s, i)
        BY <1>0, <3>5, GotoMoves DEF CallService
      <3>. QED BY <1>1, <3>1, <3>2, <3>3, <3>4, <3>5
    <2>3. ObjsKnown'
      BY <1>0, <2>1 DEF ObjsKnown, objVars
    <2>4. ObjsGone'
      BY <1>0, <2>1, <2>2 DEF ObjsGone, objVars, Moves
    <2>. QED BY <2>3, <2>4
  <1>2. CASE CloseImages(t)
    <2>1. UNCHANGED objVars /\ known' = known /\ Moves(t, "closeImages", ses[t], NONE)
          /\ \A o \in Obj : ses[t] \notin refs[o]
      BY <1>0, <1>2, GotoMoves DEF CloseImages, imgVars, ObjsClosed
    <2>2. ObjsKnown'
      BY <1>0, <2>1 DEF ObjsKnown, objVars
    <2>3. ObjsGone'
      BY <1>0, <2>1 DEF ObjsGone, objVars, Moves
    <2>. QED BY <2>2, <2>3
  <1>3. ASSUME NEW o \in Obj, RegisterObj(t, o) PROVE ObjsKnown' /\ ObjsGone'
    <2>1. /\ known' = known /\ UNCHANGED thrVars /\ pc[t] \in {"vmmr0", "service"}
          /\ im[t] \in known[ses[t]]
          /\ \A r \in refs[o] : dtor[o] = im[t]
          /\ \A p \in Obj : p # o => dtor'[p] = dtor[p] /\ refs'[p] = refs[p]
          /\ dtor'[o] = im[t] /\ refs'[o] = refs[o] \cup {ses[t]}
      BY <1>0, <1>3 DEF RegisterObj, imgVars, TypeOK, LdrInv, InsideKnown, InCode
    <2>2. ObjsKnown'
      BY <1>0, <2>1 DEF ObjsKnown
    <2>3. \A u \in Thread : pc[u] = "closeImages" => ses[t] # ses[u]
      BY <2>1 DEF LdrInv, ClosingAlone
    <2>4. ObjsGone'
      BY <1>0, <2>1, <2>3 DEF ObjsGone, thrVars
    <2>. QED BY <2>2, <2>4
  <1>4. ASSUME NEW s \in Session, NEW o \in Obj, NEW run \in {"dtor", "closeDtor"},
               NEW return \in {"idle", "closeObjs"}, Unref(t, s, o, run, return)
        PROVE  ObjsKnown' /\ ObjsGone'
    <2>1. /\ known' = known
          /\ \A p \in Obj : refs'[p] \subseteq refs[p]
          /\ \A p \in Obj : refs'[p] # {} => dtor'[p] = dtor[p]
      BY <1>0, <1>4 DEF Unref, imgVars, TypeOK
    <2>2. \E l, r, i : Moves(t, l, r, i) /\ l # "closeImages"
      BY <1>0, <1>4, GotoMoves DEF Unref
    <2>3. ObjsKnown'
      BY <1>0, <2>1 DEF ObjsKnown
    <2>4. ObjsGone'
      BY <1>0, <2>1, <2>2 DEF ObjsGone, Moves
    <2>. QED BY <2>3, <2>4
  <1>5. ASSUME NEW o \in Obj, CloseObj(t, o) PROVE ObjsKnown' /\ ObjsGone'
    <2>. DEFINE s == ses[t]
    <2>1. s \in Session /\ Unref(t, s, o, "closeDtor", "closeObjs")
      BY <1>5 DEF CloseObj, LdrInv, CountInv, CallsNamed
    <2>. HIDE DEF s
    <2>. QED BY <1>4, <2>1
  <1>6. ASSUME NEW s \in Session, NEW o \in Obj, ObjRelease(t, s, o) PROVE ObjsKnown' /\ ObjsGone'
    BY <1>4, <1>6 DEF ObjRelease
  <1>. QED BY <1>1, <1>2, <1>3, <1>5, <1>6 DEF BesideImages

(* The same for the steps on images, which leave the objects alone.        *)
LEMMA ImageStep ==
    ASSUME LdrInv, Orderly, NEW t \in Thread, OnImages(t)
    PROVE  KnownIsLoaded' /\ InsideKnown' /\ ObjsKnown' /\ ObjsGone'
  <1>0. TypeOK
    BY DEF LdrInv, CountInv
  <1>1. KnownIsLoaded'
    BY KnownStep, KnownInit, KnownOpen, KnownFree, KnownLoads DEF OnImages
  <1>2. \E l, s, i : /\ Moves(t, l, s, i)
                     /\ l \in InCode => pc[t] = l /\ s = ses[t] /\ i = im[t]
                     /\ l = "closeImages" => pc[t] = l /\ s = ses[t]
    <2>1. CASE ModuleInit(t)
      BY <1>0, <2>1, GotoMoves DEF ModuleInit, InCode
    <2>2. CASE \/ \E i \in Image : CloseImage(t, i)
               \/ \E s \in Session, i \in Image : LdrOpen(t, s, i) \/ LdrLoadAgain(t, s, i) \/ LdrFree(t, s, i)
      <3>1. UNCHANGED thrVars
        BY <2>2 DEF CloseImage, LdrOpen, LdrLoadAgain, LdrFree
      <3>. QED BY <1>0, <3>1, GotoMoves
    <2>3. ASSUME NEW s \in Session, NEW i \in Image, NEW ep \in {"NOTHING", "VMMR0", "SERVICE"}, NEW base \in BOOLEAN, LdrLoad(t, s, i, ep, base)
          PROVE  Moves(t, "init", s, i)
      BY <1>0, <2>3, GotoMoves DEF LdrLoad
    <2>. QED BY <2>1, <2>2, <2>3 DEF InCode, OnImages
  <1>3. /\ refs' = refs
        /\ \A u \in Thread : pc[u] \in InCode => im[u] \in known'[ses[u]]
        /\ \A o \in Obj : \A r \in refs[o] : dtor'[o] \in known'[r]
    BY KnownLeft
  <1>4. PICK l, s, i : /\ Moves(t, l, s, i)
                       /\ l \in InCode => pc[t] = l /\ s = ses[t] /\ i = im[t]
                       /\ l = "closeImages" => pc[t] = l /\ s = ses[t]
    BY <1>2
  <1>5. \A u \in Thread :
            /\ pc'[u] \in InCode => pc[u] = pc'[u] /\ ses'[u] = ses[u] /\ im'[u] = im[u]
            /\ pc'[u] = "closeImages" => pc[u] = pc'[u] /\ ses'[u] = ses[u]
    BY <1>4 DEF Moves
  <1>6. InsideKnown'
    BY <1>3, <1>5 DEF InsideKnown
  <1>7. ObjsKnown'
    BY <1>3 DEF ObjsKnown
  <1>8. ObjsGone'
    BY <1>3, <1>5 DEF LdrInv, ObjsGone
  <1>. QED BY <1>1, <1>6, <1>7, <1>8

LEMMA InitLdr == Init => LdrInv
  BY InitCounts DEF Init, LdrInv, KnownIsLoaded, LoadingUnknown, ClosingAlone, ObjsGone, InsideKnown,
                    ObjsKnown, InCode

LEMMA NextLdr ==
    ASSUME Orderly, LdrInv, [Next]_vars
    PROVE  LdrInv'
  <1>1. CountInv'
    BY NextCounts DEF LdrInv
  <1>2. CASE UNCHANGED vars
    <2>1. UNCHANGED <<open, imgVars, objVars, thrVars>>
      BY <1>2 DEF vars
    <2>2. KnownIsLoaded'
      BY <2>1, KnownSame DEF LdrInv
    <2>. QED BY <1>1, <2>1, <2>2 DEF imgVars, objVars, thrVars, LdrInv, LoadingUnknown, ClosingAlone,
                                     ObjsGone, InsideKnown, ObjsKnown
  <1>3. CASE Next
    <2>1. PICK t \in Thread : Step(t)
      BY <1>3 DEF Next, Step, OnImages, BesideImages
    <2>2. ClosingAlone'
      BY <2>1, AloneStep
    <2>3. CASE OnImages(t)
      BY <1>1, <2>2, <2>3, UnknownStep, ImageStep DEF LdrInv
    <2>4. CASE BesideImages(t)
      <3>1. UNCHANGED imgVars
        BY <2>4, QuietMoves
      <3>2. PICK l, s, i : /\ Moves(t, l, s, i)
                           /\ l = "init" => pc[t] = "init" /\ i = im[t]
                           /\ l \in InCode => i \in known[s]
        BY <2>4, QuietMoves
      <3>3. KnownIsLoaded'
        BY <3>1, KnownSame DEF LdrInv
      <3>4. LoadingUnknown'
        BY <3>1, <3>2 DEF LdrInv, LoadingUnknown, Moves, imgVars
      <3>5. InsideKnown'
        BY <3>1, <3>2 DEF LdrInv, InsideKnown, Moves, imgVars
      <3>6. ObjsKnown' /\ ObjsGone'
        BY <2>4, ObjsStep
      <3>. QED BY <1>1, <2>2, <3>3, <3>4, <3>5, <3>6 DEF LdrInv
    <2>. QED BY <2>1, <2>3, <2>4 DEF Step
  <1>. QED BY <1>2, <1>3

LEMMA LdrKept ==
    ASSUME Orderly
    PROVE  Spec => []LdrInv
  <1>1. LdrInv /\ [Next]_vars => LdrInv'
    BY NextLdr
  <1>. QED BY <1>1, InitLdr, PTL DEF Spec

(* Code runs only in images that are loaded and initialised, if clients    *)
(* call only what they know and free nothing under their own threads: what *)
(* a process knows is loaded, and a call, an entry point or the destructor *)
(* of an object is always in an image that its session knows.              *)
THEOREM CodeStaysLoaded ==
    ASSUME Orderly
    PROVE  Spec => []CodeIsLoaded
  <1>1. LdrInv => CodeIsLoaded
    BY DEF LdrInv, CountInv, CallsNamed, KnownIsLoaded, LoadingUnknown, InsideKnown, CodeIsLoaded, InCode
  <1>. QED BY <1>1, LdrKept, PTL

(* The same for destructors: supdrvLdrFree never finds a linked object     *)
(* whose destructor is in the image it frees.                              *)
THEOREM NoObjectDangles ==
    ASSUME Orderly
    PROVE  Spec => []NoDanglingObject
  <1>1. ASSUME LdrInv, NEW o \in Obj, refs[o] # {} PROVE dtor[o] # NONE
    <2>1. PICK r \in refs[o] : r \in Session /\ dtor[o] \in known[r] /\ known[r] \subseteq Image
      BY <1>1 DEF LdrInv, CountInv, TypeOK, ObjsKnown
    <2>. QED BY <2>1, LdrAssumption
  <1>2. LdrInv => NoDanglingObject
    BY <1>1 DEF NoDanglingObject
  <1>. QED BY <1>2, LdrKept, PTL

=============================================================================
