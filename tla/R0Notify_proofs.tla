---------------------------- MODULE R0Notify_proofs ----------------------------
(***************************************************************************)
(* No event touches what is gone (NothingDangles), and every event calls   *)
(* every callback once (EveryoneOnce), for any number of events, clients,  *)
(* keys, records and bits, if the clients' calls for one key do not        *)
(* overlap.                                                                *)
(*                                                                         *)
(* A cursor stays good because every change of the list marks the walks    *)
(* that hold one.  The list stays good because a client is alone with its  *)
(* key between the two sections of its call: what it inserts is not there, *)
(* and what it frees is neither in the list nor in another client's hands. *)
(***************************************************************************)
EXTENDS R0Notify, SequenceTheorems, WellFoundedInduction, TLAPS

-----------------------------------------------------------------------------
(* The inductive invariant.                                                *)

Shape ==
    /\ list \in Seq(Rec)
    /\ key \in [Rec -> Key \cup {NONE}]
    /\ pc \in [Event -> {"idle", "enter", "call", "reenter"}]
    /\ pCur \in [Event -> Rec \cup {NONE}]
    /\ changed \in [Event -> BOOLEAN]
    /\ cpc \in [Client -> {"idle", "insert", "duplicate", "free"}]
    /\ what \in [Client -> Key \cup {NONE}]
    /\ rec \in [Client -> Rec \cup {NONE}]
    /\ native \in BOOLEAN /\ hSpinlock \in BOOLEAN

ListHolds ==
    /\ \A i \in DOMAIN list : key[list[i]] # NONE
    /\ IsInjective(list)

(* Every call in progress is for a key of its own; what it is about to     *)
(* insert is not there, and what it is about to free is its alone.         *)
ClientHolds(c) ==
    /\ cpc[c] # "duplicate"
    /\ cpc[c] # "idle" => native /\ what[c] \in Key
    /\ cpc[c] = "idle" => what[c] = NONE
    /\ cpc[c] = "insert" => \A i \in DOMAIN list : key[list[i]] # what[c]
    /\ cpc[c] = "free" =>
          rec[c] \in Rec /\ key[rec[c]] # NONE /\ \A i \in DOMAIN list : list[i] # rec[c]

Apart(c, d) ==
    /\ what[c] # NONE => what[c] # what[d]
    /\ cpc[c] = "free" /\ cpc[d] = "free" => rec[c] # rec[d]

ClientsHold ==
    /\ \A c \in Client : ClientHolds(c)
    /\ \A c, d \in Client : c # d => Apart(c, d)

WalkHolds(e) ==
    /\ pc[e] # "idle" => native
    /\ pc[e] \in {"call", "reenter"} /\ ~changed[e] /\ pCur[e] # NONE
          => \E i \in DOMAIN list : pCur[e] = list[i]

WalksHold == (\A e \in Event : WalkHolds(e)) /\ (native => hSpinlock)

IInv == Shape /\ ListHolds /\ ClientsHold /\ WalksHold

-----------------------------------------------------------------------------
(* Lemmas about sequences.                                                 *)

(* A set of naturals that is not empty has a least element. *)
LEMMA HasLeast ==
    ASSUME NEW T \in SUBSET Nat, T # {}
    PROVE  \E x \in T : \A y \in T : x <= y
  <1>1. \E x \in T : \A y \in T : ~(<<y, x>> \in OpToRel(<, Nat))
    BY NatLessThanWellFounded, WFMin
  <1>2. PICK x \in T : \A y \in T : ~(<<y, x>> \in OpToRel(<, Nat))
    BY <1>1
  <1>3. \A y \in T : ~(y < x)
    BY <1>2 DEF OpToRel
  <1>. QED BY <1>3

(* For finds a record of the key, if the list has one. *)
LEMMA ForFinds ==
    ASSUME NEW k \in Key, list \in Seq(Rec)
    PROVE  /\ For(k) = 0 => \A i \in DOMAIN list : key[list[i]] # k
           /\ For(k) # 0 => For(k) \in DOMAIN list /\ key[list[For(k)]] = k
  <1>. DEFINE I == {i \in 1 .. Len(list) : key[list[i]] = k}
  <1>1. For(k) = IF I # {} THEN Min(I) ELSE 0
    BY DEF For, SelectInSeq
  <1>2. DOMAIN list = 1 .. Len(list) /\ Len(list) \in Nat
    BY LenProperties
  <1>3. I # {} => Min(I) \in I
    <2>. SUFFICES ASSUME I # {} PROVE Min(I) \in I
      OBVIOUS
    <2>1. I \in SUBSET Nat
      BY <1>2
    <2>2. \E x \in I : \A y \in I : x <= y
      BY <2>1, HasLeast
    <2>. QED BY <2>2 DEF Min
  <1>4. 0 \notin I
    BY <1>2
  <1>. QED BY <1>1, <1>2, <1>3, <1>4

(* What is left of a list when the record at i is unlinked. *)
LEMMA Unlinked ==
    ASSUME NEW l \in Seq(Rec), NEW i \in DOMAIN l, IsInjective(l)
    PROVE  /\ RemoveAt(l, i) \in Seq(Rec)
           /\ IsInjective(RemoveAt(l, i))
           /\ \A j \in DOMAIN RemoveAt(l, i) :
                 RemoveAt(l, i)[j] # l[i] /\ \E m \in DOMAIN l : RemoveAt(l, i)[j] = l[m]
           /\ \A m \in DOMAIN l : m # i =>
                 \E j \in DOMAIN RemoveAt(l, i) : RemoveAt(l, i)[j] = l[m]
  <1>. DEFINE a == SubSeq(l, 1, i - 1)
              b == SubSeq(l, i + 1, Len(l))
  <1>1. /\ DOMAIN l = 1 .. Len(l) /\ Len(l) \in Nat /\ i \in Nat
        /\ i - 1 \in Int /\ i + 1 \in Int
        /\ \A j \in 1 .. Len(l) : l[j] \in Rec
    BY LenProperties, ElementOfSeq
  <1>2. /\ a \in Seq(Rec) /\ Len(a) = i - 1
        /\ \A j \in 1 .. i - 1 : a[j] = l[j]
    <2>1. \A j \in 1 .. i - 1 : l[j] \in Rec
      BY <1>1
    <2>. QED BY <1>1, <2>1, SubSeqProperties
  <1>3. /\ b \in Seq(Rec) /\ Len(b) = Len(l) - i
        /\ \A j \in 1 .. Len(l) - i : b[j] = l[j + i]
    <2>1. i + 1 \in Int /\ Len(l) \in Int /\ \A j \in i + 1 .. Len(l) : l[j] \in Rec
      BY <1>1
    <2>2. /\ b \in Seq(Rec) /\ Len(b) = IF i + 1 <= Len(l) THEN Len(l) - (i + 1) + 1 ELSE 0
          /\ \A j \in 1 .. Len(l) - (i + 1) + 1 : b[j] = l[i + 1 + j - 1]
      BY <2>1, SubSeqProperties
    <2>. HIDE DEF b
    <2>3. Len(b) = Len(l) - i
      BY <1>1, <2>2
    <2>4. ASSUME NEW j \in 1 .. Len(l) - i PROVE b[j] = l[j + i]
      <3>1. b[j] = l[i + 1 + j - 1]
        BY <1>1, <2>2
      <3>2. i + 1 + j - 1 = j + i
        BY <1>1
      <3>. QED BY <3>1, <3>2
    <2>. QED BY <2>2, <2>3, <2>4
  <1>. DEFINE r == a \o b
  <1>4. /\ r \in Seq(Rec) /\ DOMAIN r = 1 .. Len(l) - 1
        /\ \A j \in 1 .. Len(l) - 1 : r[j] = l[IF j < i THEN j ELSE j + 1]
    <2>. HIDE DEF a, b
    <2>1. /\ r \in Seq(Rec) /\ Len(r) = Len(a) + Len(b)
          /\ \A j \in 1 .. Len(a) + Len(b) : r[j] = IF j <= Len(a) THEN a[j] ELSE b[j - Len(a)]
      BY <1>2, <1>3, ConcatProperties, Zenon
    <2>. HIDE DEF r
    <2>2. Len(r) = Len(l) - 1 /\ DOMAIN r = 1 .. Len(l) - 1
      <3>1. Len(r) = Len(l) - 1
        <4>1. Len(r) = Len(a) + Len(b)
          BY <2>1
        <4>2. Len(a) = i - 1 /\ Len(b) = Len(l) - i
          BY <1>2, <1>3
        <4>3. Len(l) \in Nat /\ i \in Nat
          BY <1>1
        <4>. QED BY <4>1, <4>2, <4>3
      <3>2. DOMAIN r = 1 .. Len(r)
        BY <2>1, LenProperties
      <3>. QED BY <3>1, <3>2
    <2>0. /\ Len(a) + Len(b) = Len(l) - 1
          /\ \A j \in 1 .. Len(l) - 1 : r[j] = IF j <= i - 1 THEN a[j] ELSE b[j - (i - 1)]
      <3>1. Len(a) = i - 1 /\ Len(a) + Len(b) = Len(l) - 1
        BY <1>1, <1>2, <1>3
      <3>. QED BY <2>1, <3>1, Zenon
    <2>3. ASSUME NEW j \in 1 .. Len(l) - 1 PROVE r[j] = l[IF j < i THEN j ELSE j + 1]
      <3>0. r[j] = IF j <= i - 1 THEN a[j] ELSE b[j - (i - 1)]
        BY <2>0
      <3>1. CASE j < i
        <4>1. j <= i - 1 /\ j \in 1 .. i - 1
          BY <1>1, <3>1
        <4>. QED BY <1>2, <3>0, <3>1, <4>1
      <3>2. CASE ~(j < i)
        <4>1. r[j] = b[j - (i - 1)]
          BY <1>1, <3>0, <3>2
        <4>2. j - (i - 1) \in 1 .. Len(l) - i
          BY <1>1, <3>2
        <4>3. b[j - (i - 1)] = l[j - (i - 1) + i]
          BY <1>3, <4>2
        <4>4. j - (i - 1) + i = j + 1
          BY <1>1
        <4>. QED BY <3>2, <4>1, <4>3, <4>4
      <3>. QED BY <3>1, <3>2
    <2>. QED BY <2>1, <2>2, <2>3
  <1>5. RemoveAt(l, i) = r
    BY DEF RemoveAt
  <1>. HIDE DEF r
  <1>6. IsInjective(r)
    <2>1. ASSUME NEW j \in 1 .. Len(l) - 1, NEW m \in 1 .. Len(l) - 1, r[j] = r[m] PROVE j = m
      <3>. DEFINE jj == IF j < i THEN j ELSE j + 1
                  mm == IF m < i THEN m ELSE m + 1
      <3>1. jj \in DOMAIN l /\ mm \in DOMAIN l
        BY <1>1
      <3>2. l[jj] = l[mm]
        BY <1>4, <2>1
      <3>3. jj = mm
        <4>. HIDE DEF jj, mm
        <4>. QED BY <3>1, <3>2 DEF IsInjective
      <3>. QED BY <1>1, <3>3
    <2>. QED BY <1>4, <2>1 DEF IsInjective
  <1>7. ASSUME NEW m \in DOMAIN l, m # i PROVE \E j \in DOMAIN r : r[j] = l[m]
    <2>1. CASE m < i
      <3>1. m \in 1 .. Len(l) - 1
        BY <1>1, <2>1
      <3>. QED BY <1>4, <2>1, <3>1
    <2>2. CASE ~(m < i)
      <3>1. m - 1 \in 1 .. Len(l) - 1 /\ ~(m - 1 < i) /\ m - 1 + 1 = m
        BY <1>1, <1>7, <2>2
      <3>. QED BY <1>4, <3>1
    <2>. QED BY <2>1, <2>2
  <1>8. \A j \in DOMAIN r : r[j] # l[i] /\ \E m \in DOMAIN l : r[j] = l[m]
    BY SMTT(30), <1>1, <1>4 DEF IsInjective
  <1>. QED BY <1>4, <1>5, <1>6, <1>7, <1>8

-----------------------------------------------------------------------------
(* The walks.                                                              *)

(* Every record of todo is in the list. *)
OfList(todo) == \A i \in DOMAIN todo : \E j \in DOMAIN list : todo[i] = list[j]

(* The event moves to l with cursor p and flag g. *)
WalkTo(e, l, p, g) ==
    /\ pc' = [pc EXCEPT ![e] = l]
    /\ pCur' = [pCur EXCEPT ![e] = p]
    /\ changed' = [changed EXCEPT ![e] = g]

(* Where a walk of records of the list gets. *)
LEMMA WalkGets ==
    ASSUME NEW e \in Event, NEW todo \in Seq(Rec), OfList(todo), NEW done,
           Shape, Walk(e, todo, done)
    PROVE  \/ WalkTo(e, "idle", NONE, FALSE)
           \/ WalkTo(e, "call", NONE, FALSE)
           \/ \E j \in DOMAIN list : WalkTo(e, "call", list[j], FALSE)
  <1>. DEFINE Open == {i \in DOMAIN todo : iDone[e] \notin done[todo[i]]}
              first == CHOOSE j \in Open : \A k \in Open : j <= k
  <1>1. CASE Open = {}
    BY <1>1 DEF Walk, Over, WalkTo
  <1>2. CASE Open # {}
    <2>1. DOMAIN todo = 1 .. Len(todo) /\ Len(todo) \in Nat
      BY LenProperties
    <2>2. first \in DOMAIN todo
      <3>1. Open \in SUBSET Nat
        BY <2>1
      <3>2. \E j \in Open : \A k \in Open : j <= k
        <4>. HIDE DEF Open
        <4>. QED BY <1>2, <3>1, HasLeast
      <3>. QED BY <3>2
    <2>3. /\ pc' = [pc EXCEPT ![e] = "call"]
          /\ changed' = [changed EXCEPT ![e] = FALSE]
          /\ pCur' = [pCur EXCEPT ![e] = IF first = Len(todo) THEN NONE ELSE todo[first + 1]]
      BY <1>2 DEF Walk
    <2>. HIDE DEF first
    <2>4. CASE first = Len(todo)
      BY <2>3, <2>4 DEF WalkTo
    <2>5. CASE first # Len(todo)
      <3>1. first + 1 \in DOMAIN todo
        BY <2>1, <2>2, <2>5
      <3>2. PICK j \in DOMAIN list : todo[first + 1] = list[j]
        BY <3>1 DEF OfList
      <3>. QED BY <2>3, <2>5, <3>2 DEF WalkTo
    <2>. QED BY <2>4, <2>5
  <1>. QED BY <1>1, <1>2

(* A walk starts at the head, or goes on with records of the list. *)
LEMMA FromOfList ==
    ASSUME NEW p, Shape
    PROVE  From(p) \in Seq(Rec) /\ OfList(From(p))
  <1>. DEFINE I == {i \in 1 .. Len(list) : list[i] = p}
              i0 == IF I # {} THEN Min(I) ELSE 0
  <1>0. /\ list \in Seq(Rec) /\ DOMAIN list = 1 .. Len(list) /\ Len(list) \in Nat
        /\ \A i \in 1 .. Len(list) : list[i] \in Rec
    BY LenProperties, ElementOfSeq DEF Shape
  <1>1. From(p) = IF i0 = 0 THEN <<>> ELSE SubSeq(list, i0, Len(list))
    BY DEF From, SelectInSeq
  <1>2. i0 = 0 \/ i0 \in 1 .. Len(list)
    <2>. SUFFICES ASSUME I # {} PROVE Min(I) \in I
      OBVIOUS
    <2>1. I \in SUBSET Nat
      BY <1>0
    <2>2. \E x \in I : \A y \in I : x <= y
      BY <2>1, HasLeast
    <2>. QED BY <2>2 DEF Min
  <1>. HIDE DEF i0
  <1>3. CASE i0 = 0
    <2>1. From(p) = <<>>
      BY <1>1, <1>3
    <2>2. <<>> \in Seq(Rec) /\ Len(<<>>) = 0
      BY EmptySeq
    <2>3. DOMAIN <<>> = {}
      OBVIOUS
    <2>. QED BY <2>1, <2>2, <2>3 DEF OfList
  <1>4. CASE i0 \in 1 .. Len(list)
    <2>. DEFINE t == SubSeq(list, i0, Len(list))
    <2>1. From(p) = t
      BY <1>1, <1>4
    <2>2. i0 \in Int /\ Len(list) \in Int /\ \A i \in i0 .. Len(list) : list[i] \in Rec
      BY <1>0, <1>4
    <2>3. /\ t \in Seq(Rec) /\ Len(t) = IF i0 <= Len(list) THEN Len(list) - i0 + 1 ELSE 0
          /\ \A i \in 1 .. Len(list) - i0 + 1 : t[i] = list[i0 + i - 1]
      BY <2>2, SubSeqProperties
    <2>4. DOMAIN t = 1 .. Len(t)
      BY <2>3, LenProperties
    <2>. HIDE DEF t
    <2>5. ASSUME NEW i \in DOMAIN t PROVE \E j \in DOMAIN list : t[i] = list[j]
      <3>1. i \in 1 .. Len(list) - i0 + 1
        BY <1>0, <1>4, <2>3, <2>4
      <3>2. t[i] = list[i0 + i - 1]
        BY <2>3, <3>1
      <3>3. i0 + i - 1 \in 1 .. Len(list)
        BY <1>4, <2>2, <3>1
      <3>. QED BY <1>0, <3>2, <3>3
    <2>. QED BY <2>1, <2>3, <2>5 DEF OfList
  <1>. QED BY <1>2, <1>3, <1>4

-----------------------------------------------------------------------------
(* The steps of an event change nothing but its walk. *)

LEMMA WalkKeeps ==
    ASSUME IInv, NEW e \in Event, native,
           NEW l \in {"idle", "enter", "call", "reenter"}, NEW p \in Rec \cup {NONE}, NEW g \in BOOLEAN,
           WalkTo(e, l, p, g),
           l \in {"call", "reenter"} /\ ~g /\ p # NONE => \E j \in DOMAIN list : p = list[j],
           UNCHANGED <<native, hSpinlock, list, key, calls>>
    PROVE  IInv'
  <1>1. Shape'
    BY DEF IInv, Shape, WalkTo, calls
  <1>2. ListHolds'
    BY DEF IInv, ListHolds
  <1>3. ClientsHold'
    BY DEF IInv, ClientsHold, ClientHolds, Apart, calls
  <1>4. WalksHold'
    <2>1. ASSUME NEW f \in Event PROVE WalkHolds(f)'
      BY DEF IInv, Shape, WalksHold, WalkHolds, WalkTo
    <2>. QED BY <2>1 DEF IInv, WalksHold
  <1>. QED BY <1>1, <1>2, <1>3, <1>4 DEF IInv

LEMMA EventKeeps ==
    ASSUME IInv, NEW e \in Event, Begin(e) \/ Deliver(e)
    PROVE  IInv'
  <1>0. /\ pc[e] # "idle" => native
        /\ list \in Seq(Rec) /\ OfList(list)
        /\ pCur[e] \in Rec \cup {NONE} /\ changed[e] \in BOOLEAN
    BY DEF IInv, Shape, WalksHold, WalkHolds, OfList
  <1>1. ASSUME NEW todo \in Seq(Rec), OfList(todo), NEW done, Walk(e, todo, done), native,
               UNCHANGED <<native, hSpinlock, list, key, calls>>
        PROVE  IInv'
    <2>1. \/ WalkTo(e, "idle", NONE, FALSE)
          \/ WalkTo(e, "call", NONE, FALSE)
          \/ \E j \in DOMAIN list : WalkTo(e, "call", list[j], FALSE)
      BY <1>1, WalkGets DEF IInv
    <2>2. CASE WalkTo(e, "idle", NONE, FALSE) \/ WalkTo(e, "call", NONE, FALSE)
      BY <1>1, <2>2, WalkKeeps
    <2>3. ASSUME NEW j \in DOMAIN list, WalkTo(e, "call", list[j], FALSE) PROVE IInv'
      <3>1. list[j] \in Rec
        BY <1>0, LenProperties, ElementOfSeq
      <3>. QED BY <1>1, <2>3, <3>1, WalkKeeps
    <2>. QED BY <2>1, <2>2, <2>3
  <1>2. CASE Begin(e)
    <2>1. WalkTo(e, "enter", pCur[e], changed[e])
      BY <1>2 DEF Begin, WalkTo, IInv, Shape
    <2>2. native /\ UNCHANGED <<native, hSpinlock, list, key, calls>>
      BY <1>2 DEF Begin, lists
    <2>. QED BY <1>0, <2>1, <2>2, WalkKeeps
  <1>3. CASE Enter(e)
    <2>1. pc[e] # "idle" /\ UNCHANGED <<native, hSpinlock, list, key, calls>> /\ Walk(e, list, Cleared(iDone[e]))
      BY <1>3 DEF Enter
    <2>. QED BY <1>0, <1>1, <2>1
  <1>4. CASE Call(e)
    <2>1. pc[e] = "call" /\ UNCHANGED <<native, hSpinlock, list, key, calls>>
      BY <1>4 DEF Call, lists
    <2>2. \/ WalkTo(e, "reenter", pCur[e], changed[e])
          \/ WalkTo(e, "idle", NONE, FALSE)
      BY <1>4 DEF Call, Over, WalkTo, IInv, Shape
    <2>3. ~changed[e] /\ pCur[e] # NONE => \E j \in DOMAIN list : pCur[e] = list[j]
      BY <2>1 DEF IInv, WalksHold, WalkHolds
    <2>4. CASE WalkTo(e, "reenter", pCur[e], changed[e])
      BY <1>0, <2>1, <2>3, <2>4, WalkKeeps
    <2>5. CASE WalkTo(e, "idle", NONE, FALSE)
      BY <1>0, <2>1, <2>5, WalkKeeps
    <2>. QED BY <2>2, <2>4, <2>5
  <1>5. CASE Reenter(e)
    <2>1. /\ pc[e] = "reenter" /\ UNCHANGED <<native, hSpinlock, list, key, calls>>
          /\ Walk(e, Resume(e), bmDone)
      BY <1>5 DEF Reenter
    <2>2. Resume(e) \in Seq(Rec) /\ OfList(Resume(e))
      BY <1>0, FromOfList DEF Resume, IInv
    <2>. QED BY <1>0, <1>1, <2>1, <2>2
  <1>. QED BY <1>2, <1>3, <1>4, <1>5 DEF Deliver

-----------------------------------------------------------------------------
(* Start and stop of the runtime: the native notifier goes when nobody is  *)
(* in a call or an event, and the list and the lock after it.              *)

LEMMA RuntimeKeeps ==
    ASSUME IInv, R0Init \/ R0Leave \/ NativeTerm \/ NotificationTerm
    PROVE  IInv'
  <1>1. CASE R0Init \/ R0Leave \/ NativeTerm
    <2>1. UNCHANGED <<list, key, pc, pCur, changed, cpc, what, rec>>
      BY <1>1 DEF R0Init, R0Leave, NativeTerm, lists, walks, calls
    <2>2. /\ native' \in BOOLEAN /\ hSpinlock' \in BOOLEAN
          /\ native' => hSpinlock'
          /\ native /\ ~native' => (\A c \in Client : cpc[c] = "idle") /\ (\A e \in Event : pc[e] = "idle")
      <3>. USE DEF IInv, Shape, WalksHold
      <3>1. CASE R0Init
        BY <3>1 DEF R0Init
      <3>2. CASE R0Leave
        BY <3>2 DEF R0Leave
      <3>3. CASE NativeTerm
        BY <3>3 DEF NativeTerm, ClientsIdle
      <3>. QED BY <1>1, <3>1, <3>2, <3>3
    <2>3. Shape' /\ ListHolds'
      BY <2>1, <2>2 DEF IInv, Shape, ListHolds
    <2>4. ClientsHold'
      BY <2>1, <2>2 DEF IInv, Shape, ClientsHold, ClientHolds, Apart
    <2>5. WalksHold'
      BY <2>1, <2>2 DEF IInv, Shape, WalksHold, WalkHolds
    <2>. QED BY <2>3, <2>4, <2>5 DEF IInv
  <1>2. CASE NotificationTerm
    <2>1. /\ ~native /\ list' = <<>>
          /\ UNCHANGED <<native, pc, pCur, cpc, what, rec>> /\ hSpinlock' = FALSE
          /\ key' = [r \in Rec |-> IF r \in ToSet(list) THEN NONE ELSE key[r]]
          /\ changed' = [e \in Event |-> pc[e] \in {"call", "reenter"}]
      BY <1>2 DEF NotificationTerm, NewGeneration, calls
    <2>2. (\A e \in Event : pc[e] = "idle") /\ (\A c \in Client : cpc[c] = "idle")
      BY <2>1 DEF IInv, WalksHold, WalkHolds, ClientsHold, ClientHolds
    <2>3. list' \in Seq(Rec) /\ DOMAIN list' = {}
      BY <2>1, EmptySeq
    <2>4. Shape'
      <3>1. key' \in [Rec -> Key \cup {NONE}] /\ changed' \in [Event -> BOOLEAN]
        BY <2>1 DEF IInv, Shape
      <3>. QED BY <2>1, <2>3, <3>1 DEF IInv, Shape
    <2>5. ListHolds'
      BY <2>3 DEF ListHolds, IsInjective
    <2>6. ClientsHold'
      BY <2>1, <2>2 DEF IInv, ClientsHold, ClientHolds, Apart
    <2>7. WalksHold'
      BY <2>1, <2>2 DEF WalksHold, WalkHolds
    <2>. QED BY <2>4, <2>5, <2>6, <2>7 DEF IInv
  <1>. QED BY <1>1, <1>2

-----------------------------------------------------------------------------
(* The steps of a client.                                                  *)

(* A step that changes the list marks every walk that has a cursor. *)
LEMMA NewGenerationKeeps ==
    ASSUME WalksHold, Shape, NewGeneration, UNCHANGED <<native, hSpinlock, pc, pCur>>
    PROVE  WalksHold' /\ changed' \in [Event -> BOOLEAN]
  BY DEF WalksHold, WalkHolds, Shape, NewGeneration

LEMMA RegisterKeeps ==
    ASSUME IInv, Serialised, NEW c \in Client, NEW k \in Key, Register(c, k), NotifyAssumption
    PROVE  IInv'
  <1>1. /\ native /\ cpc[c] = "idle" /\ For(k) = 0 /\ \A d \in Client : what[d] # k
        /\ SetClient(c, "insert", k, NONE)
        /\ UNCHANGED <<native, hSpinlock, list, key, pc, pCur, changed>>
    BY DEF Register, MayCall, lists, walks
  <1>2. \A i \in DOMAIN list : key[list[i]] # k
    BY <1>1, ForFinds DEF IInv, Shape
  <1>3. Shape' /\ ListHolds'
    BY <1>1 DEF IInv, Shape, ListHolds, SetClient
  <1>4. ClientsHold'
    <2>1. ASSUME NEW d \in Client PROVE ClientHolds(d)'
      BY <1>1, <1>2, <2>1 DEF IInv, Shape, ClientsHold, ClientHolds, SetClient
    <2>2. ASSUME NEW d \in Client, NEW f \in Client, d # f PROVE Apart(d, f)'
      BY <1>1, <2>2 DEF IInv, Shape, ClientsHold, Apart, SetClient
    <2>. QED BY <2>1, <2>2 DEF ClientsHold
  <1>5. WalksHold'
    BY <1>1 DEF IInv, WalksHold, WalkHolds
  <1>. QED BY <1>3, <1>4, <1>5 DEF IInv

LEMMA ReturnKeeps ==
    ASSUME IInv, NEW c \in Client, NoMemory(c) \/ Free(c), NotifyAssumption
    PROVE  IInv'
  <1>1. /\ ClientReturns(c)
        /\ UNCHANGED <<native, hSpinlock, list, pc, pCur, changed>>
        /\ key' = key \/ (cpc[c] = "free" /\ key' = [key EXCEPT ![rec[c]] = NONE])
    BY DEF NoMemory, Free, lists, walks, IInv, ClientsHold, ClientHolds
  <1>2. Shape'
    BY <1>1 DEF IInv, Shape, ClientReturns, SetClient
  <1>3. ListHolds'
    <2>1. cpc[c] = "free" => \A i \in DOMAIN list : list[i] # rec[c] /\ list[i] \in Rec
      BY ElementOfSeq, LenProperties DEF IInv, Shape, ClientsHold, ClientHolds
    <2>2. \A i \in DOMAIN list : key'[list[i]] # NONE
      BY <1>1, <2>1 DEF IInv, Shape, ListHolds
    <2>. QED BY <1>1, <2>2 DEF IInv, ListHolds
  <1>4. \A i \in DOMAIN list : key'[list[i]] = key[list[i]]
    BY <1>1, ElementOfSeq, LenProperties DEF IInv, Shape, ClientsHold, ClientHolds
  <1>5. ClientsHold'
    <2>1. ASSUME NEW d \in Client PROVE ClientHolds(d)'
      <3>1. CASE d = c
        BY <1>1, <3>1 DEF IInv, Shape, ClientHolds, ClientReturns, SetClient
      <3>2. CASE d # c
        <4>1. ClientHolds(d) /\ Apart(c, d) /\ cpc'[d] = cpc[d] /\ what'[d] = what[d] /\ rec'[d] = rec[d]
          BY <1>1, <3>2 DEF IInv, Shape, ClientsHold, ClientReturns, SetClient
        <4>2. cpc[d] = "free" => key'[rec[d]] = key[rec[d]]
          BY <1>1, <4>1 DEF IInv, Shape, ClientHolds, Apart
        <4>. QED BY <1>1, <1>4, <4>1, <4>2 DEF ClientHolds
      <3>. QED BY <3>1, <3>2
    <2>2. ASSUME NEW d \in Client, NEW f \in Client, d # f PROVE Apart(d, f)'
      BY <1>1, <2>2 DEF IInv, Shape, ClientsHold, Apart, ClientReturns, SetClient
    <2>. QED BY <2>1, <2>2 DEF ClientsHold
  <1>6. WalksHold'
    BY <1>1 DEF IInv, WalksHold, WalkHolds
  <1>. QED BY <1>2, <1>3, <1>5, <1>6 DEF IInv

LEMMA DeregisterKeeps ==
    ASSUME IInv, Serialised, NEW c \in Client, NEW k \in Key, Deregister(c, k), NotifyAssumption
    PROVE  IInv'
  <1>. DEFINE n == For(k)
              x == list[n]
              l == RemoveAt(list, n)
  <1>1. /\ native /\ cpc[c] = "idle" /\ n # 0 /\ \A d \in Client : what[d] # k
        /\ list' = l /\ SetClient(c, "free", k, x)
        /\ NewGeneration
        /\ UNCHANGED <<native, hSpinlock, key, pc, pCur>>
    BY DEF Deregister, MayCall
  <1>2. n \in DOMAIN list /\ key[x] = k
    BY <1>1, ForFinds DEF IInv, Shape
  <1>3. x \in Rec /\ key[x] # NONE
    <2>1. x \in Rec
      BY <1>2, ElementOfSeq, LenProperties DEF IInv, Shape
    <2>. QED BY <1>2, <2>1 DEF NotifyAssumption
  <1>4. /\ l \in Seq(Rec) /\ IsInjective(l)
        /\ \A j \in DOMAIN l : l[j] # x /\ \E m \in DOMAIN list : l[j] = list[m]
    BY <1>2, Unlinked DEF IInv, Shape, ListHolds
  <1>. HIDE DEF n, x, l
  <1>5. WalksHold' /\ changed' \in [Event -> BOOLEAN]
    BY <1>1, NewGenerationKeeps DEF IInv
  <1>6. Shape'
    BY <1>1, <1>3, <1>4, <1>5 DEF IInv, Shape, SetClient
  <1>7. ListHolds'
    BY <1>1, <1>4 DEF IInv, ListHolds
  <1>8. ClientsHold'
    <2>1. ASSUME NEW d \in Client PROVE ClientHolds(d)'
      <3>1. CASE d = c
        BY <1>1, <1>3, <1>4, <3>1 DEF IInv, Shape, ClientHolds, SetClient
      <3>2. CASE d # c
        <4>1. ClientHolds(d) /\ cpc'[d] = cpc[d] /\ what'[d] = what[d] /\ rec'[d] = rec[d]
          BY <1>1, <3>2 DEF IInv, Shape, ClientsHold, SetClient
        <4>. QED BY <1>1, <1>4, <4>1 DEF ClientHolds
      <3>. QED BY <3>1, <3>2
    <2>2. \A d \in Client : d # c /\ cpc[d] = "free" => rec[d] # x
      BY <1>2 DEF IInv, ClientsHold, ClientHolds, x
    <2>3. ASSUME NEW d \in Client, NEW f \in Client, d # f PROVE Apart(d, f)'
      BY <1>1, <2>2, <2>3 DEF IInv, Shape, ClientsHold, Apart, SetClient
    <2>. QED BY <2>1, <2>3 DEF ClientsHold
  <1>. QED BY <1>5, <1>6, <1>7, <1>8 DEF IInv

LEMMA InsertKeeps ==
    ASSUME IInv, NEW c \in Client, Insert(c), NotifyAssumption
    PROVE  IInv'
  <1>. DEFINE r == FreshRec
              k == what[c]
              l == Append(list, r)
  <1>1. r \in Rec /\ key[r] = NONE
    BY DEF Insert, FreshRec
  <1>2. /\ cpc[c] = "insert" /\ native /\ k \in Key
        /\ \A i \in DOMAIN list : key[list[i]] # k
    BY DEF Insert, IInv, ClientsHold, ClientHolds
  <1>3. For(k) = 0
    BY <1>2, ForFinds DEF IInv, Shape
  <1>4. /\ key' = [key EXCEPT ![r] = k] /\ list' = l /\ ClientReturns(c) /\ NewGeneration
        /\ UNCHANGED <<native, hSpinlock, pc, pCur>>
    BY <1>3 DEF Insert
  <1>5. /\ l \in Seq(Rec) /\ Len(list) \in Nat /\ DOMAIN list = 1 .. Len(list)
        /\ DOMAIN l = 1 .. Len(list) + 1
        /\ \A i \in DOMAIN list : l[i] = list[i] /\ list[i] \in Rec
        /\ l[Len(list) + 1] = r
    BY <1>1, AppendProperties, LenProperties, ElementOfSeq DEF IInv, Shape
  <1>. HIDE DEF r, k, l
  <1>6. \A i \in DOMAIN list : list[i] # r /\ key'[list[i]] = key[list[i]]
    BY <1>1, <1>4, <1>5 DEF IInv, Shape, ListHolds
  <1>7. \A i \in DOMAIN l : (i \in DOMAIN list /\ l[i] = list[i]) \/ (i = Len(list) + 1 /\ l[i] = r)
    BY <1>5
  <1>8. k # NONE /\ key'[r] = k
    BY <1>1, <1>2, <1>4 DEF IInv, Shape, NotifyAssumption
  <1>9. WalksHold' /\ changed' \in [Event -> BOOLEAN]
    BY <1>4, NewGenerationKeeps DEF IInv
  <1>10. Shape'
    BY <1>1, <1>2, <1>4, <1>5, <1>9 DEF IInv, Shape, ClientReturns, SetClient
  <1>11. ListHolds'
    <2>1. \A i \in DOMAIN l : key'[l[i]] # NONE
      BY <1>6, <1>7, <1>8 DEF IInv, ListHolds
    <2>2. IsInjective(l)
      BY <1>5, <1>6, <1>7 DEF IInv, ListHolds, IsInjective
    <2>. QED BY <1>4, <2>1, <2>2 DEF ListHolds
  <1>12. ClientsHold'
    <2>1. ASSUME NEW d \in Client PROVE ClientHolds(d)'
      <3>1. CASE d = c
        BY <1>4, <3>1 DEF IInv, Shape, ClientHolds, ClientReturns, SetClient
      <3>2. CASE d # c
        <4>1. /\ ClientHolds(d) /\ Apart(d, c)
              /\ cpc'[d] = cpc[d] /\ what'[d] = what[d] /\ rec'[d] = rec[d]
          BY <1>4, <3>2 DEF IInv, Shape, ClientsHold, ClientReturns, SetClient
        <4>2. cpc[d] = "insert" => \A i \in DOMAIN l : key'[l[i]] # what[d]
          <5>1. cpc[d] = "insert" => what[d] # k /\ \A i \in DOMAIN list : key[list[i]] # what[d]
            BY <1>8, <4>1 DEF ClientHolds, Apart, k, NotifyAssumption
          <5>. QED BY <1>6, <1>7, <1>8, <5>1
        <4>3. cpc[d] = "free" =>
                 rec[d] \in Rec /\ key'[rec[d]] # NONE /\ \A i \in DOMAIN l : l[i] # rec[d]
          <5>1. cpc[d] = "free" => rec[d] # r
            BY <1>1, <4>1 DEF ClientHolds
          <5>. QED BY <1>4, <1>7, <4>1, <5>1 DEF IInv, Shape, ClientHolds
        <4>. QED BY <1>4, <4>1, <4>2, <4>3 DEF ClientHolds
      <3>. QED BY <3>1, <3>2
    <2>2. ASSUME NEW d \in Client, NEW f \in Client, d # f PROVE Apart(d, f)'
      BY <1>4, <2>2 DEF IInv, Shape, ClientsHold, Apart, ClientReturns, SetClient
    <2>. QED BY <2>1, <2>2 DEF ClientsHold
  <1>. QED BY <1>9, <1>10, <1>11, <1>12 DEF IInv

-----------------------------------------------------------------------------
LEMMA InitHolds == NotifyAssumption /\ Init => IInv
  <1>. SUFFICES ASSUME NotifyAssumption, Init PROVE IInv
    OBVIOUS
  <1>1. list \in Seq(Rec) /\ DOMAIN list = {}
    BY EmptySeq DEF Init
  <1>2. Shape /\ ListHolds
    BY <1>1 DEF Init, Shape, ListHolds, IsInjective
  <1>3. ClientsHold /\ WalksHold
    BY DEF Init, ClientsHold, ClientHolds, Apart, WalksHold, WalkHolds
  <1>. QED BY <1>2, <1>3 DEF IInv

LEMMA NextHolds == NotifyAssumption /\ Serialised /\ IInv /\ [Next]_vars => IInv'
  <1>. SUFFICES ASSUME NotifyAssumption, Serialised, IInv, [Next]_vars PROVE IInv'
    OBVIOUS
  <1>1. CASE UNCHANGED vars
    <2>1. UNCHANGED <<list, key, pc, pCur, changed, cpc, what, rec, native, hSpinlock>>
      BY <1>1 DEF vars, lists, walks, calls
    <2>2. Shape' /\ ListHolds' /\ WalksHold'
      BY <2>1 DEF IInv, Shape, ListHolds, WalksHold, WalkHolds
    <2>3. ClientsHold'
      BY <2>1 DEF IInv, ClientsHold, ClientHolds, Apart
    <2>. QED BY <2>2, <2>3 DEF IInv
  <1>2. CASE Next
    <2>1. ASSUME NEW e \in Event, Begin(e) \/ Deliver(e) PROVE IInv'
      BY <2>1, EventKeeps
    <2>2. ASSUME NEW c \in Client, NoMemory(c) \/ Insert(c) \/ Free(c) PROVE IInv'
      BY <2>2, ReturnKeeps, InsertKeeps
    <2>3. ASSUME NEW c \in Client, NEW k \in Key, Register(c, k) \/ Deregister(c, k) PROVE IInv'
      BY <2>3, RegisterKeeps, DeregisterKeeps
    <2>. QED BY <1>2, <2>1, <2>2, <2>3, RuntimeKeeps DEF Next
  <1>. QED BY <1>1, <1>2

(* Whatever events and clients interleave, an event that comes back from a *)
(* callback finds its spinlock and follows a cursor that is still in the   *)
(* list, and the list holds memory in use, each record once.               *)
THEOREM EventsTouchWhatIsThere ==
    ASSUME Serialised
    PROVE  Spec => []NothingDangles
  <1>1. IInv => NothingDangles
    <2>. SUFFICES ASSUME IInv PROVE NothingDangles
      OBVIOUS
    <2>1. \A e \in Event : pc[e] \in {"enter", "reenter"} => hSpinlock
      BY DEF IInv, WalksHold, WalkHolds
    <2>2. \A e \in Event : pc[e] \in {"call", "reenter"} /\ ~changed[e] /\ pCur[e] # NONE
             => pCur[e] \in ToSet(list)
      BY DEF IInv, WalksHold, WalkHolds, ToSet
    <2>. QED BY <2>1, <2>2 DEF IInv, ListHolds, NothingDangles
  <1>. QED BY <1>1, InitHolds, NextHolds, NotifyAssumption, PTL DEF Spec

-----------------------------------------------------------------------------
(***************************************************************************)
(* Every callback is told once.  A bit belongs to one event at a time, so  *)
(* an event knows whom it has visited by its bit alone: who is owed a call *)
(* has a record in the list without the bit, behind the cursor as long as  *)
(* the cursor counts; who was told has no such record, also not after it   *)
(* was deregistered and registered again, for a new record has all bits.   *)
(***************************************************************************)

WalkTypes ==
    /\ crtR0Users \in 0 .. MaxUsers
    /\ bmDone \in [Rec -> SUBSET AllBits] /\ iDoneBit \in AllBits
    /\ iDone \in [Event -> AllBits] /\ target \in [Event -> Key \cup {NONE}]
    /\ owed \in [Event -> SUBSET Key] /\ told \in [Event -> SUBSET Key]

(* Events that overlap have bits of their own. *)
BitsDiffer ==
    \A e, f \in Event :
        e # f /\ pc[e] # "idle" /\ pc[f] # "idle" => iDone[e] # iDone[f]

Visited(e, i) == iDone[e] \in bmDone[list[i]]

(* Between events nobody is owed a call. *)
NothingOwed(e) == pc[e] \in {"idle", "enter"} => owed[e] = {} /\ told[e] = {}

(* Who is owed a call is still to be visited, or is being called. *)
OwedHolds(e) ==
    \A k \in owed[e] :
        \E i \in DOMAIN list :
            key[list[i]] = k /\ (~Visited(e, i) \/ (pc[e] = "call" /\ target[e] = k))

(* Who was told, or is about to be, will not be visited again. *)
ToldHolds(e) ==
    /\ \A i \in DOMAIN list : key[list[i]] \in told[e] => Visited(e, i)
    /\ pc[e] = "call" =>
          /\ target[e] \in Key /\ target[e] \notin told[e]
          /\ \A i \in DOMAIN list : key[list[i]] = target[e] => Visited(e, i)

(* No callback is registered twice. *)
KeysDiffer == \A i, j \in DOMAIN list : key[list[i]] = key[list[j]] => i = j

(* Who is to be visited lies behind the cursor, while that counts; there   *)
(* is nobody when it is NULL, also in a list that has changed since.       *)
SkipsNone(e) ==
    pc[e] \in {"call", "reenter"} =>
        \A i \in DOMAIN list :
            ~Visited(e, i) =>
                /\ pCur[e] # NONE
                /\ ~changed[e] => \E j \in DOMAIN list : j <= i /\ list[j] = pCur[e]

Tells(e) == NothingOwed(e) /\ OwedHolds(e) /\ ToldHolds(e) /\ SkipsNone(e)

TInv == WalkTypes /\ BitsDiffer /\ KeysDiffer /\ \A e \in Event : Tells(e)

-----------------------------------------------------------------------------
(* todo is the list from its place m + 1 on. *)
Rest(todo, m) ==
    /\ m \in 0 .. Len(list) /\ Len(todo) = Len(list) - m
    /\ \A i \in 1 .. Len(todo) : todo[i] = list[m + i]

(* The walk of e, which finds the bits of done, stops at place n, *)
StopsAt(e, done, n) ==
    /\ iDone[e] \notin done[list[n]]
    /\ \A i \in DOMAIN list : i < n => iDone[e] \in done[list[i]]
    /\ pc' = [pc EXCEPT ![e] = "call"]
    /\ changed' = [changed EXCEPT ![e] = FALSE]
    /\ bmDone' = [done EXCEPT ![list[n]] = @ \cup {iDone[e]}]
    /\ target' = [target EXCEPT ![e] = key[list[n]]]
    /\ pCur' = [pCur EXCEPT ![e] = IF n = Len(list) THEN NONE ELSE list[n + 1]]
    /\ UNCHANGED <<iDone, told>>

(* or nowhere. *)
Finishes(e, done) ==
    /\ Over(e) /\ bmDone' = done
    /\ \A i \in DOMAIN list : iDone[e] \in done[list[i]]

(* A walk from place m + 1 on finds the first record without the bit. *)
LEMMA WalkStops ==
    ASSUME NEW e \in Event, NEW todo \in Seq(Rec), NEW done, NEW m, Shape, Rest(todo, m),
           \A i \in DOMAIN list : i <= m => iDone[e] \in done[list[i]],
           Walk(e, todo, done)
    PROVE  Finishes(e, done) \/ \E n \in DOMAIN list : StopsAt(e, done, n)
  <1>. DEFINE Open == {i \in DOMAIN todo : iDone[e] \notin done[todo[i]]}
              first == CHOOSE j \in Open : \A k \in Open : j <= k
  <1>0. /\ DOMAIN todo = 1 .. Len(todo) /\ Len(todo) \in Nat
        /\ DOMAIN list = 1 .. Len(list) /\ Len(list) \in Nat
    BY LenProperties DEF Shape
  <1>1. \A i \in 1 .. Len(list) : i <= m \/ (i - m \in 1 .. Len(todo) /\ list[i] = todo[i - m])
    <2>. SUFFICES ASSUME NEW i \in 1 .. Len(list), ~(i <= m)
                  PROVE  i - m \in 1 .. Len(todo) /\ list[i] = todo[i - m]
      OBVIOUS
    <2>1. m \in Nat /\ Len(todo) = Len(list) - m
      BY <1>0 DEF Rest
    <2>2. i - m \in 1 .. Len(todo) /\ m + (i - m) = i
      BY <1>0, <2>1
    <2>. QED BY <2>2 DEF Rest
  <1>2. CASE Open = {}
    <2>1. Over(e) /\ bmDone' = done
      BY <1>2 DEF Walk
    <2>2. \A i \in DOMAIN list : iDone[e] \in done[list[i]]
      BY <1>0, <1>1, <1>2
    <2>. QED BY <2>1, <2>2 DEF Finishes
  <1>3. CASE Open # {}
    <2>1. first \in Open /\ \A k \in Open : first <= k
      <3>1. Open \in SUBSET Nat
        BY <1>0
      <3>2. \E j \in Open : \A k \in Open : j <= k
        <4>. HIDE DEF Open
        <4>. QED BY <1>3, <3>1, HasLeast
      <3>. QED BY <3>2
    <2>2. /\ pc' = [pc EXCEPT ![e] = "call"]
          /\ changed' = [changed EXCEPT ![e] = FALSE]
          /\ bmDone' = [done EXCEPT ![todo[first]] = @ \cup {iDone[e]}]
          /\ target' = [target EXCEPT ![e] = key[todo[first]]]
          /\ pCur' = [pCur EXCEPT ![e] = IF first = Len(todo) THEN NONE ELSE todo[first + 1]]
          /\ UNCHANGED <<iDone, told>>
      BY <1>3 DEF Walk
    <2>. HIDE DEF first
    <2>. PICK x : x = first
      OBVIOUS
    <2>. PICK n : n = m + x
      OBVIOUS
    <2>a. /\ x \in 1 .. Len(todo) /\ x \in Nat /\ m \in Nat /\ Len(todo) = Len(list) - m
          /\ n \in 1 .. Len(list) /\ n - m = x /\ (x = Len(todo) <=> n = Len(list))
      BY <1>0, <2>1 DEF Rest
    <2>3. n \in DOMAIN list /\ list[n] = todo[x]
      BY <1>0, <2>a DEF Rest
    <2>4. x # Len(todo) => todo[x + 1] = list[n + 1]
      <3>. SUFFICES ASSUME x # Len(todo) PROVE todo[x + 1] = list[n + 1]
        OBVIOUS
      <3>1. x + 1 \in 1 .. Len(todo)
        <4>. PICK l \in Nat : l = Len(todo)
          BY <1>0
        <4>1. x \in 1 .. l
          BY <2>a
        <4>2. x # l
          OBVIOUS
        <4>3. x + 1 \in 1 .. l
          BY <4>1, <4>2
        <4>. QED BY <4>3
      <3>2. m + (x + 1) = n + 1
        <4>1. m \in Nat /\ x \in Nat /\ n = m + x
          BY <2>a
        <4>. QED BY <4>1
      <3>. QED BY <3>1, <3>2 DEF Rest
    <2>5. iDone[e] \notin done[list[n]]
      BY <2>1, <2>3
    <2>6. ASSUME NEW i \in DOMAIN list, i < n PROVE iDone[e] \in done[list[i]]
      <3>1. CASE i <= m
        BY <3>1
      <3>2. CASE ~(i <= m)
        <4>1. i - m \in DOMAIN todo /\ list[i] = todo[i - m]
          BY <1>0, <1>1, <3>2
        <4>2. ~(x <= i - m)
          <5>1. i \in Nat /\ i < m + x
            <6>1. i \in Nat
              BY <1>0
            <6>. QED BY <6>1, <2>6, <2>a
          <5>2. m \in Nat /\ x \in Nat
            BY <2>a
          <5>. QED BY <5>1, <5>2
        <4>. QED BY <2>1, <4>1, <4>2
      <3>. QED BY <3>1, <3>2
    <2>. QED BY <2>2, <2>a, <2>3, <2>4, <2>5, <2>6 DEF StopsAt
  <1>. QED BY <1>2, <1>3

(* A walk goes on after the cursor's predecessor, or not at all. *)
LEMMA FromIs ==
    ASSUME Shape, ListHolds, NotifyAssumption
    PROVE  /\ Rest(list, 0)
           /\ From(NONE) \in Seq(Rec) /\ Rest(From(NONE), Len(list))
           /\ \A j \in DOMAIN list :
                 From(list[j]) \in Seq(Rec) /\ Rest(From(list[j]), j - 1)
  <1>0. /\ list \in Seq(Rec) /\ DOMAIN list = 1 .. Len(list) /\ Len(list) \in Nat
        /\ \A i \in 1 .. Len(list) : list[i] \in Rec /\ list[i] # NONE
    BY LenProperties, ElementOfSeq DEF Shape, NotifyAssumption
  <1>1. Rest(list, 0)
    BY <1>0 DEF Rest
  <1>2. From(NONE) = <<>>
    <2>1. {i \in 1 .. Len(list) : list[i] = NONE} = {}
      BY <1>0
    <2>2. SelectInSeq(list, LAMBDA r : r = NONE) = 0
      BY <2>1 DEF SelectInSeq
    <2>. QED BY <2>2 DEF From
  <1>3. From(NONE) \in Seq(Rec) /\ Rest(From(NONE), Len(list))
    <2>1. <<>> \in Seq(Rec) /\ Len(<<>>) = 0 /\ Len(list) - Len(list) = 0
      BY <1>0, EmptySeq
    <2>. QED BY <1>0, <1>2, <2>1 DEF Rest
  <1>4. ASSUME NEW j \in DOMAIN list
        PROVE  From(list[j]) \in Seq(Rec) /\ Rest(From(list[j]), j - 1)
    <2>. DEFINE I == {i \in 1 .. Len(list) : list[i] = list[j]}
                t == SubSeq(list, j, Len(list))
    <2>1. I = {j}
      BY <1>0 DEF ListHolds, IsInjective
    <2>2. Min(I) = j
      BY <1>0, <2>1 DEF Min
    <2>3. SelectInSeq(list, LAMBDA r : r = list[j]) = IF I # {} THEN Min(I) ELSE 0
      BY DEF SelectInSeq
    <2>4. SelectInSeq(list, LAMBDA r : r = list[j]) = j
      BY <2>1, <2>2, <2>3
    <2>5. From(list[j]) = t
      <3>1. j # 0
        BY <1>0
      <3>2. From(list[j]) = IF j = 0 THEN <<>> ELSE SubSeq(list, j, Len(list))
        BY <2>4, Zenon DEF From
      <3>. QED BY <3>1, <3>2
    <2>6. j \in Int /\ Len(list) \in Int /\ j <= Len(list) /\ \A i \in j .. Len(list) : list[i] \in Rec
      BY <1>0
    <2>7. /\ t \in Seq(Rec) /\ Len(t) = IF j <= Len(list) THEN Len(list) - j + 1 ELSE 0
          /\ \A i \in 1 .. Len(list) - j + 1 : t[i] = list[j + i - 1]
      BY <2>6, SubSeqProperties
    <2>. HIDE DEF t
    <2>8. Len(t) = Len(list) - (j - 1) /\ j - 1 \in 0 .. Len(list)
      BY <1>0, <2>6, <2>7
    <2>9. ASSUME NEW i \in 1 .. Len(t) PROVE t[i] = list[j - 1 + i]
      <3>1. i \in 1 .. Len(list) - j + 1 /\ j + i - 1 = j - 1 + i
        BY <1>0, <2>6, <2>8
      <3>. QED BY <2>7, <3>1
    <2>10. Rest(t, j - 1)
      BY <2>8, <2>9 DEF Rest
    <2>. QED BY <2>5, <2>7, <2>10
  <1>. QED BY <1>1, <1>3, <1>4

-----------------------------------------------------------------------------
(* The event's locals do not change. *)
SameWalk(f) ==
    /\ pc'[f] = pc[f] /\ iDone'[f] = iDone[f] /\ pCur'[f] = pCur[f]
    /\ changed'[f] = changed[f] /\ target'[f] = target[f]
    /\ owed'[f] = owed[f] /\ told'[f] = told[f]

(* An event does not mind what happens to the bits of others. *)
LEMMA OthersTell ==
    ASSUME NEW f \in Event, Tells(f), SameWalk(f), list' = list,
           \A i \in DOMAIN list : key'[list[i]] = key[list[i]],
           pc[f] # "idle" =>
              \A i \in DOMAIN list : iDone[f] \in bmDone'[list[i]] <=> iDone[f] \in bmDone[list[i]]
    PROVE  Tells(f)'
  <1>1. CASE pc[f] = "idle"
    <2>1. owed[f] = {} /\ told[f] = {}
      BY <1>1 DEF Tells, NothingOwed
    <2>. QED BY <1>1, <2>1 DEF Tells, NothingOwed, OwedHolds, ToldHolds, SkipsNone, SameWalk
  <1>2. CASE pc[f] # "idle"
    <2>1. \A i \in DOMAIN list : Visited(f, i)' <=> Visited(f, i)
      BY <1>2 DEF Visited, SameWalk
    <2>2. NothingOwed(f)'
      BY DEF Tells, NothingOwed, SameWalk
    <2>3. OwedHolds(f)'
      BY <2>1 DEF Tells, OwedHolds, SameWalk
    <2>4. ToldHolds(f)'
      BY <2>1 DEF Tells, ToldHolds, SameWalk
    <2>5. SkipsNone(f)'
      BY <2>1 DEF Tells, SkipsNone, SameWalk
    <2>. QED BY <2>2, <2>3, <2>4, <2>5 DEF Tells
  <1>. QED BY <1>1, <1>2

(* An event that walks on leaves the others their bits, and itself at the  *)
(* first record it has not visited.                                        *)
LEMMA WalkTells ==
    ASSUME Shape, ListHolds, TInv, NEW e \in Event, pc[e] # "idle",
           NEW done \in [Rec -> SUBSET AllBits],
           Finishes(e, done) \/ \E n \in DOMAIN list : StopsAt(e, done, n),
           \A f \in Event : \A r \in Rec :
              f # e /\ pc[f] # "idle" => (iDone[f] \in done[r] <=> iDone[f] \in bmDone[r]),
           owed' \in [Event -> SUBSET Key],
           \A f \in Event : f # e => owed'[f] = owed[f],
           \A k \in owed'[e] : \E i \in DOMAIN list : key[list[i]] = k /\ iDone[e] \notin done[list[i]],
           \A i \in DOMAIN list : key[list[i]] \in told[e] => iDone[e] \in done[list[i]],
           UNCHANGED <<crtR0Users, list, key, iDoneBit>>
    PROVE  TInv'
  <1>0. /\ list \in Seq(Rec) /\ DOMAIN list = 1 .. Len(list) /\ Len(list) \in Nat
        /\ \A i \in DOMAIN list : list[i] \in Rec /\ key[list[i]] \in Key
    BY LenProperties, ElementOfSeq DEF Shape, ListHolds
  <1>1. /\ pc \in [Event -> {"idle", "enter", "call", "reenter"}]
        /\ pCur \in [Event -> Rec \cup {NONE}] /\ changed \in [Event -> BOOLEAN]
        /\ WalkTypes
    BY DEF Shape, TInv
  <1>k. KeysDiffer'
    BY DEF TInv, KeysDiffer
  <1>2. CASE Finishes(e, done)
    <2>1. /\ pc' = [pc EXCEPT ![e] = "idle"] /\ iDone' = [iDone EXCEPT ![e] = 0]
          /\ pCur' = [pCur EXCEPT ![e] = NONE] /\ changed' = [changed EXCEPT ![e] = FALSE]
          /\ target' = [target EXCEPT ![e] = NONE] /\ told' = [told EXCEPT ![e] = {}]
          /\ bmDone' = done
          /\ \A i \in DOMAIN list : iDone[e] \in done[list[i]]
      BY <1>2 DEF Finishes, Over
    <2>2. WalkTypes'
      <3>1. 0 \in AllBits
        BY NotifyAssumption DEF AllBits
      <3>. QED BY <1>1, <2>1, <3>1 DEF WalkTypes
    <2>3. BitsDiffer'
      BY <1>1, <2>1 DEF WalkTypes, TInv, BitsDiffer
    <2>4. Tells(e)'
      <3>1. pc'[e] = "idle" /\ told'[e] = {} /\ owed'[e] = {}
        BY <1>1, <2>1 DEF WalkTypes
      <3>. QED BY <3>1 DEF Tells, NothingOwed, OwedHolds, ToldHolds, SkipsNone
    <2>5. ASSUME NEW f \in Event, f # e PROVE Tells(f)'
      <3>1. SameWalk(f)
        BY <1>1, <2>1, <2>5 DEF WalkTypes, SameWalk
      <3>2. pc[f] # "idle" =>
               \A i \in DOMAIN list : iDone[f] \in bmDone'[list[i]] <=> iDone[f] \in bmDone[list[i]]
        BY <1>0, <2>1, <2>5
      <3>3. Tells(f) /\ list' = list /\ \A i \in DOMAIN list : key'[list[i]] = key[list[i]]
        BY DEF TInv
      <3>. QED BY <3>1, <3>2, <3>3, OthersTell
    <2>. QED BY <1>k, <2>2, <2>3, <2>4, <2>5 DEF TInv
  <1>3. ASSUME NEW n \in DOMAIN list, StopsAt(e, done, n) PROVE TInv'
    <2>. PICK r \in Rec : r = list[n]
      BY <1>0
    <2>. PICK b \in AllBits : b = iDone[e]
      BY <1>1 DEF WalkTypes
    <2>1. /\ pc' = [pc EXCEPT ![e] = "call"]
          /\ changed' = [changed EXCEPT ![e] = FALSE]
          /\ bmDone' = [done EXCEPT ![r] = @ \cup {b}]
          /\ target' = [target EXCEPT ![e] = key[r]]
          /\ pCur' = [pCur EXCEPT ![e] = IF n = Len(list) THEN NONE ELSE list[n + 1]]
          /\ iDone' = iDone /\ told' = told
          /\ b \notin done[r]
          /\ \A i \in DOMAIN list : i < n => b \in done[list[i]]
      BY <1>3 DEF StopsAt
    <2>2. WalkTypes'
      BY <1>0, <1>1, <2>1 DEF WalkTypes
    <2>3. BitsDiffer'
      BY <1>1, <2>1 DEF WalkTypes, TInv, BitsDiffer
    <2>4. /\ \A x \in Rec : b \in bmDone'[x] <=> (b \in done[x] \/ x = r)
          /\ \A f \in Event : \A x \in Rec :
                f # e /\ pc[f] # "idle" => (iDone[f] \in bmDone'[x] <=> iDone[f] \in done[x])
      <3>1. \A f \in Event : f # e /\ pc[f] # "idle" => iDone[f] # b
        BY DEF TInv, BitsDiffer
      <3>. QED BY <2>1, <3>1
    <2>5. Tells(e)'
      <3>1. /\ pc'[e] = "call" /\ changed'[e] = FALSE /\ target'[e] = key[r] /\ iDone'[e] = b
            /\ pCur'[e] = IF n = Len(list) THEN NONE ELSE list[n + 1]
            /\ told'[e] = told[e]
        BY <1>1, <2>1 DEF WalkTypes
      <3>2. \A i \in DOMAIN list : Visited(e, i)' <=> (b \in done[list[i]] \/ list[i] = r)
        BY <1>0, <2>4, <3>1 DEF Visited
      <3>3. NothingOwed(e)'
        BY <3>1 DEF NothingOwed
      <3>4. OwedHolds(e)'
        BY <3>1, <3>2 DEF OwedHolds
      <3>5. ToldHolds(e)'
        <4>1. key[r] \in Key /\ key[r] \notin told[e]
          BY <1>0, <2>1
        <4>2. \A i \in DOMAIN list : key[list[i]] \in told'[e] => Visited(e, i)'
          BY <3>1, <3>2
        <4>3. \A i \in DOMAIN list : key[list[i]] = key[r] => Visited(e, i)'
          BY <3>2 DEF TInv, KeysDiffer
        <4>. QED BY <3>1, <4>1, <4>2, <4>3 DEF ToldHolds
      <3>6. SkipsNone(e)'
        <4>1. ASSUME NEW i \in DOMAIN list, ~Visited(e, i)'
              PROVE  /\ pCur'[e] # NONE
                     /\ \E j \in DOMAIN list : j <= i /\ list[j] = pCur'[e]
          <5>1. i # n /\ ~(i < n)
            BY <2>1, <3>2, <4>1
          <5>2. n # Len(list) /\ n + 1 \in DOMAIN list /\ n + 1 <= i
            BY <1>0, <5>1
          <5>3. pCur'[e] = list[n + 1] /\ list[n + 1] # NONE
            BY <1>0, <3>1, <5>2, NotifyAssumption
          <5>. QED BY <5>2, <5>3
        <4>. QED BY <4>1 DEF SkipsNone
      <3>. QED BY <3>3, <3>4, <3>5, <3>6 DEF Tells
    <2>6. ASSUME NEW f \in Event, f # e PROVE Tells(f)'
      <3>1. SameWalk(f)
        BY <1>1, <2>1, <2>6 DEF WalkTypes, SameWalk
      <3>2. pc[f] # "idle" =>
               \A i \in DOMAIN list : iDone[f] \in bmDone'[list[i]] <=> iDone[f] \in bmDone[list[i]]
        BY <1>0, <2>4, <2>6
      <3>3. Tells(f) /\ list' = list /\ \A i \in DOMAIN list : key'[list[i]] = key[list[i]]
        BY DEF TInv
      <3>. QED BY <3>1, <3>2, <3>3, OthersTell
    <2>. QED BY <1>k, <2>2, <2>3, <2>5, <2>6 DEF TInv
  <1>. QED BY <1>2, <1>3

-----------------------------------------------------------------------------
(* The steps of an event. *)

LEMMA BeginTells ==
    ASSUME IInv, TInv, NEW e \in Event, Begin(e)
    PROVE  TInv'
  <1>. DEFINE b == (iDoneBit + 1) % Bits
  <1>1. /\ pc[e] = "idle"
        /\ \A f \in Event : pc[f] # "idle" => iDone[f] # b
        /\ iDoneBit' = b /\ iDone' = [iDone EXCEPT ![e] = b]
        /\ pc' = [pc EXCEPT ![e] = "enter"]
        /\ UNCHANGED <<crtR0Users, list, key, bmDone, pCur, changed, target, owed, told>>
    BY DEF Begin, lists
  <1>2. b \in AllBits
    BY NotifyAssumption DEF TInv, WalkTypes, AllBits
  <1>. HIDE DEF b
  <1>3. WalkTypes' /\ KeysDiffer'
    BY <1>1, <1>2 DEF TInv, WalkTypes, KeysDiffer
  <1>4. pc \in [Event -> {"idle", "enter", "call", "reenter"}] /\ iDone \in [Event -> AllBits]
    BY DEF IInv, Shape, TInv, WalkTypes
  <1>5. BitsDiffer'
    BY <1>1, <1>4 DEF TInv, BitsDiffer
  <1>6. Tells(e)'
    <2>1. pc'[e] = "enter" /\ owed'[e] = {} /\ told'[e] = {}
      BY <1>1, <1>4 DEF TInv, Tells, NothingOwed
    <2>. QED BY <2>1 DEF Tells, NothingOwed, OwedHolds, ToldHolds, SkipsNone
  <1>7. ASSUME NEW f \in Event, f # e PROVE Tells(f)'
    <2>1. SameWalk(f)
      BY <1>1, <1>4, <1>7 DEF SameWalk
    <2>2. pc[f] # "idle" =>
             \A i \in DOMAIN list : iDone[f] \in bmDone'[list[i]] <=> iDone[f] \in bmDone[list[i]]
      BY <1>1
    <2>3. Tells(f) /\ list' = list /\ \A i \in DOMAIN list : key'[list[i]] = key[list[i]]
      BY <1>1 DEF TInv
    <2>. QED BY <2>1, <2>2, <2>3, OthersTell
  <1>. QED BY <1>3, <1>5, <1>6, <1>7 DEF TInv

LEMMA EnterTells ==
    ASSUME IInv, TInv, NEW e \in Event, Enter(e)
    PROVE  TInv'
  <1>. DEFINE done == Cleared(iDone[e])
  <1>1. /\ pc[e] = "enter" /\ Walk(e, list, done)
        /\ owed' = [owed EXCEPT ![e] = {key[r] : r \in ToSet(list)}]
        /\ UNCHANGED <<crtR0Users, list, key, iDoneBit>>
    BY DEF Enter
  <1>2. /\ list \in Seq(Rec) /\ DOMAIN list = 1 .. Len(list) /\ Len(list) \in Nat
        /\ \A i \in DOMAIN list : list[i] \in Rec /\ key[list[i]] \in Key
        /\ Shape /\ ListHolds
    BY LenProperties, ElementOfSeq DEF IInv, Shape, ListHolds
  <1>3. /\ done \in [Rec -> SUBSET AllBits]
        /\ \A r \in Rec : \A b \in AllBits : b # iDone[e] => (b \in done[r] <=> b \in bmDone[r])
        /\ \A i \in DOMAIN list : iDone[e] \notin done[list[i]]
    <2>1. ToSet(list) = {list[i] : i \in DOMAIN list}
      BY DEF ToSet
    <2>. QED BY <1>2, <2>1 DEF TInv, WalkTypes, Cleared
  <1>. HIDE DEF done
  <1>4. Rest(list, 0) /\ \A i \in DOMAIN list : i <= 0 => iDone[e] \in done[list[i]]
    BY <1>2, FromIs, NotifyAssumption
  <1>5. Finishes(e, done) \/ \E n \in DOMAIN list : StopsAt(e, done, n)
    BY <1>1, <1>2, <1>4, WalkStops
  <1>6. \A f \in Event : \A r \in Rec :
            f # e /\ pc[f] # "idle" => (iDone[f] \in done[r] <=> iDone[f] \in bmDone[r])
    <2>1. \A f \in Event : iDone[f] \in AllBits /\ (f # e /\ pc[f] # "idle" => iDone[f] # iDone[e])
      BY <1>1 DEF TInv, WalkTypes, BitsDiffer
    <2>. QED BY <1>3, <2>1
  <1>7. /\ owed'[e] = {key[list[i]] : i \in DOMAIN list}
        /\ owed' \in [Event -> SUBSET Key]
        /\ \A f \in Event : f # e => owed'[f] = owed[f]
    <2>1. \A x : x \in ToSet(list) <=> \E i \in DOMAIN list : x = list[i]
      BY DEF ToSet
    <2>2. {key[r] : r \in ToSet(list)} = {key[list[i]] : i \in DOMAIN list}
      BY <2>1
    <2>3. owed \in [Event -> SUBSET Key] /\ {key[list[i]] : i \in DOMAIN list} \in SUBSET Key
      BY <1>2 DEF TInv, WalkTypes
    <2>4. owed' = [owed EXCEPT ![e] = {key[list[i]] : i \in DOMAIN list}]
      BY <1>1, <2>2
    <2>. QED BY <2>3, <2>4
  <1>8. told[e] = {}
    BY <1>1 DEF TInv, Tells, NothingOwed
  <1>9. \A k \in owed'[e] : \E i \in DOMAIN list : key[list[i]] = k /\ iDone[e] \notin done[list[i]]
    BY <1>3, <1>7
  <1>10. \A i \in DOMAIN list : key[list[i]] \in told[e] => iDone[e] \in done[list[i]]
    BY <1>8
  <1>11. /\ pc[e] # "idle" /\ Shape /\ ListHolds
         /\ UNCHANGED <<crtR0Users, list, key, iDoneBit>>
         /\ done \in [Rec -> SUBSET AllBits]
         /\ owed' \in [Event -> SUBSET Key] /\ \A f \in Event : f # e => owed'[f] = owed[f]
    BY <1>1, <1>2, <1>3, <1>7
  <1>. QED BY <1>5, <1>6, <1>9, <1>10, <1>11, WalkTells

LEMMA CallTells ==
    ASSUME IInv, TInv, NEW e \in Event, Call(e)
    PROVE  TInv'
  <1>1. pc[e] = "call" /\ hSpinlock /\ Tells(e)
    BY DEF Call, IInv, WalksHold, WalkHolds, TInv
  <1>2. /\ owed' = [owed EXCEPT ![e] = @ \ {target[e]}]
        /\ pc' = [pc EXCEPT ![e] = "reenter"]
        /\ told' = [told EXCEPT ![e] = @ \cup {target[e]}]
        /\ target' = [target EXCEPT ![e] = NONE]
        /\ UNCHANGED <<crtR0Users, list, key, bmDone, iDoneBit, iDone, pCur, changed>>
    BY <1>1 DEF Call, lists
  <1>3. /\ pc \in [Event -> {"idle", "enter", "call", "reenter"}] /\ WalkTypes
    BY DEF IInv, Shape, TInv
  <1>4. target[e] \in Key /\ target[e] \notin told[e]
        /\ \A i \in DOMAIN list : key[list[i]] = target[e] => Visited(e, i)
    BY <1>1 DEF Tells, ToldHolds
  <1>5. WalkTypes'
    BY <1>2, <1>3, <1>4 DEF WalkTypes
  <1>6. BitsDiffer' /\ KeysDiffer'
    BY <1>1, <1>2, <1>3 DEF TInv, BitsDiffer, KeysDiffer
  <1>7. Tells(e)'
    <2>1. /\ pc'[e] = "reenter" /\ owed'[e] = owed[e] \ {target[e]}
          /\ told'[e] = told[e] \cup {target[e]}
          /\ iDone'[e] = iDone[e] /\ pCur'[e] = pCur[e] /\ changed'[e] = changed[e]
          /\ list' = list /\ key' = key
      BY <1>2, <1>3 DEF WalkTypes
    <2>2. \A i \in DOMAIN list : Visited(e, i)' <=> Visited(e, i)
      BY <1>2 DEF Visited
    <2>3. NothingOwed(e)'
      BY <2>1 DEF NothingOwed
    <2>4. OwedHolds(e)'
      BY <1>1, <2>1, <2>2 DEF Tells, OwedHolds
    <2>5. ToldHolds(e)'
      BY <1>1, <1>4, <2>1, <2>2 DEF Tells, ToldHolds
    <2>6. SkipsNone(e)'
      BY <1>1, <2>1, <2>2 DEF Tells, SkipsNone
    <2>. QED BY <2>3, <2>4, <2>5, <2>6 DEF Tells
  <1>8. ASSUME NEW f \in Event, f # e PROVE Tells(f)'
    <2>1. SameWalk(f)
      BY <1>2, <1>3, <1>8 DEF WalkTypes, SameWalk
    <2>2. pc[f] # "idle" =>
             \A i \in DOMAIN list : iDone[f] \in bmDone'[list[i]] <=> iDone[f] \in bmDone[list[i]]
      BY <1>2
    <2>3. Tells(f) /\ list' = list /\ \A i \in DOMAIN list : key'[list[i]] = key[list[i]]
      BY <1>2 DEF TInv
    <2>. QED BY <2>1, <2>2, <2>3, OthersTell
  <1>. QED BY <1>5, <1>6, <1>7, <1>8 DEF TInv

(* A walk that goes on has nobody behind it: it starts again at the head   *)
(* if the list has changed, and it ends with the cursor only when everyone *)
(* has been visited.                                                       *)
LEMMA ResumeIs ==
    ASSUME IInv, TInv, NEW e \in Event, pc[e] = "reenter"
    PROVE  /\ Resume(e) \in Seq(Rec)
           /\ \E m \in 0 .. Len(list) :
                 Rest(Resume(e), m) /\ \A i \in DOMAIN list : i <= m => Visited(e, i)
  <1>0. /\ list \in Seq(Rec) /\ DOMAIN list = 1 .. Len(list) /\ Len(list) \in Nat
        /\ Shape /\ ListHolds /\ SkipsNone(e)
    BY LenProperties DEF IInv, Shape, TInv, Tells
  <1>1. CASE pCur[e] = NONE
    <2>1. Resume(e) = From(NONE)
      BY <1>1 DEF Resume
    <2>2. \A i \in DOMAIN list : Visited(e, i)
      BY <1>0, <1>1 DEF SkipsNone
    <2>. QED BY <1>0, <2>1, <2>2, FromIs, NotifyAssumption
  <1>2. CASE pCur[e] # NONE /\ changed[e]
    <2>1. Resume(e) = list
      BY <1>2 DEF Resume
    <2>. QED BY <1>0, <2>1, FromIs, NotifyAssumption
  <1>3. CASE pCur[e] # NONE /\ ~changed[e]
    <2>1. PICK j \in DOMAIN list : pCur[e] = list[j]
      BY <1>3 DEF IInv, WalksHold, WalkHolds
    <2>2. Resume(e) = From(list[j])
      BY <1>3, <2>1 DEF Resume
    <2>3. ASSUME NEW i \in DOMAIN list, i <= j - 1 PROVE Visited(e, i)
      <3>. SUFFICES ASSUME ~Visited(e, i) PROVE FALSE
        OBVIOUS
      <3>1. PICK k \in DOMAIN list : k <= i /\ list[k] = pCur[e]
        BY <1>0, <1>3 DEF SkipsNone
      <3>2. k = j
        BY <1>0, <2>1, <3>1 DEF ListHolds, IsInjective
      <3>. QED BY <1>0, <2>3, <3>1, <3>2
    <2>4. From(list[j]) \in Seq(Rec) /\ Rest(From(list[j]), j - 1)
      BY <1>0, FromIs, NotifyAssumption
    <2>5. j - 1 \in 0 .. Len(list)
      BY <1>0
    <2>. QED BY <2>2, <2>3, <2>4, <2>5
  <1>. QED BY <1>1, <1>2, <1>3

LEMMA ReenterTells ==
    ASSUME IInv, TInv, NEW e \in Event, Reenter(e)
    PROVE  TInv'
  <1>1. /\ pc[e] = "reenter" /\ Walk(e, Resume(e), bmDone)
        /\ UNCHANGED <<crtR0Users, list, key, iDoneBit, owed>>
    BY DEF Reenter
  <1>2. PICK m \in 0 .. Len(list) :
           Rest(Resume(e), m) /\ \A i \in DOMAIN list : i <= m => Visited(e, i)
    BY <1>1, ResumeIs
  <1>3. Resume(e) \in Seq(Rec)
    BY <1>1, ResumeIs
  <1>4. Shape /\ ListHolds /\ WalkTypes /\ Tells(e)
    BY DEF IInv, TInv
  <1>5. Finishes(e, bmDone) \/ \E n \in DOMAIN list : StopsAt(e, bmDone, n)
    <2>1. \A i \in DOMAIN list : i <= m => iDone[e] \in bmDone[list[i]]
      BY <1>2 DEF Visited
    <2>. QED BY <1>1, <1>2, <1>3, <1>4, <2>1, WalkStops
  <1>6. /\ \A k \in owed'[e] : \E i \in DOMAIN list : key[list[i]] = k /\ iDone[e] \notin bmDone[list[i]]
        /\ \A i \in DOMAIN list : key[list[i]] \in told[e] => iDone[e] \in bmDone[list[i]]
    BY <1>1, <1>4 DEF Tells, OwedHolds, ToldHolds, Visited
  <1>7. /\ bmDone \in [Rec -> SUBSET AllBits] /\ owed' \in [Event -> SUBSET Key]
        /\ \A f \in Event : f # e => owed'[f] = owed[f]
    BY <1>1, <1>4 DEF WalkTypes
  <1>. QED BY <1>1, <1>4, <1>5, <1>6, <1>7, WalkTells

(* The steps of the runtime, and those of a client that do not touch what  *)
(* is in the list. *)
LEMMA QuietTells ==
    ASSUME TInv, crtR0Users' \in 0 .. MaxUsers, bmDone' \in [Rec -> SUBSET AllBits],
           UNCHANGED <<list, iDoneBit, walks>>,
           \A i \in DOMAIN list : key'[list[i]] = key[list[i]] /\ bmDone'[list[i]] = bmDone[list[i]]
    PROVE  TInv'
  <1>1. UNCHANGED <<list, iDoneBit, pc, iDone, pCur, changed, target, owed, told>>
    BY DEF walks
  <1>2. WalkTypes' /\ BitsDiffer' /\ KeysDiffer'
    BY <1>1 DEF TInv, WalkTypes, BitsDiffer, KeysDiffer
  <1>3. ASSUME NEW f \in Event PROVE Tells(f)'
    <2>1. SameWalk(f) /\ Tells(f)
      BY <1>1 DEF SameWalk, TInv
    <2>. QED BY <1>1, <2>1, OthersTell
  <1>. QED BY <1>2, <1>3 DEF TInv

LEMMA RuntimeTells ==
    ASSUME IInv, TInv, R0Init \/ R0Leave \/ NativeTerm \/ NotificationTerm
    PROVE  TInv'
  <1>1. CASE R0Init \/ R0Leave \/ NativeTerm
    <2>1. UNCHANGED <<list, key, bmDone, iDoneBit, walks>>
      BY <1>1 DEF R0Init, R0Leave, NativeTerm, lists
    <2>2. crtR0Users' \in 0 .. MaxUsers
      <3>1. crtR0Users \in 0 .. MaxUsers /\ MaxUsers \in Nat
        BY NotifyAssumption DEF TInv, WalkTypes
      <3>2. CASE R0Init
        BY <3>1, <3>2 DEF R0Init
      <3>3. CASE R0Leave
        BY <3>1, <3>3 DEF R0Leave
      <3>4. CASE NativeTerm
        BY <3>1, <3>4 DEF NativeTerm
      <3>. QED BY <1>1, <3>2, <3>3, <3>4
    <2>3. bmDone' \in [Rec -> SUBSET AllBits]
      BY <2>1 DEF TInv, WalkTypes
    <2>. QED BY <2>1, <2>2, <2>3, QuietTells
  <1>2. CASE NotificationTerm
    <2>1. /\ ~native /\ list' = <<>> /\ crtR0Users' = 0
          /\ bmDone' = [r \in Rec |-> IF r \in ToSet(list) THEN {} ELSE bmDone[r]]
          /\ owed' = [e \in Event |-> {}]
          /\ UNCHANGED <<iDoneBit, pc, iDone, target, told>>
      BY <1>2 DEF NotificationTerm
    <2>2. \A e \in Event : pc[e] = "idle" /\ told[e] = {}
      BY <2>1 DEF IInv, WalksHold, WalkHolds, TInv, Tells, NothingOwed
    <2>3. DOMAIN list' = {}
      BY <2>1
    <2>4. WalkTypes'
      <3>1. 0 \in 0 .. MaxUsers
        BY NotifyAssumption
      <3>2. bmDone' \in [Rec -> SUBSET AllBits]
        BY <2>1 DEF TInv, WalkTypes
      <3>. QED BY <2>1, <3>1, <3>2 DEF TInv, WalkTypes
    <2>5. BitsDiffer' /\ KeysDiffer'
      BY <2>1, <2>2, <2>3 DEF BitsDiffer, KeysDiffer
    <2>6. ASSUME NEW e \in Event PROVE Tells(e)'
      <3>1. pc'[e] = "idle" /\ owed'[e] = {} /\ told'[e] = {}
        BY <2>1, <2>2
      <3>. QED BY <3>1 DEF Tells, NothingOwed, OwedHolds, ToldHolds, SkipsNone
    <2>. QED BY <2>4, <2>5, <2>6 DEF TInv
  <1>. QED BY <1>1, <1>2

-----------------------------------------------------------------------------
(* The steps of a client that change the list. *)

(* The list changes: records that stay keep key and bits, a new one has    *)
(* all bits, and whoever is owed a call stays.                             *)
ListChanges ==
    /\ \A j \in DOMAIN list : key'[list[j]] = key[list[j]] /\ bmDone'[list[j]] = bmDone[list[j]]
    /\ \A i \in DOMAIN list' :
          (\E j \in DOMAIN list : list'[i] = list[j]) \/ bmDone'[list'[i]] = AllBits
    /\ \A e \in Event : \A k \in owed'[e] :
          /\ k \in owed[e]
          /\ \A j \in DOMAIN list : key[list[j]] = k => \E i \in DOMAIN list' : list'[i] = list[j]

LEMMA ListChangeTells ==
    ASSUME Shape, TInv, ListChanges, NewGeneration, NEW e \in Event,
           UNCHANGED <<pc, iDone, pCur, target, told>>
    PROVE  Tells(e)'
  <1>1. /\ iDone[e] \in AllBits /\ Tells(e) /\ iDone'[e] = iDone[e]
        /\ pc'[e] = pc[e] /\ target'[e] = target[e] /\ told'[e] = told[e] /\ pCur'[e] = pCur[e]
    BY DEF TInv, WalkTypes
  <1>2. ASSUME NEW i \in DOMAIN list'
        PROVE  \/ Visited(e, i)'
               \/ \E j \in DOMAIN list :
                     list'[i] = list[j] /\ key'[list'[i]] = key[list[j]] /\ ~Visited(e, j)
    <2>1. CASE bmDone'[list'[i]] = AllBits
      BY <1>1, <2>1 DEF Visited
    <2>2. ASSUME NEW j \in DOMAIN list, list'[i] = list[j]
          PROVE  Visited(e, i)' \/ (key'[list'[i]] = key[list[j]] /\ ~Visited(e, j))
      BY <1>1, <2>2 DEF ListChanges, Visited
    <2>. QED BY <2>1, <2>2 DEF ListChanges
  <1>3. ASSUME NEW k \in owed'[e]
        PROVE  \E i \in DOMAIN list' :
                  key'[list'[i]] = k /\ (~Visited(e, i)' \/ (pc'[e] = "call" /\ target'[e] = k))
    <2>1. k \in owed[e]
      BY DEF ListChanges
    <2>2. PICK j \in DOMAIN list :
             key[list[j]] = k /\ (~Visited(e, j) \/ (pc[e] = "call" /\ target[e] = k))
      BY <1>1, <2>1 DEF Tells, OwedHolds
    <2>3. PICK i \in DOMAIN list' : list'[i] = list[j]
      BY <2>2 DEF ListChanges
    <2>4. key'[list'[i]] = k /\ bmDone'[list'[i]] = bmDone[list[j]]
      BY <2>2, <2>3 DEF ListChanges
    <2>5. Visited(e, i)' <=> Visited(e, j)
      BY <1>1, <2>4 DEF Visited
    <2>. QED BY <1>1, <2>2, <2>4, <2>5
  <1>4. NothingOwed(e)'
    <2>1. owed'[e] \subseteq owed[e]
      BY DEF ListChanges
    <2>. QED BY <1>1, <2>1 DEF Tells, NothingOwed
  <1>5. OwedHolds(e)'
    BY <1>3 DEF OwedHolds
  <1>6. ToldHolds(e)'
    <2>1. ASSUME NEW i \in DOMAIN list', key'[list'[i]] \in told[e] PROVE Visited(e, i)'
      BY <1>1, <1>2, <2>1 DEF Tells, ToldHolds
    <2>2. ASSUME pc[e] = "call", NEW i \in DOMAIN list', key'[list'[i]] = target[e]
          PROVE  Visited(e, i)'
      BY <1>1, <1>2, <2>2 DEF Tells, ToldHolds
    <2>. QED BY <1>1, <2>1, <2>2 DEF Tells, ToldHolds
  <1>7. SkipsNone(e)'
    <2>1. pc[e] \in {"call", "reenter"} => changed'[e]
      BY DEF NewGeneration
    <2>2. pc[e] \in {"call", "reenter"} /\ pCur[e] = NONE => \A i \in DOMAIN list' : Visited(e, i)'
      BY <1>1, <1>2 DEF Tells, SkipsNone
    <2>. QED BY <1>1, <2>1, <2>2 DEF SkipsNone
  <1>. QED BY <1>4, <1>5, <1>6, <1>7 DEF Tells

LEMMA InsertTells ==
    ASSUME IInv, TInv, NEW c \in Client, Insert(c)
    PROVE  TInv'
  <1>. DEFINE r == FreshRec
              k == what[c]
              l == Append(list, r)
  <1>1. r \in Rec /\ key[r] = NONE
    BY DEF Insert, FreshRec
  <1>2. k \in Key /\ \A i \in DOMAIN list : key[list[i]] # k
    BY DEF Insert, IInv, ClientsHold, ClientHolds
  <1>3. For(k) = 0
    BY <1>2, ForFinds DEF IInv, Shape
  <1>4. /\ key' = [key EXCEPT ![r] = k] /\ list' = l /\ NewGeneration
        /\ bmDone' = [bmDone EXCEPT ![r] = AllBits]
        /\ UNCHANGED <<crtR0Users, iDoneBit, pc, iDone, pCur, target, owed, told>>
    BY <1>3 DEF Insert, NewDone
  <1>5. /\ Len(list) \in Nat /\ DOMAIN list = 1 .. Len(list)
        /\ DOMAIN l = 1 .. Len(list) + 1
        /\ \A i \in DOMAIN list : l[i] = list[i] /\ list[i] \in Rec
        /\ l[Len(list) + 1] = r
    BY <1>1, AppendProperties, LenProperties, ElementOfSeq DEF IInv, Shape
  <1>. HIDE DEF r, k, l
  <1>6. \A i \in DOMAIN list : list[i] # r /\ key'[list[i]] = key[list[i]]
                               /\ bmDone'[list[i]] = bmDone[list[i]]
    BY <1>1, <1>4, <1>5 DEF IInv, Shape, ListHolds, TInv, WalkTypes
  <1>7. \A i \in DOMAIN l : (i \in DOMAIN list /\ l[i] = list[i]) \/ (i = Len(list) + 1 /\ l[i] = r)
    BY <1>5
  <1>8. key'[r] = k /\ bmDone'[r] = AllBits
    BY <1>1, <1>4 DEF IInv, Shape, TInv, WalkTypes
  <1>9. ListChanges
    <2>1. \A i \in DOMAIN list' : (\E j \in DOMAIN list : list'[i] = list[j]) \/ bmDone'[list'[i]] = AllBits
      BY <1>4, <1>7, <1>8
    <2>2. \A j \in DOMAIN list : j \in DOMAIN list' /\ list'[j] = list[j]
      BY <1>4, <1>5
    <2>3. owed' = owed
      BY <1>4
    <2>. QED BY <1>6, <2>1, <2>2, <2>3 DEF ListChanges
  <1>10. KeysDiffer'
    BY <1>2, <1>4, <1>6, <1>7, <1>8 DEF TInv, KeysDiffer
  <1>11. WalkTypes'
    BY <1>4 DEF TInv, WalkTypes
  <1>12. BitsDiffer'
    BY <1>4 DEF TInv, BitsDiffer
  <1>13. \A e \in Event : Tells(e)'
    BY <1>4, <1>9, ListChangeTells DEF IInv
  <1>. QED BY <1>10, <1>11, <1>12, <1>13 DEF TInv

LEMMA DeregisterTells ==
    ASSUME IInv, TInv, NEW c \in Client, NEW k \in Key, Deregister(c, k)
    PROVE  TInv'
  <1>. DEFINE n == For(k)
              l == RemoveAt(list, n)
  <1>1. /\ n # 0 /\ list' = l /\ NewGeneration
        /\ owed' = [e \in Event |-> owed[e] \ {k}]
        /\ UNCHANGED <<crtR0Users, key, bmDone, iDoneBit, pc, iDone, pCur, target, told>>
    BY DEF Deregister
  <1>2. n \in DOMAIN list /\ key[list[n]] = k
    BY <1>1, ForFinds DEF IInv, Shape
  <1>3. /\ IsInjective(l)
        /\ \A j \in DOMAIN l : \E m \in DOMAIN list : l[j] = list[m]
        /\ \A m \in DOMAIN list : m # n => \E j \in DOMAIN l : l[j] = list[m]
    BY <1>2, Unlinked DEF IInv, Shape, ListHolds
  <1>. HIDE DEF n, l
  <1>4. ListChanges
    <2>1. ASSUME NEW e \in Event, NEW x \in owed'[e], NEW m \in DOMAIN list, key[list[m]] = x
          PROVE  x \in owed[e] /\ \E i \in DOMAIN list' : list'[i] = list[m]
      <3>1. x \in owed[e] /\ x # k
        BY <1>1
      <3>. QED BY <1>1, <1>2, <1>3, <2>1, <3>1
    <2>2. \A e \in Event : \A x \in owed'[e] : x \in owed[e]
      BY <1>1
    <2>. QED BY <1>1, <1>3, <2>1, <2>2 DEF ListChanges
  <1>5. KeysDiffer'
    <2>1. ASSUME NEW i \in DOMAIN l, NEW j \in DOMAIN l, key[l[i]] = key[l[j]] PROVE i = j
      <3>1. PICK x \in DOMAIN list : l[i] = list[x]
        BY <1>3
      <3>2. PICK y \in DOMAIN list : l[j] = list[y]
        BY <1>3
      <3>3. x = y
        BY <2>1, <3>1, <3>2 DEF TInv, KeysDiffer
      <3>. QED BY <1>3, <3>1, <3>2, <3>3 DEF IsInjective
    <2>. QED BY <1>1, <2>1 DEF KeysDiffer
  <1>6. WalkTypes'
    BY <1>1 DEF TInv, WalkTypes
  <1>7. BitsDiffer'
    BY <1>1 DEF TInv, BitsDiffer
  <1>8. \A e \in Event : Tells(e)'
    BY <1>1, <1>4, ListChangeTells DEF IInv
  <1>. QED BY <1>5, <1>6, <1>7, <1>8 DEF TInv

LEMMA QuietClientTells ==
    ASSUME IInv, TInv, NEW c \in Client,
           NoMemory(c) \/ Free(c) \/ \E k \in Key : Register(c, k)
    PROVE  TInv'
  <1>1. crtR0Users' \in 0 .. MaxUsers
    BY DEF NoMemory, Free, Register, TInv, WalkTypes
  <1>2. CASE NoMemory(c) \/ \E k \in Key : Register(c, k)
    <2>1. UNCHANGED <<list, iDoneBit, walks, key, bmDone>>
      BY <1>2 DEF NoMemory, Register, lists
    <2>. QED BY <1>1, <2>1, QuietTells DEF TInv, WalkTypes
  <1>3. CASE Free(c)
    <2>1. /\ cpc[c] = "free" /\ rec[c] \in Rec
          /\ \A i \in DOMAIN list : list[i] # rec[c] /\ list[i] \in Rec
      BY <1>3, ElementOfSeq, LenProperties DEF Free, IInv, Shape, ClientsHold, ClientHolds
    <2>2. /\ key' = [key EXCEPT ![rec[c]] = NONE] /\ bmDone' = [bmDone EXCEPT ![rec[c]] = {}]
          /\ UNCHANGED <<list, iDoneBit, walks>>
      BY <1>3 DEF Free
    <2>3. bmDone' \in [Rec -> SUBSET AllBits]
      BY <2>2 DEF TInv, WalkTypes
    <2>4. \A i \in DOMAIN list : key'[list[i]] = key[list[i]] /\ bmDone'[list[i]] = bmDone[list[i]]
      BY <2>1, <2>2 DEF IInv, Shape, TInv, WalkTypes
    <2>. QED BY <1>1, <2>2, <2>3, <2>4, QuietTells
  <1>. QED BY <1>2, <1>3

-----------------------------------------------------------------------------
LEMMA InitTells == Init => TInv
  <1>. SUFFICES ASSUME Init PROVE TInv
    OBVIOUS
  <1>1. DOMAIN list = {} /\ 0 \in AllBits /\ 0 \in 0 .. MaxUsers
    BY NotifyAssumption DEF Init, AllBits
  <1>2. WalkTypes /\ BitsDiffer /\ KeysDiffer
    BY <1>1 DEF Init, WalkTypes, BitsDiffer, KeysDiffer
  <1>3. \A e \in Event : Tells(e)
    BY DEF Init, Tells, NothingOwed, OwedHolds, ToldHolds, SkipsNone
  <1>. QED BY <1>2, <1>3 DEF TInv

LEMMA NextTells == IInv /\ TInv /\ [Next]_vars => TInv'
  <1>. SUFFICES ASSUME IInv, TInv, [Next]_vars PROVE TInv'
    OBVIOUS
  <1>1. CASE UNCHANGED vars
    <2>1. UNCHANGED <<crtR0Users, list, key, bmDone, iDoneBit, walks>>
      BY <1>1 DEF vars, lists
    <2>. QED BY <2>1, QuietTells DEF TInv, WalkTypes
  <1>2. ASSUME NEW e \in Event, Begin(e) \/ Deliver(e) PROVE TInv'
    BY <1>2, BeginTells, EnterTells, CallTells, ReenterTells DEF Deliver
  <1>3. ASSUME NEW c \in Client, NoMemory(c) \/ Insert(c) \/ Free(c) PROVE TInv'
    BY <1>3, QuietClientTells, InsertTells
  <1>4. ASSUME NEW c \in Client, NEW k \in Key, Register(c, k) \/ Deregister(c, k) PROVE TInv'
    BY <1>4, QuietClientTells, DeregisterTells
  <1>. QED BY <1>1, <1>2, <1>3, <1>4, RuntimeTells DEF Next

(* The invariant of both theorems. *)
LEMMA AlwaysTells ==
    ASSUME Serialised
    PROVE  Spec => [](IInv /\ TInv)
  <1>1. Init => IInv /\ TInv
    BY InitHolds, InitTells, NotifyAssumption
  <1>2. (IInv /\ TInv) /\ [Next]_vars => (IInv /\ TInv)'
    BY NextHolds, NextTells, NotifyAssumption
  <1>. QED BY <1>1, <1>2, PTL DEF Spec

(* If the calls of clients for one key do not overlap, an event calls      *)
(* every callback that was registered as it began and still is when the    *)
(* event is over, and none of them twice, although each call sends the     *)
(* spinlock away, clients register and deregister meanwhile, and other     *)
(* events walk the same list (mpnotification-r0drv.c, 93-157).            *)
THEOREM EveryoneIsToldOnce ==
    ASSUME Serialised
    PROVE  Spec => []EveryoneOnce
  <1>1. TInv => EveryoneOnce
    BY DEF TInv, Tells, NothingOwed, ToldHolds, EveryoneOnce
  <1>. QED BY <1>1, AlwaysTells, PTL

(* Every variable keeps its type: in particular the bit of an event is a   *)
(* bit of the mask, and the users of the runtime are counted.              *)
THEOREM TypeCorrect ==
    ASSUME Serialised
    PROVE  Spec => []TypeOK
  <1>1. IInv /\ TInv => TypeOK
    BY DEF IInv, Shape, TInv, WalkTypes, TypeOK
  <1>. QED BY <1>1, AlwaysTells, PTL
=============================================================================
