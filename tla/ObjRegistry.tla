---------------------------- MODULE ObjRegistry ----------------------------
(***************************************************************************)
(* What the object registry of the support driver promises, without the    *)
(* usage records, the spinlock and the threads: sessions hold counted      *)
(* references to objects, and an object lives exactly as long as it is     *)
(* referenced.  SUPDrvObj implements this specification.                   *)
(***************************************************************************)
EXTENDS Naturals

CONSTANTS Session, Obj

VARIABLES
    state,   \* "none" before registration, "live", "dead" for good
    refs     \* refs[s][o]: the references session s holds to object o

vars == <<state, refs>>

Init ==
    /\ state = [o \in Obj |-> "none"]
    /\ refs  = [s \in Session |-> [o \in Obj |-> 0]]

(* SUPR0ObjRegister: the creator holds the first reference. *)
Register(s, o) ==
    /\ state[o] = "none"
    /\ state' = [state EXCEPT ![o] = "live"]
    /\ refs'  = [refs  EXCEPT ![s][o] = 1]

(* SUPR0ObjAddRef: only a live object can be referenced. *)
AddRef(s, o) ==
    /\ state[o] = "live"
    /\ refs' = [refs EXCEPT ![s][o] = @ + 1]
    /\ UNCHANGED state

(* Leave session s with n references; nobody's reference left kills o. *)
Keep(s, o, n) ==
    /\ refs' = [refs EXCEPT ![s][o] = n]
    /\ state' = IF \A q \in Session : refs'[q][o] = 0
                THEN [state EXCEPT ![o] = "dead"] ELSE state

(* SUPR0ObjRelease. *)
Release(s, o) == refs[s][o] > 0 /\ Keep(s, o, refs[s][o] - 1)

(* A closing session drops all its references to an object at once. *)
Forget(s, o) == refs[s][o] > 0 /\ Keep(s, o, 0)

Next ==
    \E s \in Session, o \in Obj :
        \/ Register(s, o)
        \/ AddRef(s, o)
        \/ Release(s, o)
        \/ Forget(s, o)

Spec == Init /\ [][Next]_vars
=============================================================================
