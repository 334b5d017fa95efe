---------------------------- MODULE MCSUPDrvObj ----------------------------
(* Small instances of SUPDrvObj for TLC. *)
EXTENDS SUPDrvObj, TLC

(* Sessions, threads and record memory are interchangeable. *)
Symmetry == Permutations(Session) \cup Permutations(Thread) \cup Permutations(Rec)
=============================================================================
