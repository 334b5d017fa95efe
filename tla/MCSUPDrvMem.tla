---------------------------- MODULE MCSUPDrvMem ----------------------------
(* Small instances of SUPDrvMem for TLC. *)
EXTENDS SUPDrvMem, TLC

Symmetry == Permutations(Thread) \cup Permutations(Mem) \cup Permutations(Addr)
=============================================================================
