---------------------------- MODULE MCSUPDrvLdr ----------------------------
(* Small instances of SUPDrvLdr for TLC. *)
EXTENDS SUPDrvLdr, TLC

Symmetry == Permutations(Session) \cup Permutations(Thread) \cup Permutations(Image)
=============================================================================
