--------------------------- MODULE MCHandleTable ---------------------------
(* Small instances of HandleTable for TLC. *)
EXTENDS HandleTable, TLC

Symmetry == Permutations(Thread) \cup Permutations(Ctx)
=============================================================================
