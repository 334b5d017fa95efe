----------------------------- MODULE MCR0Notify -----------------------------
EXTENDS R0Notify, TLC

(* Not of Rec: FreshRec chooses one. *)
Symmetry == Permutations(Event) \cup Permutations(Client) \cup Permutations(Key)
=============================================================================
