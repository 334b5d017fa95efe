---------------------------- MODULE MCVBoxNetFlt ----------------------------
EXTENDS VBoxNetFlt, TLC

Symmetry == Permutations(Ins)
=============================================================================
