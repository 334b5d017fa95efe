---------------------------- MODULE MCSUPDrvSem ----------------------------
EXTENDS SUPDrvSem, TLC

Symmetry == Permutations(Thread) \cup Permutations(Sem)
=============================================================================
