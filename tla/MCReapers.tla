----------------------------- MODULE MCReapers -----------------------------
EXTENDS Reapers, TLC
Symmetry == Permutations(Procs \ {Root})
=============================================================================
