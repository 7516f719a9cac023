----------------------------- MODULE MCPlugins -----------------------------
EXTENDS Plugins, TLC
Symmetry == Permutations(Procs \ {First}) \cup Permutations(Win) \cup Permutations(Sems)
=============================================================================
