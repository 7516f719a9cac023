------------------------------ MODULE MCKernel ------------------------------
(***************************************************************************)
(* Instances of Kernel for model checking.  The process ids other than the *)
(* root's are interchangeable; thread and signal ids are not, since joins  *)
(* and waits take the lowest.                                              *)
(***************************************************************************)
EXTENDS Kernel, TLC

Symmetry == Permutations(Procs \ {Root})
=============================================================================
