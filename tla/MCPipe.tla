------------------------------- MODULE MCPipe -------------------------------
(***************************************************************************)
(* Instances of PipeUsers for model checking.  Processes other than the    *)
(* first are interchangeable.                                              *)
(***************************************************************************)
EXTENDS PipeUsers, TLC

Symmetry == Permutations(Procs \ {First})
=============================================================================
