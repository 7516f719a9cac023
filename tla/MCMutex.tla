------------------------------ MODULE MCMutex ------------------------------
(***************************************************************************)
(* Instances of Mutex for model checking.  Threads are interchangeable.    *)
(***************************************************************************)
EXTENDS Mutex, TLC

Symmetry == Permutations(Threads)
=============================================================================
