-------------------------------- MODULE MCVfs --------------------------------
(* Vfs with two tasks on one small disk. *)
EXTENDS Vfs, TLC

Symmetry == Permutations(Task) \cup Permutations(Name)
=============================================================================
