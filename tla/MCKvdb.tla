------------------------------- MODULE MCKvdb -------------------------------
(* Kvdb with the threads of one process, several processes, and crashes. *)
EXTENDS Kvdb, TLC

Symmetry == Permutations(Slot) \cup Permutations(Process)
=============================================================================
